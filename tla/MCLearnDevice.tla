---------------------------- MODULE MCLearnDevice ----------------------------
(***************************************************************************)
(* Small networks for LearnDevice: two devices, or three, with two short   *)
(* addresses, or one each.                                                 *)
(***************************************************************************)
EXTENDS LearnDevice

CONSTANTS lamp, remote, mute

Desc(num, profile, device_id) == [num |-> num, profile |-> profile, device_id |-> device_id]

\* A lamp with two application endpoints, a remote control with one whose
\* number the lamp uses too, and a device without application endpoints.
TwoDescriptors   == (lamp :> <<Desc(1, Zha, 528), Desc(2, 49246, 528)>>)
                    @@ (remote :> <<Desc(1, 49246, 2064)>>)
ThreeDescriptors == TwoDescriptors @@ (mute :> <<>>)

TwoAddresses   == {101, 102}
ThreeAddresses == {101, 102, 103}

Losses      == {"loss", "duplicate", "reannounce", "crash"}
Moves       == {"new_address"}
Everything  == FaultKinds
Kills       == {"crash"}
=============================================================================

------------------------------ MODULE MCAppeal ------------------------------
(* TLC instance of AppealInvariant (and AppealProperties).              *)
EXTENDS AppealInvariant, TLC

CONSTANT Receipt   \* a second artifact, standing for the other two

MCArtifacts == {DeviceLog, Receipt}
MCConsentChoices == {{DeviceLog}, {Receipt}, {DeviceLog, Receipt}}
MCDeviceLogOnly == {{DeviceLog}}

Symmetry == Permutations(Cases) \cup Permutations(Appeals)
                \cup Permutations(Calls) \cup Permutations(Threads)

=============================================================================

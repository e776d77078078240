------------------------------ MODULE MCVolume ------------------------------
(* From the file down to the card: the contents of files, the arithmetic that *)
(* places their clusters on the device, and the driver that moves the blocks, *)
(* each explored for itself: explored names the one whose steps are taken,    *)
(* the others stay in their initial states.                                   *)
EXTENDS Math32, FatIo, Sd

VARIABLE explored

volumeVars == <<explored, vars, fioVars, sdVars>>

\* A card that waits for a command takes this block for SET_BLOCKLEN.
VolumePayloads == {<<80, 1, 254>>}

VolumeInit ==
    /\ explored \in {"arithmetic", "contents", "card"}
    /\ Init
    /\ explored # "arithmetic" => Value(x) = 0 /\ Value(y) = 0 /\ cf = 0
    /\ FioInit
    /\ SdInit

\* The steps of the driver, which is a busy loop.
CardDriven == explored = "card" /\ Driver /\ UNCHANGED <<explored, vars, fioVars>>

VolumeNext ==
    \/ explored = "arithmetic" /\ Next /\ UNCHANGED <<explored, fioVars, sdVars>>
    \/ explored = "contents" /\ FioNext /\ UNCHANGED <<explored, vars, sdVars>>
    \/ explored = "card" /\ SdNext /\ UNCHANGED <<explored, vars, fioVars>>

VolumeSpec == VolumeInit /\ [][VolumeNext]_volumeVars /\ WF_sdVars(CardDriven)

=============================================================================

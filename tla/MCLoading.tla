------------------------------- MODULE MCLoading -------------------------------
(***************************************************************************)
(* Two files loaded one after the other, the first of which comes from a   *)
(* reader that is taken as given: CrmLoad loads it.  What MatrixReaders    *)
(* reads the second with is then looked at in turn.  The modules share no  *)
(* state, so that one file of the two may as well be the same all the time.*)
(***************************************************************************)
EXTENDS MCCrmLoad, MCMatrixReaders

FirstInput == File(0, 2, 0, <<>>, NoDegrees)
FirstSession ==
    [hint |-> "none", ext |-> "txt", gz |-> FALSE, lines |-> << <<1>> >>, format |-> "unknown"]

LoadingInit ==
    \/ session = FirstSession /\ ReadInit /\ Init
    \/ input = FirstInput /\ Init /\ ReadInit

Loads == Next /\ UNCHANGED readvars
Reads == pc \in {"done", "failed", "undefined"} /\ ReadNext /\ UNCHANGED vars

LoadingNext == Loads \/ Reads

LoadingSpec ==
    /\ LoadingInit /\ [][LoadingNext]_<<vars, readvars>>
    /\ WF_<<vars, readvars>>(Loads) /\ WF_<<vars, readvars>>(Reads)
================================================================================

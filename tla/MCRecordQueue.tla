---------------------------- MODULE MCRecordQueue ----------------------------
(***************************************************************************)
(* What runs in threads of its own: the recorder and its release queue     *)
(* (RecordQueue), and the searches of the stream (HistoryStream), two of   *)
(* them over one stream slot and two keys.  The two share no state; `part` *)
(* picks the one that moves.                                               *)
(***************************************************************************)
EXTENDS RecordQueue, HistoryStream, TLC

CONSTANTS key1, key2, acct1, acct2, acct3

\* What happens beside the recorder happens right before a step that looks at
\* it; anywhere else it commutes with the recorder's next step.
Paced ==
    /\ now' # now => rec.pc \in {"restore", "poll", "check"}
    /\ minute' # minute => rec.pc \in {"restore", "check", "push"}
    /\ stopping' # stopping => rec.pc = "check" \/ rec' = Booting
    /\ restarts' # restarts => rec.pc \in {"poll", "check", "stopped"}
    /\ ver' # ver /\ rec' = rec => restarts = MaxRestarts /\ rec.stop

Step == NoReplacement /\ Paced

ApiKeys == <<key1, key2>>
SmallOnes == {acct1, acct2}
LargeOnes == {acct3}

\* Pasts: a change in the first window and one found later; none at all within
\* the look-back; two changes around a window's border.
Pasts == {acct1 :> p[1] @@ acct2 :> p[2] @@ acct3 :> p[3] :
            p \in {<<{7}, {2, 6}, {3, 7}>>, <<{}, {1, 6}, {5}>>, <<{2, 7}, {7}, {}>>}}

VARIABLE part

ThreadsInit == Init /\ StreamInit /\ part \in {"recorder", "search"}
ThreadsNext ==
    /\ UNCHANGED part
    /\ \/ part = "recorder" /\ Next /\ Step /\ UNCHANGED streamVars
       \/ part = "search" /\ StreamNext /\ UNCHANGED vars

\* The recorder goes on, and a search that does not sleep; a key's back-off
\* need never pass.
ThreadsSpec ==
    /\ ThreadsInit /\ [][ThreadsNext]_<<vars, streamVars, part>>
    /\ WF_vars(part = "recorder" /\ Recorder /\ Step)
    /\ \A t \in Searches : WF_streamVars(SearchStep(t))
=============================================================================

------------------------------- MODULE AlarmFeed -------------------------------
(***************************************************************************)
(* What the path from the alarm decision to the outputs promises: each     *)
(* decision is announced once, the announcements are shown in order, none  *)
(* is skipped or repeated, and whatever was announced is eventually shown. *)
(* A decision that cannot be announced is not taken.  FreeRtosPort         *)
(* implements this with two tasks and a queue.                             *)
(***************************************************************************)
EXTENDS Naturals, Sequences

CONSTANTS States, FeedLength, NothingShown

VARIABLES decided,      \* the alarm state the environment side stands by
          feed,         \* announced and not yet shown
          shown         \* what the outputs show

feedVars == <<decided, feed, shown>>

Init == /\ decided = "NORMAL"
        /\ feed = <<>>
        /\ shown = NothingShown

Announce == /\ Len(feed) < FeedLength
            /\ decided' \in States
            /\ feed' = Append(feed, decided')
            /\ UNCHANGED shown

Show == /\ feed # <<>>
        /\ shown' = Head(feed)
        /\ feed' = Tail(feed)
        /\ UNCHANGED decided

Next == Announce \/ Show

SafeSpec == Init /\ [][Next]_feedVars

Spec == SafeSpec /\ WF_feedVars(Show)

===============================================================================

------------------------- MODULE MCListenerReceipts -------------------------
(***************************************************************************)
(* Instances of ListenerReceipts for TLC, with the history its properties  *)
(* speak of: what was heard, what a browser played under a grant while its *)
(* observer was off, and what was played while listening was allowed.      *)
(***************************************************************************)
EXTENDS ListenerReceipts, TLC

VARIABLES heard,      \* units heard in a browser, by occurrence
          unwatched,  \* units played unheard while a browser with a grant did not report
          permitted   \* units played under a permission, by partition

history == <<heard, unwatched, permitted>>

Devices == Permutations(Browsers)

HistoryInit == Init /\ heard = {} /\ unwatched = {} /\ permitted = {}

\* The unit that the room plays until the next tick.
Unit == {c \in Cells : playback.playing /\ c = Canonical}

Heard == \E b \in Browsers : elements[b].audible

\* The room would accept a report of the browser, whose observer sends none: the player
\* was mounted anew, or the grant is being asked for again.
Unwatched == \E b \in Browsers : Accepts(b) /\ ~elements[b].reports

Remember ==
  /\ heard' = heard \union {<<playback.occ, c>> : c \in {c \in Unit : Heard}}
  /\ unwatched' = unwatched \union {<<playback.occ, c>> : c \in {c \in Unit : Unwatched /\ ~Heard}}
  /\ permitted' = permitted \union {<<playback.occ, permission.epoch, permission.gen, c>> :
                                       c \in {c \in Unit : permission.allowed}}

HistoryNext ==
  /\ Next
  /\ IF now' = now THEN UNCHANGED history ELSE Remember

HistorySpec == HistoryInit /\ [][HistoryNext]_<<vars, history>>

-----------------------------------------------------------------------------
\* Whatever is reported, throttled, muted, seeked or reconnected, a unit is credited only
\* if it was heard in one of the account's browsers, or passed in one that held a grant
\* while its observer was off: nothing that was watched and not heard is credited.
CreditedWasHeardOrUnwatched ==
  \A c \in coverage : \A u \in c.cells :
    <<c.key[1], u>> \in heard \union unwatched

\* Documented: first arrival, seek, pause, buffer, mute, stale session, long gap and
\* reconnect do not fill missing coverage, so that what is credited was heard.
CreditedWasHeard ==
  \A c \in coverage : \A u \in c.cells :
    <<c.key[1], u>> \in heard

\* What counts was played while the account allowed listening to be learned, after it
\* last cleared its history, though grants and receipts outlive both changes.
OnlyPermittedCounts ==
  \A r \in Counted : \A u \in r.cells :
    <<r.key[1], permission.epoch, permission.gen, u>> \in permitted
=============================================================================

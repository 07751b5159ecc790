------------------------------- MODULE MCLive -------------------------------
(* A small instance for TLC of what the household must eventually see: its *)
(* alerts, and the end of each second opinion it asked for.  A behaviour   *)
(* is about one of these.                                                  *)
EXTENDS AlertDelivery

CONSTANTS email, Cats, Texts, Requests, Sync, Reviews, None

VARIABLES focus, cats, sorted, autos, job, review, recs, wish, saves, edits, restarts

sorting == <<cats, sorted, autos, job, review, recs, wish, saves, edits, restarts>>
all == <<vars, sorting, focus>>

OneChannel == <<email>>

Srt == INSTANCE Sorting WITH
    txn <- sorted, SyncsAlone <- TRUE, MaxAutos <- 1, MaxSaves <- 0, MaxEdits <- 1, MaxRestarts <- 1

LiveInit == Init /\ Srt!Init /\ focus \in {"alerts", "reviews"}

Alerting == focus = "alerts" /\ UNCHANGED <<sorting, focus>>
Sorting == focus = "reviews" /\ UNCHANGED <<vars, focus>>

LiveNext == (Alerting /\ Next) \/ (Sorting /\ Srt!Next)

\* The fairness of AlertDelivery and of Sorting, each where it is at work.
LiveFairness ==
    /\ WF_all(Alerting /\ WorkerStep)
    /\ \A t \in Txns : WF_all(Alerting /\ Enqueue(t))
    /\ \A c \in Channels : WF_all(Alerting /\ ChannelRecovers(c))
    /\ \A k \in Keys, c \in Channels : WF_all(Alerting /\ RetryPasses(k, c))
    /\ \A r \in Reviews : WF_all(Sorting /\ Srt!Reviewing(r))
    /\ WF_all(Sorting /\ Srt!StopStale)

LiveSpec == LiveInit /\ [][LiveNext]_all /\ LiveFairness

\* A low balance is told of, and so is a large transaction (alerts/service.py:466-540).
EverythingIsTold == LowBalanceIsTold /\ LargeTransactionIsTold
\* Every review ends, even one that a restart cut off: models/ai.py's "so it
\* doesn't look busy for good".
ReviewsEnd == Srt!ReviewsEnd
=============================================================================

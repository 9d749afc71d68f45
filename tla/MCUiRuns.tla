------------------------------ MODULE MCUiRuns ------------------------------
(***************************************************************************)
(* Two Runs and two tasks, in parts by what the user does:                 *)
(*   "review"  reviews, approves, starts and cancels, from a review on;    *)
(*   "log"     reads the log of the Run at hand and follows it;            *)
(*   "pages"   pages through raw results, there and back;                  *)
(*   "baseline" pins a Run and compares others with it.                    *)
(* Init leads to the initial state of each.                                *)
(***************************************************************************)
EXTENDS UiRuns

CONSTANTS r1, r2, t1, t2, d1

AtReview ==
  [Home EXCEPT !.tab = "tasks",
     !.dialog = Request("review", [task |-> t1, digest |-> d1, approved |-> FALSE])]
AtDetails == [Home EXCEPT !.run = r1, !.page = "detail"]

VARIABLE part

LogKeys == {"open", "log", "scroll", "refresh"}
PageKeys == {"open", "raw", "error", "restart"}
BaselineKeys == {"open", "baseline"}
Log == INSTANCE UiRuns WITH
         Keys <- LogKeys, Limit <- 3, CancelLimit <- 4, MaxNonce <- 5, MaxEpoch <- 2
Pages == INSTANCE UiRuns WITH
         Keys <- PageKeys, Limit <- 3, CancelLimit <- 4, MaxNonce <- 5, MaxEpoch <- 2
Comparison == INSTANCE UiRuns WITH
                Keys <- BaselineKeys, Limit <- 3, CancelLimit <- 4, MaxEpoch <- 2

PartInit ==
  /\ part \in {"review", "log", "pages", "baseline"}
  /\ AtRest(IF part = "review" THEN AtReview ELSE AtDetails)
PartNext ==
  /\ \/ part = "review" /\ Next
     \/ part = "log" /\ Log!Next
     \/ part = "pages" /\ Pages!Next
     \/ part = "baseline" /\ Comparison!Next
  /\ UNCHANGED part

PartSpec == PartInit /\ [][PartNext]_<<part, vars>>
=============================================================================

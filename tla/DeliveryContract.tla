--------------------------- MODULE DeliveryContract ---------------------------
(***************************************************************************)
(* What process_broadcast relies on when it calls deliver_message, in      *)
(* terms of how many recipients of the broadcast have a successful         *)
(* message_logs row: "none", "some" or "all".  BroadcastDispatch assumes   *)
(* it of every delivery, BroadcastDelivery shows it of deliver_message.    *)
(***************************************************************************)
LogState == {"none", "some", "all"}

(* Rows are only ever added. *)
LogGrows(before, after) == before # "none" => after # "none"

(* The result of a delivery that returned: one success, now or before, is  *)
(* enough for "sent".  A recipient whose send raised leaves no result, and *)
(* all(...) of no results is true, so "sent" may also come of no success.  *)
MayReturn(before, after, verdict) ==
    /\ LogGrows(before, after)
    /\ after # "none" => verdict = "sent"

(* Mutant: a timeout is a failure, whatever was sent. *)
TimeoutFails(after) == "failed"

(* The result of a delivery that wait_for cancelled. *)
LogVerdict(after) == IF after = "none" THEN "failed" ELSE "sent"
=============================================================================

------------------------------ MODULE ChatCredits ------------------------------
(***************************************************************************)
(* AI credits of a tenant and the chat turns that spend them               *)
(* (app/services/ai_credit_service.py, chat of                             *)
(* app/services/ai_chat_v2_service.py, the credit endpoints of             *)
(* app/api/ai.py, the credit packs of app/services/billing.py).            *)
(*                                                                         *)
(* Every request loads the tenant once and works on its copy: sessions do  *)
(* not expire what they hold on commit, and a commit writes the changed    *)
(* columns with the values of the copy.  A turn charges an estimate before *)
(* it generates; the streaming branch pays it back and charges what was    *)
(* used, the other branch charges what was used on top.                    *)
(*                                                                         *)
(* Of the conversation the rows of one session are kept.  The counters and *)
(* the summary of the session, memory, search and prompts are left out, as *)
(* are admin tenants (never charged) and the promotion cohort (a larger    *)
(* pool).                                                                  *)
(***************************************************************************)
EXTENDS Integers, Sequences

CONSTANTS
    Turn,           \* chat requests of one session
    Caller,         \* other requests that change the credits
    Estimate,       \* len(content) + 2000
    Usages,         \* what a turn may turn out to use
    LegacyCost,     \* CREDIT_COST of a feature
    PackSize,       \* credits of a pack
    FreePool,       \* FREE_CREDITS_PER_REFILL
    PaidPool,       \* PLAN_MONTHLY_CREDITS
    ResetTokens,    \* PLAN_RESET_TOKENS
    RefillInterval, \* FREE_REFILL_INTERVAL
    TrialEnd,       \* trial_expires_at
    HistoryPage,    \* limit of get_session_messages (200)
    HistoryKept,    \* _MAX_HISTORY_MESSAGES
    MaxHour         \* bound on time

ASSUME CreditAssumption ==
    /\ Estimate \in Nat \ {0} /\ LegacyCost \in Nat \ {0} /\ PackSize \in Nat \ {0}
    /\ Usages \subseteq Nat \ {0}
    /\ FreePool \in Nat /\ PaidPool \in Nat /\ ResetTokens \in Nat
    /\ RefillInterval \in Nat \ {0} /\ TrialEnd \in Nat \ {0} /\ MaxHour \in Nat
    /\ HistoryPage \in Nat \ {0} /\ HistoryKept \in 1 .. HistoryPage

VARIABLES
    tenant,     \* the row of the tenant
    chatLog,    \* ai_chat_messages_v2 of the session, oldest first
    turn,       \* chat requests
    caller,     \* the other requests
    hour,
    \* history, per turn: what its writes took from the balance; whether
    \* nobody else wrote and nothing was refilled meanwhile; its history rows
    paid, alone, seen

creditVars == <<tenant, chatLog, turn, caller, hour, paid, alone, seen>>

Fresh == [pc |-> "new", stream |-> TRUE, used |-> 0, short |-> FALSE, copy |-> tenant]
Nothing == [pc |-> "new", kind |-> "none", copy |-> tenant]

CreditInit ==
    /\ \E plan \in {"free", "pro"}, trial \in BOOLEAN :
          /\ trial => plan = "pro"
          /\ tenant = [plan |-> plan, trial |-> trial, refilled |-> 0,
                       balance |-> IF plan = "free" THEN FreePool ELSE PaidPool,
                       tokens |-> IF plan = "free" THEN 0 ELSE ResetTokens]
    /\ chatLog = <<>>
    /\ turn = [t \in Turn |-> Fresh]
    /\ caller = [q \in Caller |-> Nothing]
    /\ hour = 0
    /\ paid = [t \in Turn |-> 0] /\ alone = [t \in Turn |-> TRUE]
    /\ seen = [t \in Turn |-> <<>>]

-----------------------------------------------------------------------------
(* ai_credit_service: what it makes of the tenant in hand.                 *)

(* _expire_trial_if_past *)
Expired(c) ==
    IF c.trial /\ hour >= TrialEnd
    THEN [c EXCEPT !.plan = "free", !.trial = FALSE, !.balance = FreePool, !.refilled = hour]
    ELSE c

(* _refill_if_needed *)
Refilled(c) ==
    IF c.plan = "free" /\ c.balance < FreePool /\ hour - c.refilled >= RefillInterval
    THEN [c EXCEPT !.balance = FreePool, !.refilled = hour]
    ELSE c

Checked(c) == Refilled(Expired(c))
Covers(c, n) == c.balance >= n
Charged(c, n) == IF Covers(c, n) THEN [c EXCEPT !.balance = @ - n] ELSE c

(* A commit: the changed columns, with the values of the copy. *)
Written(old, new) == [f \in DOMAIN tenant |-> IF new[f] # old[f] THEN new[f] ELSE tenant[f]]

UnderWay(t) == turn[t].pc \notin {"new", "done", "failed"}

(* History: a write of somebody else, or a refill, comes across the turns  *)
(* that are under way.                                                     *)
Across(others) == alone' = [t \in Turn |-> alone[t] /\ (t \in others => ~UnderWay(t))]

(* The write of a turn that has worked its copy into new. *)
TurnWrites(t, new) ==
    /\ tenant' = Written(turn[t].copy, new)
    /\ paid' = [paid EXCEPT ![t] = @ + tenant.balance - tenant'.balance]
    /\ Across(IF new.refilled # turn[t].copy.refilled THEN Turn ELSE Turn \ {t})

-----------------------------------------------------------------------------
(* chat.                                                                   *)

LoadTenant(t) ==
    /\ turn[t].pc = "new"
    /\ \E stream \in BOOLEAN :
          turn' = [turn EXCEPT ![t] = [Fresh EXCEPT !.pc = "estimate", !.stream = stream]]
    /\ UNCHANGED <<tenant, chatLog, caller, hour, paid, alone, seen>>

(* Without enough for the estimate the request ends; nothing is written.   *)
ChargeEstimate(t) ==
    /\ turn[t].pc = "estimate"
    /\ LET c == Checked(turn[t].copy) IN
       IF Covers(c, Estimate)
       THEN /\ TurnWrites(t, Charged(c, Estimate))
            /\ turn' = [turn EXCEPT ![t].pc = "save", ![t].copy = Charged(c, Estimate)]
       ELSE /\ turn' = [turn EXCEPT ![t].pc = "refused"]
            /\ UNCHANGED <<tenant, paid, alone>>
    /\ UNCHANGED <<chatLog, caller, hour, seen>>

Message(t, role, empty) == [turn |-> t, role |-> role, empty |-> empty]

(* The question, and an empty answer that nothing ever fills. *)
SaveQuestion(t) ==
    /\ turn[t].pc = "save"
    /\ chatLog' = chatLog \o <<Message(t, "user", FALSE), Message(t, "assistant", TRUE)>>
    /\ turn' = [turn EXCEPT ![t].pc = "history"]
    /\ UNCHANGED <<tenant, caller, hour, paid, alone, seen>>

Newest(s, n)  == SubSeq(s, IF Len(s) > n THEN Len(s) - n + 1 ELSE 1, Len(s))
Told(s) == SelectSeq(s, LAMBDA m : ~m.empty)

(* _build_history_messages: the last rows of the first page. *)
HistoryRows(s) ==
    Told(Newest(SubSeq(s, 1, IF Len(s) > HistoryPage THEN HistoryPage ELSE Len(s)), HistoryKept))

BuildHistory(t) ==
    /\ turn[t].pc = "history"
    /\ seen' = [seen EXCEPT ![t] = HistoryRows(chatLog)]
    /\ turn' = [turn EXCEPT ![t].pc = "generate"]
    /\ UNCHANGED <<tenant, chatLog, caller, hour, paid, alone>>

(* The model answers; tools, quality gates and retries end here too. *)
Generate(t) ==
    /\ turn[t].pc = "generate"
    /\ \E n \in Usages : turn' = [turn EXCEPT ![t].pc = "answered", ![t].used = n]
    /\ UNCHANGED <<tenant, chatLog, caller, hour, paid, alone, seen>>

(* It fails, answers nothing, or the client goes away: the turn just ends. *)
GenerationFails(t) ==
    /\ turn[t].pc \in {"save", "history", "generate", "answered"}
    /\ turn' = [turn EXCEPT ![t].pc = "failed"]
    /\ UNCHANGED <<tenant, chatLog, caller, hour, paid, alone, seen>>

(* The streaming branch.  Mutant: the estimate is not paid back. *)
KeepsEstimate(c) == c
PaidBack(c) == [c EXCEPT !.balance = @ + Estimate]

(* The answer and the credits are saved; what the tenant cannot cover is   *)
(* not charged, and the estimate is paid back all the same.                *)
Settles(t, c) ==
    /\ TurnWrites(t, Charged(Checked(c), turn[t].used))
    /\ turn' = [turn EXCEPT ![t].pc = "done", ![t].short = ~Covers(Checked(c), turn[t].used)]
    /\ chatLog' = Append(chatLog, Message(t, "assistant", FALSE))
    /\ UNCHANGED <<caller, hour, seen>>

FinishStream(t) ==
    /\ turn[t].pc = "answered" /\ turn[t].stream
    /\ Settles(t, PaidBack(turn[t].copy))

FinishWhole(t) ==
    /\ turn[t].pc = "answered" /\ ~turn[t].stream
    /\ Settles(t, turn[t].copy)

-----------------------------------------------------------------------------
(* The other requests: each loads the tenant and writes it later.          *)

LoadFor(q) ==
    /\ caller[q].pc = "new"
    /\ \E kind \in {"legacy", "reset", "pack", "upgrade"} :
          caller' = [caller EXCEPT ![q] = [pc |-> "loaded", kind |-> kind, copy |-> tenant]]
    /\ UNCHANGED <<tenant, chatLog, turn, hour, paid, alone, seen>>

CallerWrites(q, new) ==
    /\ tenant' = Written(caller[q].copy, new)
    /\ Across(Turn)
    /\ caller' = [caller EXCEPT ![q].pc = "done"]
    /\ UNCHANGED <<chatLog, turn, hour, paid, seen>>

Asked(q, kind) == caller[q].pc = "loaded" /\ caller[q].kind = kind

(* check_and_deduct_legacy_credits does not look at the trial. *)
SpendLegacy(q) ==
    /\ Asked(q, "legacy")
    /\ Covers(Refilled(caller[q].copy), LegacyCost)
    /\ CallerWrites(q, Charged(Refilled(caller[q].copy), LegacyCost))

ResetPool(q) ==
    LET c == caller[q].copy IN
    /\ Asked(q, "reset")
    /\ c.plan = "pro" /\ c.tokens > 0
    /\ CallerWrites(q, [c EXCEPT !.tokens = @ - 1, !.balance = PaidPool])

AddPack(q) ==
    LET c == caller[q].copy IN
    /\ Asked(q, "pack")
    /\ CallerWrites(q, [c EXCEPT !.balance = @ + PackSize])

(* A plan is paid for: apply_plan_limits, which reads the row again, and   *)
(* ensure_initial_credits, which leaves a balance that is not 0.           *)
Upgrade(q) ==
    /\ Asked(q, "upgrade")
    /\ tenant' = IF tenant.balance <= 0
                 THEN [plan |-> "pro", trial |-> FALSE, balance |-> PaidPool,
                       tokens |-> ResetTokens, refilled |-> hour]
                 ELSE [tenant EXCEPT !.plan = "pro", !.trial = FALSE]
    /\ Across(Turn)
    /\ caller' = [caller EXCEPT ![q].pc = "done"]
    /\ UNCHANGED <<chatLog, turn, hour, paid, seen>>

HourGoesBy ==
    /\ hour < MaxHour
    /\ hour' = hour + 1
    /\ UNCHANGED <<tenant, chatLog, turn, caller, paid, alone, seen>>

CreditNext ==
    \/ \E t \in Turn : \/ LoadTenant(t) \/ ChargeEstimate(t) \/ SaveQuestion(t) \/ BuildHistory(t)
                       \/ Generate(t) \/ GenerationFails(t) \/ FinishStream(t) \/ FinishWhole(t)
    \/ \E q \in Caller : \/ LoadFor(q) \/ SpendLegacy(q) \/ ResetPool(q) \/ AddPack(q)
                          \/ Upgrade(q)
    \/ HourGoesBy

CreditSpec == CreditInit /\ [][CreditNext]_creditVars

-----------------------------------------------------------------------------
(* Correctness.                                                            *)

Row == [plan : {"free", "pro"}, trial : BOOLEAN, balance : Nat, tokens : 0 .. ResetTokens,
        refilled : 0 .. MaxHour]

(* Every variable has its type; the balance is never negative. *)
CreditTypeOK ==
    /\ tenant \in Row
    /\ chatLog \in Seq([turn : Turn, role : {"user", "assistant"}, empty : BOOLEAN])
    /\ turn \in [Turn -> [pc : {"new", "estimate", "refused", "save", "history", "generate",
                                "answered", "done", "failed"},
                          stream : BOOLEAN, used : Usages \cup {0}, short : BOOLEAN, copy : Row]]
    /\ caller \in [Caller -> [pc : {"new", "loaded", "done"}, copy : Row,
                                kind : {"none", "legacy", "reset", "pack", "upgrade"}]]
    /\ hour \in 0 .. MaxHour
    /\ paid \in [Turn -> Int] /\ alone \in [Turn -> BOOLEAN]

(* A streamed turn that nobody's write came across has cost what it used,  *)
(* or nothing when that was more than there was; one that failed has cost  *)
(* the estimate, which is never paid back.                                 *)
StreamCharged ==
    \A t \in Turn : alone[t] /\ turn[t].stream =>
        /\ turn[t].pc = "done" => paid[t] = IF turn[t].short THEN 0 ELSE turn[t].used
        /\ turn[t].pc = "failed" => paid[t] = Estimate

(* The history a turn gives the model is the most recent of its session,   *)
(* as the docstring of _build_history_messages has it.                     *)
HistoryRecent ==
    [][\A t \in Turn : turn[t].pc = "history" /\ turn'[t].pc = "generate"
          => seen'[t] = Told(Newest(chatLog, HistoryKept))]_creditVars
=============================================================================

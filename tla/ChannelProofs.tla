----------------------------- MODULE ChannelProofs -----------------------------
(***************************************************************************)
(* What a sign-up is admitted on: a code sent to the phone (send-code,     *)
(* verify-code and the password reset of app/api/auth.py,                  *)
(* app/crud/user.py), or a token whose owner the bot has seen and who is a *)
(* member of the channel (app/crud/telegram_verification.py,               *)
(* app/api/telegram_verify.py, app/api/free_api_key.py).                   *)
(*                                                                         *)
(* A request that loads a row works on what it read; the two updates of a  *)
(* token that are conditional statements look at the row itself.           *)
(***************************************************************************)
EXTENDS Integers, FiniteSets

CONSTANTS
    Phone, Form,    \* phones; telegram_channel_verifications (a bound)
    Visit,          \* requests and updates handled
    MaxGuesses,     \* OTP_MAX_ATTEMPTS
    MaxCodes,       \* bound on codes sent to a phone
    NoForm

ASSUME ProofAssumption ==
    MaxGuesses \in Nat \ {0} /\ MaxCodes \in Nat /\ NoForm \notin Form /\ Phone # {}

VARIABLES
    code,       \* phone_verifications of the phone; no = 0: no row
    codes,      \* codes sent so far
    form,       \* telegram_channel_verifications
    keyed,      \* phones whose user has an api_key_hash
    visit,      \* requests
    \* history: <<request, proof>> of those admitted, and codes that two
    \* requests had in hand at once
    admitted, shared

proofVars == <<code, codes, form, keyed, visit, admitted, shared>>

NoCode  == [no |-> 0, tries |-> 0, fresh |-> FALSE]
NoToken == [status |-> "none", verified |-> FALSE, consumed |-> FALSE, fresh |-> FALSE]
NoVisit == [pc |-> "new", phone |-> CHOOSE p \in Phone : TRUE, form |-> NoForm,
            code |-> NoCode, status |-> "none"]

ProofInit ==
    /\ code = [p \in Phone |-> NoCode] /\ codes = [p \in Phone |-> 0]
    /\ form = [f \in Form |-> NoToken]
    /\ keyed \in SUBSET Phone
    /\ visit = [v \in Visit |-> NoVisit]
    /\ admitted = {} /\ shared = {}

Goes(v, pc)  == visit' = [visit EXCEPT ![v].pc = pc]
CodeOf(v)    == <<visit[v].phone, visit[v].code.no>>
Admits(v, proof) == admitted' = admitted \cup {<<v, proof>>}

-----------------------------------------------------------------------------
(* The code of a phone.                                                    *)

(* upsert_verification_code replaces the row, when the cooldown is over;   *)
(* forgot-password sends one the same way.                                 *)
SendCode(p) ==
    /\ codes[p] < MaxCodes
    /\ codes' = [codes EXCEPT ![p] = @ + 1]
    /\ code' = [code EXCEPT ![p] = [no |-> codes[p] + 1, tries |-> 0, fresh |-> TRUE]]
    /\ UNCHANGED <<form, keyed, visit, admitted, shared>>

CodeExpires(p) ==
    /\ code[p].fresh
    /\ code' = [code EXCEPT ![p].fresh = FALSE]
    /\ UNCHANGED <<codes, form, keyed, visit, admitted, shared>>

(* verify_code of app/crud/user.py reads the row ... *)
ReadCode(v, p) ==
    /\ visit[v].pc = "new" /\ code[p].no # 0
    /\ visit' = [visit EXCEPT ![v] = [NoVisit EXCEPT !.pc = "code", !.phone = p, !.code = code[p]]]
    /\ shared' = IF \E w \in Visit : visit[w].pc = "code" /\ CodeOf(w) = <<p, code[p].no>>
                 THEN shared \cup {<<p, code[p].no>>} ELSE shared
    /\ UNCHANGED <<code, codes, form, keyed, admitted>>

(* Mutant: the row stays when its code was right. *)
Kept(c) == c
Removed(c) == NoCode

(* The row a request read, if it is still there. *)
UpdateRow(v, c) ==
    LET p == visit[v].phone IN
    code' = IF code[p].no = visit[v].code.no THEN [code EXCEPT ![p] = c] ELSE code

Guessable(c) == c.fresh /\ c.tries < MaxGuesses

(* ... and deletes it when it can no longer be used, *)
DropCode(v) ==
    /\ visit[v].pc = "code" /\ ~Guessable(visit[v].code)
    /\ UpdateRow(v, NoCode)
    /\ Goes(v, "done")
    /\ UNCHANGED <<codes, form, keyed, admitted, shared>>

(* counts a wrong code on top of what it read, *)
WrongCode(v) ==
    /\ visit[v].pc = "code" /\ Guessable(visit[v].code)
    /\ LET c == visit[v].code IN UpdateRow(v, [code[visit[v].phone] EXCEPT !.tries = c.tries + 1])
    /\ Goes(v, "done")
    /\ UNCHANGED <<codes, form, keyed, admitted, shared>>

(* or deletes it and admits the request; deleting a row that is gone is no *)
(* error.                                                                  *)
RightCode(v) ==
    /\ visit[v].pc = "code" /\ Guessable(visit[v].code)
    /\ UpdateRow(v, Removed(visit[v].code))
    /\ Admits(v, CodeOf(v))
    /\ Goes(v, "key")
    /\ UNCHANGED <<codes, form, keyed, shared>>

-----------------------------------------------------------------------------
(* The token of a channel verification.                                    *)

CreateVerification(f) ==
    /\ form[f].status = "none"
    /\ form' = [form EXCEPT ![f] = [NoToken EXCEPT !.status = "pending", !.fresh = TRUE]]
    /\ UNCHANGED <<code, codes, keyed, visit, admitted, shared>>

FormExpires(f) ==
    /\ form[f].fresh
    /\ form' = [form EXCEPT ![f].fresh = FALSE]
    /\ UNCHANGED <<code, codes, keyed, visit, admitted, shared>>

ReadForm(v, f, p, pc) ==
    /\ visit[v].pc = "new" /\ form[f].fresh
    /\ visit' = [visit EXCEPT ![v] = [NoVisit EXCEPT !.pc = pc, !.form = f, !.phone = p,
                                                     !.status = form[f].status]]
    /\ UNCHANGED <<code, codes, form, keyed, admitted, shared>>

(* link_telegram_user: /start reaches the bot, whatever the status is. *)
ReadLink(v, f) == ReadForm(v, f, NoVisit.phone, "link")

(* A status that was read as linked is not written again. *)
WriteLink(v) ==
    /\ visit[v].pc = "link"
    /\ form' = [form EXCEPT ![visit[v].form].status = IF visit[v].status = "linked" THEN @ ELSE "linked"]
    /\ Goes(v, "done")
    /\ UNCHANGED <<code, codes, keyed, admitted, shared>>

(* check: a verified token is answered at once, a linked one is asked for  *)
(* in the channel.                                                         *)
CheckVerified(v, f) ==
    /\ form[f].status = "verified"
    /\ ReadForm(v, f, NoVisit.phone, "told")

CheckLinked(v, f) ==
    /\ form[f].status = "linked"
    /\ ReadForm(v, f, NoVisit.phone, "channel")

NoMember(v) ==
    /\ visit[v].pc = "channel"
    /\ Goes(v, "done")
    /\ UNCHANGED <<code, codes, form, keyed, admitted, shared>>

(* mark_verified; the answer does not depend on whether it did. *)
MarkVerified(v) ==
    LET f == visit[v].form IN
    /\ visit[v].pc = "channel"
    /\ form' = IF form[f].status = "linked" /\ ~form[f].verified /\ form[f].fresh
               THEN [form EXCEPT ![f].status = "verified", ![f].verified = TRUE] ELSE form
    /\ Goes(v, "told")
    /\ UNCHANGED <<code, codes, keyed, admitted, shared>>

(* The free key looks at the token before it spends it, a sign-up spends   *)
(* it straight away.                                                       *)
ReadIssue(v, f, p) ==
    /\ form[f].status = "verified" /\ ~form[f].consumed
    /\ ReadForm(v, f, p, "issue")

ReadSignup(v, f, p) == ReadForm(v, f, p, "signup")

Spendable(t) == t.status = "verified" /\ ~t.consumed /\ t.fresh

(* consume_verified_token *)
ConsumeToken(v) ==
    LET f == visit[v].form IN
    /\ visit[v].pc \in {"issue", "signup"}
    /\ IF Spendable(form[f])
       THEN /\ form' = [form EXCEPT ![f].consumed = TRUE]
            /\ Admits(v, <<f>>)
            /\ Goes(v, IF visit[v].pc = "issue" THEN "free key" ELSE "key")
       ELSE Goes(v, "done") /\ UNCHANGED <<form, admitted>>
    /\ UNCHANGED <<code, codes, keyed, shared>>

-----------------------------------------------------------------------------
(* What the request was admitted for.                                      *)

(* A sign-up replaces the key of the user; a free key is issued only to a  *)
(* user without one, and the token is spent all the same.  Two that find   *)
(* no key write one after the other.                                       *)
IssueKey(v) ==
    /\ visit[v].pc \in {"key", "free key"}
    /\ keyed' = keyed \cup {visit[v].phone}
    /\ Goes(v, "done")
    /\ UNCHANGED <<code, codes, form, admitted, shared>>

(* The request dies, or was for a new password; the proof stays spent. *)
VisitEnds(v) ==
    /\ visit[v].pc \notin {"new", "told", "done"}
    /\ Goes(v, "done")
    /\ UNCHANGED <<code, codes, form, keyed, admitted, shared>>

ProofNext ==
    \/ \E p \in Phone : SendCode(p) \/ CodeExpires(p)
    \/ \E f \in Form : CreateVerification(f) \/ FormExpires(f)
    \/ \E v \in Visit :
          \/ DropCode(v) \/ WrongCode(v) \/ RightCode(v) \/ WriteLink(v) \/ NoMember(v)
          \/ MarkVerified(v) \/ ConsumeToken(v) \/ IssueKey(v) \/ VisitEnds(v)
          \/ \E p \in Phone : ReadCode(v, p)
          \/ \E f \in Form : \/ ReadLink(v, f) \/ CheckVerified(v, f) \/ CheckLinked(v, f)
                             \/ \E p \in Phone : ReadIssue(v, f, p) \/ ReadSignup(v, f, p)

ProofSpec == ProofInit /\ [][ProofNext]_proofVars

-----------------------------------------------------------------------------
(* Correctness.                                                            *)

Statuses == {"none", "pending", "linked", "verified"}
CodeRow  == [no : 0 .. MaxCodes, tries : 0 .. MaxGuesses, fresh : BOOLEAN]

(* Every variable has its type. *)
ProofTypeOK ==
    /\ code \in [Phone -> CodeRow] /\ codes \in [Phone -> 0 .. MaxCodes]
    /\ form \in [Form -> [status : Statuses, verified : BOOLEAN, consumed : BOOLEAN, fresh : BOOLEAN]]
    /\ keyed \subseteq Phone
    /\ visit \in [Visit -> [pc : {"new", "code", "link", "channel", "issue", "signup", "key",
                                  "free key", "told", "done"},
                            phone : Phone, form : Form \cup {NoForm}, code : CodeRow,
                            status : Statuses]]

(* A token admits one request, however many try at once, and is spent by   *)
(* it even if the request comes to nothing; so does a code, unless two     *)
(* requests had it in hand.                                                *)
ProofAdmitsOnce ==
    /\ \A a, b \in admitted : a[2] = b[2] /\ a[2] \notin shared => a[1] = b[1]
    /\ \A f \in Form : form[f].consumed <=> \E v \in Visit : <<v, <<f>>>> \in admitted
=============================================================================

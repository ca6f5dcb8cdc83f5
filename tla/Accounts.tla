------------------------------ MODULE Accounts ------------------------------
(***************************************************************************)
(* The account of one user, and the codes by which the user logs in.       *)
(* (routers/auth.py, routers/users.py and services/two_factor_service.py   *)
(* of the auth-gateway.)                                                   *)
(*                                                                         *)
(* A request reads what it decides on in one step and commits in another;  *)
(* requests at two replicas interleave between the two.  The password is   *)
(* the single sign-on's affair: a login here is one it has accepted.       *)
(***************************************************************************)
EXTENDS Naturals, Sequences, FiniteSets

CONSTANTS
  AcHandler,        \* requests that can be under way at a time
  MaxAttempts,      \* MAX_ATTEMPTS: wrong guesses a code survives (5 in the code)
  LockoutThreshold, \* LOCKOUT_THRESHOLD: exhausted codes that lock the account (3 in the code)
  MaxCodes,         \* bound: codes
  MaxAccountOps     \* bound: requests of the admins

ASSUME AccountsAssumption ==
  /\ MaxAttempts \in Nat \ {0} /\ LockoutThreshold \in Nat \ {0}
  /\ MaxCodes \in Nat /\ MaxAccountOps \in Nat

VARIABLES
  secondFactor, \* settings.two_factor_enabled of this deployment
  account,      \* the row of the user
  codes,        \* rows of two_factor_codes, oldest first
  acWork,       \* the requests under way
  acLog         \* history: admin requests; whether two requests overlapped; for each code its
                \* wrong guesses and its logins; whether a code was issued while another could
                \* still be tried; whether an approved account was deleted

acVars == <<secondFactor, account, codes, acWork, acLog>>

AcStatus == {"absent", "pending", "approved"}
AcRole == {"user", "admin"}
Account == [status : AcStatus, role : AcRole, phone : BOOLEAN, slug : BOOLEAN]

\* "fresh": not expired; "stale": expired, within the window of the lockout; "past": before it.
CodeAge == {"fresh", "stale", "past"}
CodeRow == [attempts : Nat, verified : BOOLEAN, age : CodeAge]

AdminOps == {"approve", "withdraw", "reject", "add"}
NoAccount == [status |-> "absent", role |-> "user", phone |-> FALSE, slug |-> FALSE]
AcIdle == [op |-> "idle", saw |-> NoAccount, code |-> 0, attempts |-> 0, right |-> FALSE]
AcQuiet == \A h \in AcHandler : acWork[h].op = "idle"

AcInit ==
  /\ secondFactor \in BOOLEAN
  /\ account \in {NoAccount, [NoAccount EXCEPT !.status = "pending", !.role = "admin"]}
  /\ codes = <<>>
  /\ acWork = [h \in AcHandler |-> AcIdle]
  /\ acLog = [ops |-> 0, overlapped |-> FALSE, guesses |-> [c \in 1..MaxCodes |-> 0],
              logins |-> [c \in 1..MaxCodes |-> 0], parallel |-> FALSE, lost |-> FALSE]

AcStart(h, w) ==
  /\ acWork[h].op = "idle"
  /\ acWork' = [acWork EXCEPT ![h] = w]

AcEnd(h) == acWork' = [acWork EXCEPT ![h] = AcIdle]

Overlapping == acLog.overlapped \/ ~AcQuiet

-----------------------------------------------------------------------------
(* Logging in *)

\* The row is looked up by the name that the sign-on confirmed.
BeginLogin(h) ==
  /\ AcStart(h, [AcIdle EXCEPT !.op = "login", !.saw = account])
  /\ Len(codes) < MaxCodes
  /\ acLog' = [acLog EXCEPT !.overlapped = Overlapping]
  /\ UNCHANGED <<secondFactor, account, codes>>

\* A new user is entered unapproved, perhaps with the telephone number of the sign-on.  An
\* admin is approved, and an approved user without a slug gets one.  The row written back
\* keeps what the other replica changed in columns this one did not.
Upserted(saw, held, phone) ==
  LET known == IF saw.status = "absent" THEN [NoAccount EXCEPT !.status = "pending"] ELSE held
      approves == saw.role = "admin" /\ saw.status = "pending"
      status == IF approves THEN "approved" ELSE known.status
  IN [known EXCEPT !.status = status,
                   !.phone = @ \/ phone,
                   !.slug = @ \/ approves \/ saw.status = "approved"]

\* The codes within the window that have no attempt left.
MaxedOut ==
  Cardinality({c \in 1..Len(codes) : codes[c].age # "past" /\ codes[c].attempts >= MaxAttempts})

Locked == MaxedOut >= LockoutThreshold

\* A code that verify_code would still compare.
Triable(c) == ~codes[c].verified /\ codes[c].age = "fresh" /\ codes[c].attempts < MaxAttempts

NewCode == [attempts |-> 0, verified |-> FALSE, age |-> "fresh"]

\* The row is written and read again; an approved user with a telephone number gets a code
\* unless the account is locked.  The number may come from another table (lookup).  Whether
\* the message with the code arrives changes nothing here.
FinishLogin(h) ==
  LET w == acWork[h] IN
  /\ w.op = "login"
  /\ \E phone, lookup \in BOOLEAN :
       LET written == Upserted(w.saw, account, phone)
           \* Inserted or deleted by the other replica meanwhile: the statement fails.
           fails == (w.saw.status = "absent") # (account.status = "absent")
           coded == /\ ~fails /\ written.status = "approved" /\ secondFactor
                    /\ ~Locked /\ (written.phone \/ lookup)
       IN
       /\ account' = IF fails THEN account
                     ELSE [written EXCEPT !.phone = @ \/ (coded /\ lookup)]
       /\ codes' = IF coded /\ Len(codes) < MaxCodes THEN Append(codes, NewCode) ELSE codes
       /\ acLog' = [acLog EXCEPT !.parallel = @ \/ (coded /\ \E c \in 1..Len(codes) : Triable(c))]
  /\ AcEnd(h)
  /\ UNCHANGED secondFactor

\* Mutant of BeginVerify: a code that has logged in is good for another login.
BeginVerifyAgain(h, c, right) ==
  /\ codes[c].age = "fresh"
  /\ codes[c].attempts < MaxAttempts
  /\ AcStart(h, [AcIdle EXCEPT !.op = "verify", !.code = c, !.right = right,
                               !.attempts = codes[c].attempts])
  /\ acLog' = [acLog EXCEPT !.overlapped = Overlapping]
  /\ UNCHANGED <<secondFactor, account, codes>>

\* A code that is used up, expired or out of attempts is refused.
BeginVerify(h, c, right) ==
  /\ Triable(c)
  /\ AcStart(h, [AcIdle EXCEPT !.op = "verify", !.code = c, !.right = right,
                               !.attempts = codes[c].attempts])
  /\ acLog' = [acLog EXCEPT !.overlapped = Overlapping]
  /\ UNCHANGED <<secondFactor, account, codes>>

\* A wrong guess writes the number of attempts it has read, plus one.
WrongGuess(h) ==
  LET w == acWork[h] IN
  /\ w.op = "verify" /\ ~w.right
  /\ codes' = [codes EXCEPT ![w.code].attempts = w.attempts + 1]
  /\ acLog' = [acLog EXCEPT !.guesses[w.code] = @ + 1]
  /\ AcEnd(h)
  /\ UNCHANGED <<secondFactor, account>>

\* The right one uses the code up, and logs in if the account is still approved.
RightGuess(h) ==
  LET w == acWork[h] IN
  /\ w.op = "verify" /\ w.right
  /\ codes' = [codes EXCEPT ![w.code].verified = TRUE]
  /\ acLog' = [acLog EXCEPT !.logins[w.code] = @ + IF account.status = "approved" THEN 1 ELSE 0]
  /\ AcEnd(h)
  /\ UNCHANGED <<secondFactor, account>>

\* The clock moves on: the oldest fresh code expires, or the oldest expired one leaves the
\* window.
CodeAges(c) ==
  /\ \/ /\ codes[c].age = "fresh" /\ \A d \in 1..(c - 1) : codes[d].age # "fresh"
        /\ codes' = [codes EXCEPT ![c].age = "stale"]
     \/ /\ codes[c].age = "stale" /\ \A d \in 1..(c - 1) : codes[d].age = "past"
        /\ codes' = [codes EXCEPT ![c].age = "past"]
  /\ UNCHANGED <<secondFactor, account, acWork, acLog>>

-----------------------------------------------------------------------------
(* The admins *)

\* Mutant of Admissible: the rejection takes approved users too.
AdmissibleAnyone(op, a) ==
  CASE op \in {"approve", "reject"} -> a.status # "absent"
    [] op = "withdraw" -> a.status # "absent" /\ a.role # "admin"
    [] op = "add" -> a.status # "approved"

\* What an admin's request requires of the row.
Admissible(op, a) ==
  CASE op = "approve" -> a.status # "absent"
    [] op = "withdraw" -> a.status # "absent" /\ a.role # "admin"
    [] op = "reject" -> a.status = "pending"
    [] op = "add" -> a.status # "approved"

BeginAccountOp(h, op) ==
  /\ acLog.ops < MaxAccountOps
  /\ Admissible(op, account)
  /\ AcStart(h, [AcIdle EXCEPT !.op = op, !.saw = account])
  /\ acLog' = [acLog EXCEPT !.ops = @ + 1, !.overlapped = Overlapping]
  /\ UNCHANGED <<secondFactor, account, codes>>

\* Only what differs from what the request had read is written.
Decided(op, saw, phone) ==
  CASE op \in {"approve", "add"} /\ saw.status # "absent" ->
         [account EXCEPT !.status = IF saw.status = "pending" THEN "approved" ELSE @,
                         !.phone = @ \/ phone, !.slug = TRUE]
    [] op = "add" /\ saw.status = "absent" ->
         [NoAccount EXCEPT !.status = "approved", !.phone = phone, !.slug = TRUE]
    [] op = "withdraw" ->
         [account EXCEPT !.status = IF saw.status = "approved" THEN "pending" ELSE @]
    [] op = "reject" -> NoAccount

\* The rejection deletes the row whatever it has become.  A row that was inserted or deleted
\* meanwhile makes the statement fail.
CommitAccountOp(h) ==
  LET w == acWork[h]
      fails == (w.saw.status = "absent") # (account.status = "absent")
  IN
  /\ w.op \in AdminOps
  /\ \E phone \in BOOLEAN : account' = IF fails THEN account ELSE Decided(w.op, w.saw, phone)
  /\ acLog' = [acLog EXCEPT
       !.lost = @ \/ (w.op = "reject" /\ account.status = "approved")]
  /\ AcEnd(h)
  /\ UNCHANGED <<secondFactor, codes>>

AcNext ==
  \/ \E h \in AcHandler :
       \/ BeginLogin(h) \/ FinishLogin(h)
       \/ \E c \in 1..Len(codes), right \in BOOLEAN : BeginVerify(h, c, right)
       \/ WrongGuess(h) \/ RightGuess(h)
       \/ \E op \in AdminOps : BeginAccountOp(h, op)
       \/ CommitAccountOp(h)
  \/ \E c \in 1..Len(codes) : CodeAges(c)

AcSpec == AcInit /\ [][AcNext]_acVars

-----------------------------------------------------------------------------
(* Properties *)

\* The type invariant.
AcTypeOK ==
  /\ secondFactor \in BOOLEAN
  /\ account \in Account
  /\ codes \in Seq(CodeRow) /\ Len(codes) <= MaxCodes
  /\ acWork \in [AcHandler ->
       [op : AdminOps \cup {"idle", "login", "verify"}, saw : Account,
        code : 0..MaxCodes, attempts : 0..(MaxAttempts - 1), right : BOOLEAN]]
  /\ acLog \in [ops : 0..MaxAccountOps, overlapped : BOOLEAN,
                guesses : [1..MaxCodes -> Nat], logins : [1..MaxCodes -> Nat],
                parallel : BOOLEAN, lost : BOOLEAN]

\* While requests come one at a time a code is good for MaxAttempts wrong guesses.  Two
\* requests that read the same number of attempts write the same next one, and a slow one
\* even sets the number back; for two at a time the guesses stay below this bound.
GuessesBounded ==
  \A c \in 1..MaxCodes :
    acLog.guesses[c] <= IF acLog.overlapped THEN (MaxAttempts * (MaxAttempts + 3)) \div 2
                        ELSE MaxAttempts

\* A code logs in once, or once for each of the requests that present it at the same moment.
CodeLogsInOnce ==
  \A c \in 1..MaxCodes :
    acLog.logins[c] <= IF acLog.overlapped THEN Cardinality(AcHandler) ELSE 1

\* The lockout is looked at when a code is issued, and not when one is tried.  So it bounds the
\* codes exhausted within its window only for someone who exhausts one before asking for the
\* next, and while requests come one at a time.
LockoutBounds ==
  ~acLog.parallel /\ ~acLog.overlapped =>
    Cardinality({c \in 1..Len(codes) : codes[c].age # "past" /\ codes[c].attempts = MaxAttempts})
      <= LockoutThreshold

\* Every path that approves a user gives the user a slug: the address of the user's pod and
\* apps is built from it.
ApprovedHasSlug == account.status = "approved" => account.slug

\* An approved user is deleted only by a rejection that overlapped the approval.
ApprovedNotRejected == acLog.lost => acLog.overlapped

\* How often a code can be guessed, logs in, and can be exhausted within the lockout's window.
CodesHold == GuessesBounded /\ CodeLogsInOnce /\ LockoutBounds

\* An approved user has the slug that the addresses of pod and apps are built from, and is
\* deleted only by a rejection that overlapped the approval.
ApprovalsHold == ApprovedHasSlug /\ ApprovedNotRejected
=============================================================================

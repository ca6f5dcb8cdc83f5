-------------------------- MODULE SignOn_proofs ---------------------------
(***************************************************************************)
(* Proofs about the components of signing on that are not the tokens, one  *)
(* part for each: Accounts, Messaging and SecurityPolicies; a last part    *)
(* puts them and the tokens (JwtAuth_proofs) together. They share no       *)
(* state. The constants are as their modules assume them, of any number.   *)
(*                                                                         *)
(* Accounts. That an approved user is deleted only by a rejection which    *)
(* overlapped the approval is not inductive: a rejection deletes whatever  *)
(* the row has become since it was read. The invariant says that, until    *)
(* two requests have overlapped, at most one is under way and the row is   *)
(* as it read it (Alone). That codes keep their type needs that a guess    *)
(* being checked is one of a code that was issued (GuessesHaveCodes).      *)
(*                                                                         *)
(* How many guesses a code and a login can get needs a second invariant    *)
(* (CodesInv) that counts the checks under way. It is stated for two       *)
(* handlers: every further one adds a guess to each bound.                 *)
(***************************************************************************)
EXTENDS SignOn, JwtAuth_proofs, SequenceTheorems, FiniteSetTheorems, TLAPS

Work == [op : AdminOps \cup {"idle", "login", "verify"}, saw : Account,
         code : 0..MaxCodes, attempts : 0..(MaxAttempts - 1), right : BOOLEAN]

Log == [ops : 0..MaxAccountOps, overlapped : BOOLEAN,
        guesses : [1..MaxCodes -> Nat], logins : [1..MaxCodes -> Nat],
        parallel : BOOLEAN, lost : BOOLEAN]

GuessesHaveCodes ==
  \A h \in AcHandler : acWork[h].op = "verify" => acWork[h].code \in 1..Len(codes)

\* A rejection has seen a user who waits, an approval or its withdrawal has seen a user.
SawWhom ==
  \A h \in AcHandler :
    /\ acWork[h].op = "reject" => acWork[h].saw.status = "pending"
    /\ acWork[h].op \in {"approve", "withdraw"} => acWork[h].saw.status # "absent"

Alone ==
  ~acLog.overlapped =>
    \A h \in AcHandler : acWork[h].op # "idle" =>
      /\ \A g \in AcHandler \ {h} : acWork[g].op = "idle"
      /\ acWork[h].op # "verify" => acWork[h].saw.status = account.status

AcInv == AcTypeOK /\ GuessesHaveCodes /\ SawWhom /\ Alone /\ ApprovalsHold

-----------------------------------------------------------------------------

\* The type invariant, with the names of this module.
LEMMA AcTypes ==
  ASSUME AcInv
  PROVE  /\ secondFactor \in BOOLEAN /\ account \in Account
         /\ codes \in Seq(CodeRow) /\ Len(codes) \in 0..MaxCodes
         /\ acWork \in [AcHandler -> Work] /\ acLog \in Log
BY LenProperties, AccountsAssumption DEF AcInv, AcTypeOK, Work, Log

\* The absent account is one, without a slug.
LEMMA NoAccountIsOne == NoAccount \in Account /\ ~NoAccount.slug /\ NoAccount.status = "absent"
BY DEF NoAccount, Account, AcStatus, AcRole

\* A handler at rest is doing nothing.
LEMMA IdleIsWork == AcIdle \in Work /\ AcIdle.op = "idle"
BY NoAccountIsOne, AccountsAssumption DEF AcIdle, Work

\* At first there is no account and no code.
LEMMA AcInitOK == AcInit => AcInv
<1> SUFFICES ASSUME AcInit PROVE AcInv
  OBVIOUS
<1>1. account \in Account /\ account.status # "approved"
  <2>1. NoAccount \in Account /\ NoAccount.status # "approved"
    BY NoAccountIsOne
  <2> DEFINE first == [NoAccount EXCEPT !.status = "pending", !.role = "admin"]
  <2>2. first \in Account /\ first.status # "approved"
    BY <2>1 DEF Account, AcStatus, AcRole
  <2>3. account \in {NoAccount, first}
    BY DEF AcInit
  <2> HIDE DEF first
  <2>4. QED
    BY <2>1, <2>2, <2>3
<1>2. acWork \in [AcHandler -> Work] /\ \A h \in AcHandler : acWork[h].op = "idle"
  BY IdleIsWork DEF AcInit
<1>3. acLog \in Log /\ ~acLog.lost
  BY AccountsAssumption DEF AcInit, Log
<1>4. codes \in Seq(CodeRow) /\ Len(codes) <= MaxCodes
  BY AccountsAssumption DEF AcInit
<1>5. AcTypeOK
  BY <1>1, <1>2, <1>3, <1>4 DEF AcInit, AcTypeOK, Work, Log
<1>6. QED
  BY <1>1, <1>2, <1>3, <1>5
     DEF AcInv, GuessesHaveCodes, SawWhom, Alone, ApprovalsHold, ApprovedHasSlug,
         ApprovedNotRejected

\* A request begins, on the account it reads.
LEMMA RequestBegins ==
  ASSUME AcInv, NEW h \in AcHandler, NEW w \in Work, AcStart(h, w),
         w.op = "verify" => w.code \in 1..Len(codes),
         w.op = "reject" => w.saw.status = "pending",
         w.op \in {"approve", "withdraw"} => w.saw.status # "absent",
         w.op # "verify" => w.saw.status = account.status,
         UNCHANGED <<secondFactor, account, codes>>,
         acLog' \in Log, acLog'.overlapped = Overlapping, acLog'.lost = acLog.lost
  PROVE  AcInv'
<1>1. acWork \in [AcHandler -> Work] /\ acWork[h].op = "idle"
  BY AcTypes DEF AcStart
<1>2. /\ acWork' \in [AcHandler -> Work]
      /\ \A g \in AcHandler : acWork'[g] = IF g = h THEN w ELSE acWork[g]
  BY <1>1 DEF AcStart
<1>3. AcTypeOK'
  BY <1>2, AcTypes DEF AcTypeOK, Work, Log
<1>4. GuessesHaveCodes' /\ SawWhom'
  BY <1>2 DEF AcInv, GuessesHaveCodes, SawWhom
<1>5. ~acLog'.overlapped => ~acLog.overlapped /\ AcQuiet
  BY DEF Overlapping
<1>6. Alone'
  BY <1>2, <1>5 DEF Alone, AcQuiet
<1>7. ApprovalsHold'
  BY DEF AcInv, ApprovalsHold, ApprovedHasSlug, ApprovedNotRejected, Overlapping
<1>8. QED
  BY <1>3, <1>4, <1>6, <1>7 DEF AcInv

\* A request ends, having written account and codes.
LEMMA RequestEnds ==
  ASSUME AcInv, NEW h \in AcHandler, AcEnd(h), acWork[h].op # "idle",
         account' \in Account, ApprovedHasSlug',
         acWork[h].op = "verify" => account' = account,
         codes' \in Seq(CodeRow), Len(codes') \in Len(codes)..MaxCodes,
         secondFactor' = secondFactor,
         acLog' \in Log, acLog'.overlapped = acLog.overlapped,
         acLog'.lost => acLog.overlapped
  PROVE  AcInv'
<1>1. acWork \in [AcHandler -> Work]
  BY AcTypes
<1>2. /\ acWork' \in [AcHandler -> Work]
      /\ \A g \in AcHandler : acWork'[g] = IF g = h THEN AcIdle ELSE acWork[g]
  BY <1>1, IdleIsWork DEF AcEnd
<1>3. AcTypeOK'
  BY <1>2, AcTypes DEF AcTypeOK, Work, Log
<1>4. GuessesHaveCodes'
  BY <1>2, AcTypes, IdleIsWork DEF AcInv, GuessesHaveCodes
<1>5. SawWhom'
  BY <1>2, IdleIsWork DEF AcInv, SawWhom
<1>6. Alone'
  BY <1>2, IdleIsWork DEF AcInv, Alone
<1>7. ApprovalsHold'
  BY DEF ApprovalsHold, ApprovedNotRejected
<1>8. QED
  BY <1>3, <1>4, <1>5, <1>6, <1>7 DEF AcInv

-----------------------------------------------------------------------------
(* The requests *)

\* A login begins.
LEMMA BeginLoginOK ==
  ASSUME AcInv, NEW h \in AcHandler, BeginLogin(h)
  PROVE  AcInv'
<1> DEFINE w == [AcIdle EXCEPT !.op = "login", !.saw = account]
<1>1. w \in Work /\ w.op = "login" /\ w.saw = account
  BY IdleIsWork, AcTypes DEF Work
<1>2. AcStart(h, w) /\ UNCHANGED <<secondFactor, account, codes>>
  BY DEF BeginLogin
<1> HIDE DEF w
<1>3. acLog' \in Log /\ acLog'.overlapped = Overlapping /\ acLog'.lost = acLog.lost
  <2>1. Overlapping \in BOOLEAN
    BY DEF Overlapping
  <2>2. acLog' = [acLog EXCEPT !.overlapped = Overlapping]
    BY DEF BeginLogin
  <2>3. QED
    BY <2>1, <2>2, AcTypes DEF Log
<1>4. QED
  BY <1>1, <1>2, <1>3, RequestBegins

\* A guess begins, at a code that may still be tried.
LEMMA BeginVerifyOK ==
  ASSUME AcInv, NEW h \in AcHandler, NEW c \in 1..Len(codes), NEW right \in BOOLEAN,
         BeginVerify(h, c, right)
  PROVE  AcInv'
<1> USE AccountsAssumption
<1> DEFINE w == [AcIdle EXCEPT !.op = "verify", !.code = c, !.right = right,
                               !.attempts = codes[c].attempts]
<1>1. codes[c].attempts \in 0..(MaxAttempts - 1) /\ c \in 0..MaxCodes
  <2>1. codes[c] \in CodeRow
    BY AcTypes, ElementOfSeq
  <2>2. QED
    BY <2>1, AcTypes DEF BeginVerify, Triable, CodeRow
<1>2. w \in Work /\ w.op = "verify" /\ w.code = c
  BY <1>1, IdleIsWork DEF Work
<1>3. AcStart(h, w) /\ UNCHANGED <<secondFactor, account, codes>>
  BY DEF BeginVerify
<1> HIDE DEF w
<1>4. acLog' \in Log /\ acLog'.overlapped = Overlapping /\ acLog'.lost = acLog.lost
  <2>1. Overlapping \in BOOLEAN
    BY DEF Overlapping
  <2>2. acLog' = [acLog EXCEPT !.overlapped = Overlapping]
    BY DEF BeginVerify
  <2>3. QED
    BY <2>1, <2>2, AcTypes DEF Log
<1>5. QED
  BY <1>2, <1>3, <1>4, RequestBegins

\* An admin's request begins, on the status it asks for.
LEMMA BeginAccountOpOK ==
  ASSUME AcInv, NEW h \in AcHandler, NEW op \in AdminOps, BeginAccountOp(h, op)
  PROVE  AcInv'
<1> USE AccountsAssumption
<1> DEFINE w == [AcIdle EXCEPT !.op = op, !.saw = account]
<1>1. w \in Work /\ w.op = op /\ w.saw = account
  BY IdleIsWork, AcTypes DEF Work
<1>2. /\ op # "verify"
      /\ op = "reject" => account.status = "pending"
      /\ op \in {"approve", "withdraw"} => account.status # "absent"
  BY DEF AdminOps, BeginAccountOp, Admissible
<1>3. AcStart(h, w) /\ UNCHANGED <<secondFactor, account, codes>>
  BY DEF BeginAccountOp
<1> HIDE DEF w
<1>4. acLog' \in Log /\ acLog'.overlapped = Overlapping /\ acLog'.lost = acLog.lost
  <2>1. Overlapping \in BOOLEAN
    BY DEF Overlapping
  <2>2. acLog' = [acLog EXCEPT !.ops = @ + 1, !.overlapped = Overlapping]
    BY DEF BeginAccountOp
  <2>3. acLog \in Log /\ acLog.ops < MaxAccountOps
    BY AcTypes DEF BeginAccountOp
  <2>4. acLog.ops + 1 \in 0..MaxAccountOps
    BY <2>3 DEF Log
  <2>5. QED
    BY <2>1, <2>2, <2>3, <2>4 DEF Log
<1>5. QED
  BY <1>1, <1>2, <1>3, <1>4, RequestBegins

\* A login writes an account, and one that it approves or finds approved gets a slug.
LEMMA UpsertedIsAccount ==
  ASSUME NEW saw \in Account, NEW held \in Account, NEW phone \in BOOLEAN,
         held.status = "approved" => held.slug
  PROVE  LET written == Upserted(saw, held, phone) IN
         written \in Account /\ (written.status = "approved" => written.slug)
<1> DEFINE known == IF saw.status = "absent" THEN [NoAccount EXCEPT !.status = "pending"] ELSE held
           approves == saw.role = "admin" /\ saw.status = "pending"
           status == IF approves THEN "approved" ELSE known.status
           p == known.phone \/ phone
           s == known.slug \/ approves \/ saw.status = "approved"
           written == [known EXCEPT !.status = status, !.phone = p, !.slug = s]
<1>1. known \in Account /\ (known.status = "approved" => known.slug)
  BY NoAccountIsOne DEF Account, AcStatus
<1>2. status \in AcStatus /\ p \in BOOLEAN /\ s \in BOOLEAN
  BY <1>1 DEF Account, AcStatus
<1>3. status = "approved" => s
  BY <1>1
<1>4. Upserted(saw, held, phone) = written
  BY DEF Upserted
<1> HIDE DEF known, status, p, s
<1>5. written \in Account /\ written.status = status /\ written.slug = s
  BY <1>1, <1>2 DEF Account
<1>6. QED
  BY <1>3, <1>4, <1>5

\* A login writes the account, and a code where one is asked for.
LEMMA FinishLoginOK ==
  ASSUME AcInv, NEW h \in AcHandler, FinishLogin(h)
  PROVE  AcInv'
<1> USE AccountsAssumption
<1> DEFINE w == acWork[h]
           fails == (w.saw.status = "absent") # (account.status = "absent")
           written(phone) == Upserted(w.saw, account, phone)
           coded(phone, lookup) ==
             /\ ~fails /\ written(phone).status = "approved" /\ secondFactor
             /\ ~Locked /\ (written(phone).phone \/ lookup)
<1>1. PICK phone \in BOOLEAN, lookup \in BOOLEAN :
        /\ account' = IF fails THEN account
                      ELSE [written(phone) EXCEPT !.phone = @ \/ (coded(phone, lookup) /\ lookup)]
        /\ codes' = IF coded(phone, lookup) /\ Len(codes) < MaxCodes
                      THEN Append(codes, NewCode) ELSE codes
        /\ acLog' = [acLog EXCEPT !.parallel =
                       @ \/ (coded(phone, lookup) /\ \E c \in 1..Len(codes) : Triable(c))]
  BY DEF FinishLogin
<1>2. w \in Work /\ w.saw \in Account /\ w.op = "login"
  BY AcTypes DEF FinishLogin, Work
<1>3. account' \in Account /\ ApprovedHasSlug'
  <2>1. CASE fails
    BY <1>1, <2>1, AcTypes DEF AcInv, ApprovalsHold, ApprovedHasSlug
  <2>2. CASE ~fails
    <3> DEFINE a == written(phone)
               p == a.phone \/ (coded(phone, lookup) /\ lookup)
    <3>1. a \in Account /\ (a.status = "approved" => a.slug)
      BY <1>2, AcTypes, UpsertedIsAccount DEF AcInv, ApprovalsHold, ApprovedHasSlug
    <3>2. p \in BOOLEAN /\ account' = [a EXCEPT !.phone = p]
      BY <1>1, <2>2
    <3> HIDE DEF a, p
    <3>3. account' \in Account /\ account'.status = a.status /\ account'.slug = a.slug
      BY <3>1, <3>2 DEF Account
    <3>4. QED
      BY <3>1, <3>3 DEF ApprovedHasSlug
  <2>3. QED
    BY <2>1, <2>2
<1>4. codes' \in Seq(CodeRow) /\ Len(codes') \in Len(codes)..MaxCodes
  <2>1. NewCode \in CodeRow
    BY DEF NewCode, CodeRow, CodeAge
  <2>2. codes' = codes \/ (codes' = Append(codes, NewCode) /\ Len(codes) < MaxCodes)
    BY <1>1
  <2>3. QED
    BY <2>1, <2>2, AcTypes, AppendProperties
<1>5. /\ acLog' \in Log /\ acLog'.overlapped = acLog.overlapped /\ acLog'.lost = acLog.lost
  <2> DEFINE b == acLog.parallel \/ (coded(phone, lookup) /\ \E c \in 1..Len(codes) : Triable(c))
  <2>1. b \in BOOLEAN /\ acLog' = [acLog EXCEPT !.parallel = b]
    BY <1>1
  <2> HIDE DEF b
  <2>2. QED
    BY <2>1, AcTypes DEF Log
<1>6. AcEnd(h) /\ secondFactor' = secondFactor
  BY DEF FinishLogin
<1>7. acLog.lost => acLog.overlapped
  BY DEF AcInv, ApprovalsHold, ApprovedNotRejected
<1>8. QED
  BY <1>2, <1>3, <1>4, <1>5, <1>6, <1>7, RequestEnds

\* A row of codes is written.
LEMMA CodeIsWritten ==
  ASSUME AcInv, NEW c \in 1..Len(codes), NEW row \in CodeRow, codes' = [codes EXCEPT ![c] = row]
  PROVE  codes' \in Seq(CodeRow) /\ Len(codes') = Len(codes)
BY AcTypes, ExceptSeq

\* A guess is compared and counted.
LEMMA GuessOK ==
  ASSUME AcInv, NEW h \in AcHandler, WrongGuess(h) \/ RightGuess(h)
  PROVE  AcInv'
<1> USE AccountsAssumption
<1> DEFINE w == acWork[h]
           row == codes[w.code]
<1>1. w \in Work /\ w.op = "verify" /\ AcEnd(h) /\ UNCHANGED <<secondFactor, account>>
  BY AcTypes DEF WrongGuess, RightGuess
<1>2. w.code \in 1..Len(codes) /\ w.code \in 1..MaxCodes
  BY <1>1, AcTypes DEF AcInv, GuessesHaveCodes
<1>3. row \in CodeRow
  BY <1>2, AcTypes, ElementOfSeq
<1>4. codes' \in Seq(CodeRow) /\ Len(codes') = Len(codes)
  <2>1. CASE WrongGuess(h)
    <3>1. w.attempts + 1 \in Nat
      BY <1>1 DEF Work
    <3>2. [row EXCEPT !.attempts = w.attempts + 1] \in CodeRow
      BY <1>3, <3>1 DEF CodeRow
    <3>3. codes' = [codes EXCEPT ![w.code] = [row EXCEPT !.attempts = w.attempts + 1]]
      BY <2>1 DEF WrongGuess
    <3>4. QED
      BY <1>2, <3>2, <3>3, CodeIsWritten
  <2>2. CASE RightGuess(h)
    <3>1. [row EXCEPT !.verified = TRUE] \in CodeRow
      BY <1>3 DEF CodeRow
    <3>2. codes' = [codes EXCEPT ![w.code] = [row EXCEPT !.verified = TRUE]]
      BY <2>2 DEF RightGuess
    <3>3. QED
      BY <1>2, <3>1, <3>2, CodeIsWritten
  <2>3. QED
    BY <2>1, <2>2
<1>5. acLog' \in Log /\ acLog'.overlapped = acLog.overlapped /\ acLog'.lost = acLog.lost
  <2>1. CASE WrongGuess(h)
    <3> DEFINE guesses == [acLog.guesses EXCEPT ![w.code] = @ + 1]
    <3>1. guesses \in [1..MaxCodes -> Nat]
      <4>1. acLog.guesses \in [1..MaxCodes -> Nat]
        BY AcTypes DEF Log
      <4>2. QED
        BY <1>2, <4>1
    <3>2. acLog' = [acLog EXCEPT !.guesses = guesses]
      BY <2>1 DEF WrongGuess
    <3> HIDE DEF guesses
    <3>3. QED
      BY <3>1, <3>2, AcTypes DEF Log
  <2>2. CASE RightGuess(h)
    <3> DEFINE n == IF account.status = "approved" THEN 1 ELSE 0
               logins == [acLog.logins EXCEPT ![w.code] = @ + n]
    <3>1. logins \in [1..MaxCodes -> Nat]
      BY <1>2, AcTypes DEF Log
    <3>2. acLog' = [acLog EXCEPT !.logins = logins]
      BY <2>2 DEF RightGuess
    <3> HIDE DEF logins
    <3>3. QED
      BY <3>1, <3>2, AcTypes DEF Log
  <2>3. QED
    BY <2>1, <2>2
<1>6. ApprovedHasSlug' /\ (acLog.lost => acLog.overlapped)
  BY <1>1 DEF AcInv, ApprovalsHold, ApprovedHasSlug, ApprovedNotRejected
<1>7. Len(codes') \in Len(codes)..MaxCodes
  BY <1>4, AcTypes
<1>8. QED
  BY <1>1, <1>4, <1>5, <1>6, <1>7, AcTypes, RequestEnds

\* An admin's request writes an account, with a slug if it leaves the user approved.
LEMMA DecidedIsAccount ==
  ASSUME AcInv, NEW op \in AdminOps, NEW saw \in Account, NEW phone \in BOOLEAN,
         (saw.status = "absent") <=> (account.status = "absent"),
         op \in {"approve", "withdraw"} => saw.status # "absent"
  PROVE  LET a == Decided(op, saw, phone) IN
         a \in Account /\ (a.status = "approved" => a.slug)
<1>1. account \in Account /\ (account.status = "approved" => account.slug)
  BY AcTypes DEF AcInv, ApprovalsHold, ApprovedHasSlug
<1>2. CASE op \in {"approve", "add"} /\ saw.status # "absent"
  <2> DEFINE p == account.phone \/ phone
             status == IF saw.status = "pending" THEN "approved" ELSE account.status
             a == [account EXCEPT !.status = status, !.phone = p, !.slug = TRUE]
  <2>1. p \in BOOLEAN /\ status \in AcStatus
    BY <1>1 DEF Account, AcStatus
  <2>2. Decided(op, saw, phone) = a
    BY <1>2 DEF Decided
  <2> HIDE DEF p, status
  <2>3. a \in Account /\ a.slug
    BY <1>1, <2>1 DEF Account
  <2>4. QED
    BY <2>2, <2>3
<1>3. CASE op = "add" /\ saw.status = "absent"
  <2> DEFINE a == [NoAccount EXCEPT !.status = "approved", !.phone = phone, !.slug = TRUE]
  <2>1. a \in Account /\ a.slug
    BY NoAccountIsOne DEF Account, AcStatus
  <2>2. Decided(op, saw, phone) = a
    BY <1>3 DEF Decided
  <2>3. QED
    BY <2>1, <2>2
<1>4. CASE op = "withdraw"
  <2> DEFINE status == IF saw.status = "approved" THEN "pending" ELSE account.status
             a == [account EXCEPT !.status = status]
  <2>1. status \in AcStatus /\ (status = "approved" => account.status = "approved")
    BY <1>1 DEF Account, AcStatus
  <2>2. Decided(op, saw, phone) = a
    BY <1>4 DEF Decided
  <2> HIDE DEF status
  <2>3. a \in Account /\ a.slug = account.slug /\ a.status = status
    BY <1>1, <2>1 DEF Account
  <2>4. QED
    BY <1>1, <2>1, <2>2, <2>3
<1>5. CASE op = "reject"
  BY <1>5, NoAccountIsOne DEF Decided
<1>6. QED
  BY <1>2, <1>3, <1>4, <1>5 DEF AdminOps

\* An admin's request is committed.
LEMMA CommitAccountOpOK ==
  ASSUME AcInv, NEW h \in AcHandler, CommitAccountOp(h)
  PROVE  AcInv'
<1> USE AccountsAssumption
<1> DEFINE w == acWork[h]
           fails == (w.saw.status = "absent") # (account.status = "absent")
<1>1. PICK phone \in BOOLEAN : account' = IF fails THEN account ELSE Decided(w.op, w.saw, phone)
  BY DEF CommitAccountOp
<1>2. /\ w \in Work /\ w.op \in AdminOps /\ w.op \notin {"verify", "idle"} /\ w.saw \in Account
      /\ AcEnd(h) /\ UNCHANGED <<secondFactor, codes>>
  BY AcTypes DEF CommitAccountOp, AdminOps, Work
<1>3. account' \in Account /\ ApprovedHasSlug'
  <2>1. CASE fails
    BY <1>1, <2>1, AcTypes DEF AcInv, ApprovalsHold, ApprovedHasSlug
  <2>2. CASE ~fails
    <3>1. w.op \in {"approve", "withdraw"} => w.saw.status # "absent"
      BY DEF AcInv, SawWhom
    <3>2. account' = Decided(w.op, w.saw, phone)
      BY <1>1, <2>2
    <3>3. (w.saw.status = "absent") <=> (account.status = "absent")
      BY <2>2
    <3>4. QED
      BY <1>2, <3>1, <3>2, <3>3, DecidedIsAccount DEF ApprovedHasSlug
  <2>3. QED
    BY <2>1, <2>2
<1>4. /\ acLog' \in Log /\ acLog'.overlapped = acLog.overlapped
      /\ acLog'.lost => acLog.lost \/ (w.op = "reject" /\ account.status = "approved")
  <2> DEFINE b == acLog.lost \/ (w.op = "reject" /\ account.status = "approved")
  <2>1. b \in BOOLEAN /\ acLog' = [acLog EXCEPT !.lost = b]
    BY DEF CommitAccountOp
  <2>2. b => acLog.lost \/ (w.op = "reject" /\ account.status = "approved")
    OBVIOUS
  <2> HIDE DEF b
  <2>3. acLog' \in Log /\ acLog'.overlapped = acLog.overlapped /\ acLog'.lost = b
    BY <2>1, AcTypes DEF Log
  <2>4. QED
    BY <2>2, <2>3
<1>5. acLog'.lost => acLog.overlapped
  <2>1. acLog.lost => acLog.overlapped
    BY DEF AcInv, ApprovalsHold, ApprovedNotRejected
  <2>2. w.op = "reject" /\ account.status = "approved" => acLog.overlapped
    BY <1>2 DEF AcInv, SawWhom, Alone
  <2>3. QED
    BY <1>4, <2>1, <2>2
<1>6. codes' \in Seq(CodeRow) /\ Len(codes') \in Len(codes)..MaxCodes
  BY <1>2, AcTypes
<1>7. QED
  BY <1>2, <1>3, <1>4, <1>5, <1>6, RequestEnds

\* A code gets older.
LEMMA CodeAgesOK ==
  ASSUME AcInv, NEW c \in 1..Len(codes), CodeAges(c)
  PROVE  AcInv'
<1>1. codes[c] \in CodeRow
  BY AcTypes, ElementOfSeq
<1>2. PICK age \in CodeAge : codes' = [codes EXCEPT ![c] = [codes[c] EXCEPT !.age = age]]
  BY DEF CodeAges, CodeAge
<1>3. [codes[c] EXCEPT !.age = age] \in CodeRow
  BY <1>1 DEF CodeRow
<1>4. codes' \in Seq(CodeRow) /\ Len(codes') = Len(codes)
  BY <1>2, <1>3, CodeIsWritten
<1>5. UNCHANGED <<secondFactor, account, acWork, acLog>>
  BY DEF CodeAges
<1>6. AcTypeOK' /\ GuessesHaveCodes'
  BY <1>4, <1>5 DEF AcInv, AcTypeOK, GuessesHaveCodes
<1>7. SawWhom' /\ Alone' /\ ApprovalsHold'
  BY <1>5 DEF AcInv, SawWhom, Alone, ApprovalsHold, ApprovedHasSlug, ApprovedNotRejected
<1>8. QED
  BY <1>6, <1>7 DEF AcInv

\* Stuttering keeps the invariant.
LEMMA AcRestOK ==
  ASSUME AcInv, UNCHANGED acVars
  PROVE  AcInv'
BY DEF AcInv, AcTypeOK, GuessesHaveCodes, SawWhom, Alone, ApprovalsHold, ApprovedHasSlug,
       ApprovedNotRejected, acVars

\* Every step keeps the invariant.
LEMMA AcStep ==
  ASSUME AcInv, [AcNext]_acVars
  PROVE  AcInv'
<1> SUFFICES ASSUME AcNext PROVE AcInv'
  BY AcRestOK
<1>1. ASSUME NEW h \in AcHandler, BeginLogin(h) PROVE AcInv'
  BY <1>1, BeginLoginOK
<1>2. ASSUME NEW h \in AcHandler, FinishLogin(h) PROVE AcInv'
  BY <1>2, FinishLoginOK
<1>3. ASSUME NEW h \in AcHandler, NEW c \in 1..Len(codes), NEW right \in BOOLEAN,
             BeginVerify(h, c, right)
      PROVE  AcInv'
  BY <1>3, BeginVerifyOK
<1>4. ASSUME NEW h \in AcHandler, WrongGuess(h) \/ RightGuess(h) PROVE AcInv'
  BY <1>4, GuessOK
<1>5. ASSUME NEW h \in AcHandler, NEW op \in AdminOps, BeginAccountOp(h, op) PROVE AcInv'
  BY <1>5, BeginAccountOpOK
<1>6. ASSUME NEW h \in AcHandler, CommitAccountOp(h) PROVE AcInv'
  BY <1>6, CommitAccountOpOK
<1>7. ASSUME NEW c \in 1..Len(codes), CodeAges(c) PROVE AcInv'
  BY <1>7, CodeAgesOK
<1>8. QED
  BY <1>1, <1>2, <1>3, <1>4, <1>5, <1>6, <1>7 DEF AcNext

\* The invariant is inductive.
THEOREM AcInductive == AcSpec => []AcInv
BY AcStep, AcInitOK, PTL DEF AcSpec

\* Every variable keeps its type: a guess is compared with a code that exists and writes back an
\* attempt that the code has.
THEOREM AccountsTypeCorrect == AcSpec => []AcTypeOK
<1>1. AcInv => AcTypeOK
  BY DEF AcInv
<1>2. QED
  BY <1>1, AcInductive, PTL

\* Whichever way a user is approved, and whatever the other replicas write meanwhile, an approved
\* user has a slug, and is deleted only by a rejection that overlapped another request.
THEOREM ApprovalsAreKept == AcSpec => []ApprovalsHold
<1>1. AcInv => ApprovalsHold
  BY DEF AcInv
<1>2. QED
  BY <1>1, AcInductive, PTL

-----------------------------------------------------------------------------
(***************************************************************************)
(* CodesHold, for the two replicas of the deployment.                      *)
(*                                                                         *)
(* While requests come one at a time a code's attempts are its wrong       *)
(* guesses (CountsGuesses).  Two at a time lose some: whoever has read the *)
(* attempts before they were raised sets them back when he writes.  Of a   *)
(* code with n attempts left, n (n + 3) / 2 guesses can still be made: one *)
(* request reads, the other makes n guesses meanwhile, and then the first  *)
(* leaves n - 1 attempts.  The invariant says for each code, and for each  *)
(* choice of requests that are under way for it, how many guesses are left *)
(* (GuessesLeft).  Most == MaxAttempts (MaxAttempts + 3) is twice the first     *)
(* number, so that nothing is divided.                                     *)
(*                                                                         *)
(* A code that is not used up has logged nobody in; of one that is, no     *)
(* more requests than there are can still log in (LoginsLeft).             *)
(*                                                                         *)
(* The lockout bounds the exhausted codes because at most one code can be  *)
(* tried at a time, and none when the last exhausted one is allowed        *)
(* (OneLive).                                                              *)
(***************************************************************************)

TwoHandlers == \A f, g, h \in AcHandler : f = g \/ g = h \/ f = h

Issued == 1..Len(codes)
Tries(h, c) == acWork[h].op = "verify" /\ acWork[h].code = c

Unissued == \A c \in (1..MaxCodes) \ Issued : acLog.guesses[c] = 0 /\ acLog.logins[c] = 0

CountsGuesses ==
  ~acLog.overlapped =>
    /\ \A c \in Issued : acLog.guesses[c] = codes[c].attempts /\ acLog.logins[c] <= 1
    /\ \A h \in AcHandler : \A c \in Issued : Tries(h, c) =>
         acWork[h].attempts = codes[c].attempts /\ ~codes[c].verified

\* Twice the guesses that n attempts are good for; and those of two requests under way, the
\* first with n attempts left when it read, the second with k, if the second writes last.
Two(n) == n * (n + 3)
Late(n, k) == 2 + 2 * n + Two(k - 1)

Most == Two(MaxAttempts)
Twice(c) == 2 * acLog.guesses[c]
Left(c) == MaxAttempts - codes[c].attempts
LeftTo(h) == MaxAttempts - acWork[h].attempts

TriesAlone(h, c) == Tries(h, c) /\ \A g \in AcHandler : g # h => ~Tries(g, c)

GuessesLeft(c) ==
  /\ codes[c].attempts <= MaxAttempts
  /\ Twice(c) <= Most
  /\ \A h \in AcHandler : Tries(h, c) => Twice(c) + 2 <= Most
  /\ \A g, h \in AcHandler : g # h /\ Tries(g, c) /\ Tries(h, c) => Twice(c) + 4 <= Most
  /\ ~codes[c].verified =>
       /\ (\A h \in AcHandler : ~Tries(h, c)) => Twice(c) + Two(Left(c)) <= Most
       /\ \A h \in AcHandler : TriesAlone(h, c) =>
            /\ Twice(c) + Late(Left(c), LeftTo(h)) <= Most
            /\ Twice(c) + Late(LeftTo(h), Left(c)) <= Most
       /\ \A g, h \in AcHandler : g # h /\ Tries(g, c) /\ Tries(h, c) =>
            Twice(c) + Late(LeftTo(g), LeftTo(h)) <= Most

Budgets == \A c \in Issued : GuessesLeft(c)

Presenting(c) == {h \in AcHandler : Tries(h, c) /\ acWork[h].right}

LoginLeft(c) ==
  IF codes[c].verified
    THEN acLog.logins[c] + Cardinality(Presenting(c)) <= Cardinality(AcHandler)
    ELSE acLog.logins[c] = 0

LoginsLeft == \A c \in Issued : LoginLeft(c)

\* Codes without an attempt left, within the window of the lockout; and those that a guess can
\* still exhaust.
Spent == {c \in Issued : codes[c].age # "past" /\ codes[c].attempts >= MaxAttempts}
Live ==
  {c \in Issued : /\ ~codes[c].verified /\ codes[c].attempts < MaxAttempts
                  /\ codes[c].age = "fresh" \/ \E h \in AcHandler : Tries(h, c)}

OneLive ==
  ~acLog.parallel /\ ~acLog.overlapped =>
    /\ \A c, d \in Live : c = d
    /\ Cardinality(Spent) <= LockoutThreshold
    /\ Live # {} => Cardinality(Spent) < LockoutThreshold

CodesInv == AcInv /\ Unissued /\ CountsGuesses /\ Budgets /\ LoginsLeft /\ OneLive

-----------------------------------------------------------------------------
(* Numbers *)

LEMMA TwoStep ==
  ASSUME NEW n \in Nat
  PROVE  Two(n) \in Nat /\ Two(n - 1) \in Int /\ Two(n) = 2 + 2 * n + Two(n - 1)
BY DEF Two

\* How the guesses that are left go down.
LEMMA LateSteps ==
  ASSUME NEW n \in Nat, NEW j \in Nat \ {0}, NEW k \in Nat \ {0}
  PROVE  /\ Late(j, j) = Two(j) /\ Late(n, k) \in Int /\ Late(k, n) \in Int
         /\ Two(k - 1) + 2 <= Late(n, k) /\ 2 <= Late(n, k)
         /\ 4 <= Late(j, k) /\ 4 <= Two(j)
         /\ Late(j - 1, k) + 2 = Late(j, k)
         /\ Late(k, j - 1) + 2 <= Late(k, j)
<1>1. Two(k - 1) \in Nat /\ Two(j - 1) \in Nat
  BY TwoStep
<1>2. Two(n - 1) \in Int /\ Two((j - 1) - 1) \in Int
  <2>1. j - 1 \in Nat
    OBVIOUS
  <2>2. QED
    BY <2>1, TwoStep
<1>3. Two(j) = 2 + 2 * j + Two(j - 1)
  BY TwoStep
<1>4. Two(j - 1) = 2 + 2 * (j - 1) + Two((j - 1) - 1)
  <2>1. j - 1 \in Nat
    OBVIOUS
  <2>2. QED
    BY <2>1, TwoStep
<1> DEFINE a == Two(k - 1)
           b == Two(j - 1)
           c == Two(n - 1)
           d == Two((j - 1) - 1)
           e == Two(j)
<1>5. a \in Nat /\ b \in Nat /\ c \in Int /\ d \in Int /\ e = 2 + 2 * j + b
      /\ b = 2 + 2 * (j - 1) + d
  BY <1>1, <1>2, <1>3, <1>4
<1>6. /\ Late(j, j) = 2 + 2 * j + b /\ Late(n, k) = 2 + 2 * n + a /\ Late(k, n) = 2 + 2 * k + c
      /\ Late(j, k) = 2 + 2 * j + a /\ Late(j - 1, k) = 2 + 2 * (j - 1) + a
      /\ Late(k, j - 1) = 2 + 2 * k + d /\ Late(k, j) = 2 + 2 * k + b
  BY DEF Late
<1> HIDE DEF a, b, c, d, e
<1>7. /\ Late(j, j) = e /\ Late(n, k) \in Int /\ Late(k, n) \in Int
      /\ a + 2 <= Late(n, k) /\ 2 <= Late(n, k)
      /\ 4 <= Late(j, k) /\ 4 <= e
      /\ Late(j - 1, k) + 2 = Late(j, k)
      /\ Late(k, j - 1) + 2 <= Late(k, j)
  BY <1>5, <1>6
<1>8. QED
  BY <1>7 DEF a, e

\* The types that the following counts on.
LEMMA CodeTypes ==
  ASSUME AcInv
  PROVE  /\ \A c \in Issued :
              /\ c \in 1..MaxCodes
              /\ codes[c] \in CodeRow /\ codes[c].attempts \in Nat
              /\ acLog.guesses[c] \in Nat /\ acLog.logins[c] \in Nat
         /\ \A h \in AcHandler :
              /\ acWork[h] \in Work /\ acWork[h].attempts \in 0..(MaxAttempts - 1)
              /\ LeftTo(h) \in Nat \ {0}
         /\ MaxAttempts \in Nat \ {0} /\ Most \in Nat
<1>1. \A c \in Issued : c \in 1..MaxCodes
  BY AcTypes, AccountsAssumption DEF Issued
<1>2. \A c \in Issued : codes[c] \in CodeRow
  BY AcTypes, ElementOfSeq DEF Issued
<1>3. acLog.guesses \in [1..MaxCodes -> Nat] /\ acLog.logins \in [1..MaxCodes -> Nat]
  BY AcTypes DEF Log
<1>4. \A h \in AcHandler : acWork[h] \in Work
  BY AcTypes
<1>5. \A h \in AcHandler : acWork[h].attempts \in 0..(MaxAttempts - 1)
  BY <1>4 DEF Work
<1>6. \A h \in AcHandler : LeftTo(h) \in Nat \ {0}
  BY <1>5, AccountsAssumption DEF LeftTo
<1>7. MaxAttempts \in Nat \ {0} /\ Most \in Nat
  BY AccountsAssumption, TwoStep DEF Most
<1>8. QED
  BY <1>1, <1>2, <1>3, <1>4, <1>5, <1>6, <1>7 DEF CodeRow

-----------------------------------------------------------------------------
(* The steps *)

\* Steps at which no guess begins or ends.
LEMMA GuessesStay ==
  ASSUME CodesInv, AcInv',
         \A h \in AcHandler : acWork[h].op = "verify" \/ acWork'[h].op = "verify" =>
           acWork'[h] = acWork[h],
         acLog'.guesses = acLog.guesses, acLog'.logins = acLog.logins,
         acLog.overlapped => acLog'.overlapped,
         Issued \subseteq Issued',
         \A c \in Issued : codes'[c].attempts = codes[c].attempts
                           /\ codes'[c].verified = codes[c].verified,
         \A c \in Issued' \ Issued : codes'[c] = NewCode
  PROVE  Unissued' /\ CountsGuesses' /\ Budgets' /\ LoginsLeft'
<1>1. \A h \in AcHandler : \A c : Tries(h, c)' <=> Tries(h, c)
  BY DEF Tries
<1>2. \A h \in AcHandler : \A c : Tries(h, c) =>
        c \in Issued /\ acWork'[h].attempts = acWork[h].attempts /\ LeftTo(h)' = LeftTo(h)
        /\ acWork'[h].right = acWork[h].right
  BY DEF Tries, LeftTo, CodesInv, AcInv, GuessesHaveCodes, Issued
<1>3. \A c \in Issued' \ Issued :
        /\ codes'[c].attempts = 0 /\ codes'[c].verified = FALSE
        /\ acLog.guesses[c] = 0 /\ acLog.logins[c] = 0
        /\ \A h \in AcHandler : ~Tries(h, c)
  <2>1. \A c \in Issued' : c \in 1..MaxCodes
    <3>1. codes' \in Seq(CodeRow) /\ Len(codes') <= MaxCodes
      BY DEF AcInv, AcTypeOK
    <3>2. Len(codes') \in Nat
      BY <3>1, LenProperties
    <3>3. QED
      BY <3>1, <3>2, AccountsAssumption DEF Issued
  <2>2. QED
    BY <1>2, <2>1 DEF NewCode, CodesInv, Unissued
<1>4. Unissued'
  BY DEF CodesInv, Unissued
<1>5. CountsGuesses'
  <2> SUFFICES ASSUME ~acLog'.overlapped
               PROVE  /\ \A c \in Issued' : acLog.guesses[c] = codes'[c].attempts
                                            /\ acLog.logins[c] <= 1
                      /\ \A h \in AcHandler : \A c \in Issued' : Tries(h, c)' =>
                           acWork'[h].attempts = codes'[c].attempts /\ ~codes'[c].verified
    BY DEF CountsGuesses
  <2>1. /\ \A c \in Issued : acLog.guesses[c] = codes[c].attempts /\ acLog.logins[c] <= 1
        /\ \A h \in AcHandler : \A c \in Issued : Tries(h, c) =>
             acWork[h].attempts = codes[c].attempts /\ ~codes[c].verified
    BY DEF CodesInv, CountsGuesses
  <2>2. QED
    BY <1>1, <1>2, <1>3, <2>1
<1>6. Budgets'
  <2> SUFFICES ASSUME NEW c \in Issued' PROVE GuessesLeft(c)'
    BY DEF Budgets
  <2>1. CASE c \in Issued
    <3>1. GuessesLeft(c) /\ Twice(c)' = Twice(c) /\ Left(c)' = Left(c)
      BY <2>1 DEF CodesInv, Budgets, Twice, Left
    <3>2. \A h \in AcHandler : TriesAlone(h, c)' <=> TriesAlone(h, c)
      BY <1>1 DEF TriesAlone
    <3>3. codes'[c].attempts = codes[c].attempts /\ codes'[c].verified = codes[c].verified
      BY <2>1
    <3>4. \A h \in AcHandler : TriesAlone(h, c) => Tries(h, c)
      BY DEF TriesAlone
    <3>5. QED
      BY <1>1, <1>2, <3>1, <3>2, <3>3, <3>4 DEF GuessesLeft
  <2>2. CASE c \notin Issued
    <3>1. /\ codes'[c].attempts = 0 /\ acLog'.guesses[c] = 0
          /\ \A h \in AcHandler : ~Tries(h, c)'
      BY <1>1, <1>3, <2>2
    <3>2. Twice(c)' = 0 /\ Left(c)' = MaxAttempts
      BY <3>1, CodeTypes DEF Twice, Left, CodesInv
    <3>3. MaxAttempts \in Nat /\ Most \in Nat /\ Two(MaxAttempts) = Most
      BY CodeTypes DEF CodesInv, Most
    <3>4. QED
      BY <3>1, <3>2, <3>3 DEF GuessesLeft, TriesAlone
  <2>3. QED
    BY <2>1, <2>2
<1>7. LoginsLeft'
  <2> SUFFICES ASSUME NEW c \in Issued' PROVE LoginLeft(c)'
    BY DEF LoginsLeft
  <2>1. Presenting(c)' = Presenting(c)
    BY <1>1, <1>2 DEF Presenting
  <2>2. QED
    BY <1>3, <2>1 DEF CodesInv, LoginsLeft, LoginLeft
<1>8. QED
  BY <1>4, <1>5, <1>6, <1>7

\* Two guesses under way are all there are.
LEMMA TwoOfThem ==
  ASSUME TwoHandlers, NEW h \in AcHandler, NEW g \in AcHandler, g # h
  PROVE  \A f \in AcHandler : f = g \/ f = h
BY DEF TwoHandlers

\* A guess begins.
LEMMA BudgetBegins ==
  ASSUME TwoHandlers, AcInv, NEW h \in AcHandler, acWork[h].op = "idle",
         NEW c \in Issued, GuessesLeft(c), ~codes[c].verified, codes[c].attempts < MaxAttempts,
         Twice(c)' = Twice(c), Left(c)' = Left(c), codes'[c] = codes[c],
         LeftTo(h)' = Left(c),
         \A g \in AcHandler : g # h => LeftTo(g)' = LeftTo(g) /\ (Tries(g, c)' <=> Tries(g, c)),
         Tries(h, c)'
  PROVE  GuessesLeft(c)'
<1>1. ~Tries(h, c)
  BY DEF Tries
<1>2. Left(c) \in Nat \ {0} /\ Twice(c) \in Nat /\ Most \in Nat
  BY CodeTypes DEF Left, Twice
<1>3. CASE \A g \in AcHandler : ~Tries(g, c)
  <2>1. Twice(c) + Two(Left(c)) <= Most
    BY <1>3 DEF GuessesLeft
  <2>2. Late(Left(c), Left(c)) = Two(Left(c)) /\ 4 <= Two(Left(c))
    BY <1>2, LateSteps
  <2>3. \A g \in AcHandler : g # h => ~Tries(g, c)'
    BY <1>3
  <2>4. Twice(c) + 4 <= Most /\ Twice(c) + 2 <= Most /\ Twice(c) <= Most
    <3>1. Two(Left(c)) \in Nat
      BY <1>2, TwoStep
    <3>2. QED
      BY <1>2, <2>1, <2>2, <3>1
  <2>5. QED
    BY <2>1, <2>2, <2>3, <2>4 DEF GuessesLeft, TriesAlone
<1>4. ASSUME NEW g \in AcHandler, Tries(g, c) PROVE GuessesLeft(c)'
  <2>1. g # h /\ \A f \in AcHandler : f = g \/ f = h
    BY <1>1, <1>4, TwoOfThem
  <2>2. TriesAlone(g, c)
    BY <1>1, <1>4, <2>1 DEF TriesAlone
  <2>3. /\ Twice(c) + Late(Left(c), LeftTo(g)) <= Most
        /\ Twice(c) + Late(LeftTo(g), Left(c)) <= Most
    BY <2>2 DEF GuessesLeft
  <2>4. LeftTo(g) \in Nat \ {0}
    BY CodeTypes
  <2>5. 4 <= Late(Left(c), LeftTo(g)) /\ Late(Left(c), LeftTo(g)) \in Int
    BY <1>2, <2>4, LateSteps
  <2>6. Twice(c) + 4 <= Most /\ Twice(c) + 2 <= Most /\ Twice(c) <= Most
    BY <1>2, <2>3, <2>5
  <2>7. LeftTo(g)' = LeftTo(g) /\ Tries(g, c)'
    BY <1>4, <2>1
  <2>8. \A f \in AcHandler : ~TriesAlone(f, c)'
    BY <2>1, <2>7 DEF TriesAlone
  <2>9. QED
    BY <2>1, <2>3, <2>6, <2>7, <2>8 DEF GuessesLeft
<1>5. QED
  BY <1>3, <1>4

\* A wrong guess is counted and sets the attempts to one more than it had read.
LEMMA BudgetEnds ==
  ASSUME TwoHandlers, AcInv, NEW h \in AcHandler,
         NEW c \in Issued, GuessesLeft(c), Tries(h, c), codes'[c].verified = codes[c].verified,
         Twice(c)' = Twice(c) + 2, codes'[c].attempts = acWork[h].attempts + 1,
         Left(c)' = LeftTo(h) - 1,
         \A g \in AcHandler : g # h => LeftTo(g)' = LeftTo(g) /\ (Tries(g, c)' <=> Tries(g, c)),
         ~Tries(h, c)'
  PROVE  GuessesLeft(c)'
<1>1. /\ LeftTo(h) \in Nat \ {0} /\ Left(c) \in Nat /\ Twice(c) \in Nat /\ Most \in Nat
      /\ acWork[h].attempts \in 0..(MaxAttempts - 1) /\ MaxAttempts \in Nat
  BY CodeTypes DEF Left, Twice, GuessesLeft
<1>2. codes'[c].attempts <= MaxAttempts
  BY <1>1
<1>3. Twice(c) + 2 <= Most
  BY DEF GuessesLeft
<1>4. CASE \A g \in AcHandler : g # h => ~Tries(g, c)
  <2>1. \A g \in AcHandler : ~Tries(g, c)'
    BY <1>4
  <2>2. ASSUME ~codes'[c].verified PROVE Twice(c)' + Two(Left(c)') <= Most
    <3>1. Twice(c) + Late(Left(c), LeftTo(h)) <= Most
      BY <1>4, <2>2 DEF GuessesLeft, TriesAlone
    <3>2. /\ Two(LeftTo(h) - 1) + 2 <= Late(Left(c), LeftTo(h))
          /\ Late(Left(c), LeftTo(h)) \in Int /\ Two(LeftTo(h) - 1) \in Int
      BY <1>1, LateSteps, TwoStep
    <3>3. QED
      BY <1>1, <3>1, <3>2
  <2>3. QED
    BY <1>2, <1>3, <2>1, <2>2 DEF GuessesLeft, TriesAlone
<1>5. ASSUME NEW g \in AcHandler, g # h, Tries(g, c) PROVE GuessesLeft(c)'
  <2>1. \A f \in AcHandler : f = g \/ f = h
    BY <1>5, TwoOfThem
  <2>2. Twice(c) + 4 <= Most
    BY <1>5 DEF GuessesLeft
  <2>3. LeftTo(g)' = LeftTo(g) /\ Tries(g, c)' /\ LeftTo(g) \in Nat \ {0}
    BY <1>5, CodeTypes
  <2>4. ASSUME ~codes'[c].verified
        PROVE  /\ Twice(c)' + Late(Left(c)', LeftTo(g)) <= Most
               /\ Twice(c)' + Late(LeftTo(g), Left(c)') <= Most
    <3>1. /\ Twice(c) + Late(LeftTo(h), LeftTo(g)) <= Most
          /\ Twice(c) + Late(LeftTo(g), LeftTo(h)) <= Most
      BY <1>5, <2>4 DEF GuessesLeft
    <3>2. /\ Late(LeftTo(h) - 1, LeftTo(g)) + 2 = Late(LeftTo(h), LeftTo(g))
          /\ Late(LeftTo(g), LeftTo(h) - 1) + 2 <= Late(LeftTo(g), LeftTo(h))
      BY <1>1, <2>3, LateSteps
    <3>3. LeftTo(h) - 1 \in Nat
      BY <1>1
    <3>4. /\ Late(LeftTo(h) - 1, LeftTo(g)) \in Int /\ Late(LeftTo(g), LeftTo(h) - 1) \in Int
          /\ Late(LeftTo(h), LeftTo(g)) \in Int /\ Late(LeftTo(g), LeftTo(h)) \in Int
      BY <1>1, <2>3, <3>3, LateSteps
    <3>5. QED
      BY <1>1, <3>1, <3>2, <3>4
  <2>5. /\ Twice(c)' <= Most /\ Twice(c)' + 2 <= Most
    BY <1>1, <2>2
  <2>6. \A f \in AcHandler : Tries(f, c)' => f = g
    BY <2>1
  <2>7. QED
    BY <1>2, <2>3, <2>4, <2>5, <2>6 DEF GuessesLeft, TriesAlone
<1>6. QED
  BY <1>4, <1>5

\* What a code's guesses and logins are after a guess at another.
LEMMA OtherCodesStay ==
  ASSUME CodesInv, NEW h \in AcHandler, NEW c \in Issued, NEW d \in Issued, d # c,
         acWork' = [acWork EXCEPT ![h] = acWork'[h]],
         acWork[h].op # "verify" \/ acWork[h].code = c,
         acWork'[h].op # "verify" \/ acWork'[h].code = c,
         codes'[d] = codes[d], acLog'.guesses[d] = acLog.guesses[d],
         acLog'.logins[d] = acLog.logins[d]
  PROVE  GuessesLeft(d)' /\ LoginLeft(d)'
<1>1. acWork \in [AcHandler -> Work]
  BY AcTypes DEF CodesInv
<1>2. \A g \in AcHandler : g # h => acWork'[g] = acWork[g]
  BY <1>1
<1>3. ~Tries(h, d) /\ ~Tries(h, d)'
  BY DEF Tries
<1>4. \A g \in AcHandler : Tries(g, d)' <=> Tries(g, d)
  BY <1>2, <1>3 DEF Tries
<1>5. \A g \in AcHandler : Tries(g, d) => LeftTo(g)' = LeftTo(g)
                                          /\ acWork'[g].right = acWork[g].right
  BY <1>2, <1>3 DEF LeftTo
<1>6. GuessesLeft(d)'
  <2>1. GuessesLeft(d) /\ Twice(d)' = Twice(d) /\ Left(d)' = Left(d)
    BY DEF CodesInv, Budgets, Twice, Left
  <2>2. \A g \in AcHandler : TriesAlone(g, d)' <=> TriesAlone(g, d)
    BY <1>4 DEF TriesAlone
  <2>3. \A g \in AcHandler : TriesAlone(g, d) => Tries(g, d)
    BY DEF TriesAlone
  <2>4. QED
    BY <1>4, <1>5, <2>1, <2>2, <2>3 DEF GuessesLeft
<1>7. Presenting(d)' = Presenting(d)
  BY <1>4, <1>5 DEF Presenting
<1>8. QED
  BY <1>6, <1>7 DEF CodesInv, LoginsLeft, LoginLeft

\* While requests come one at a time, whoever guesses is alone.
LEMMA GuessesAlone ==
  ASSUME AcInv, ~acLog.overlapped, NEW h \in AcHandler, acWork[h].op # "idle"
  PROVE  \A g \in AcHandler : g # h => acWork[g].op = "idle"
BY DEF AcInv, Alone

\* No more requests present a code than there are.
LEMMA PresentingIsFew ==
  ASSUME IsFiniteSet(AcHandler), NEW c
  PROVE  /\ IsFiniteSet(Presenting(c)) /\ Cardinality(Presenting(c)) \in Nat
         /\ Cardinality(Presenting(c)) <= Cardinality(AcHandler)
         /\ Cardinality(AcHandler) \in Nat
<1>1. Presenting(c) \subseteq AcHandler
  BY DEF Presenting
<1>2. QED
  BY <1>1, FS_Subset, FS_CardinalityType

\* A guess begins.
LEMMA BeginVerifyCounted ==
  ASSUME TwoHandlers, IsFiniteSet(AcHandler), CodesInv, AcInv', NEW h \in AcHandler,
         NEW c \in Issued, NEW right \in BOOLEAN, BeginVerify(h, c, right)
  PROVE  Unissued' /\ CountsGuesses' /\ Budgets' /\ LoginsLeft'
<1> DEFINE w == [AcIdle EXCEPT !.op = "verify", !.code = c, !.right = right,
                               !.attempts = codes[c].attempts]
<1>1. /\ acWork[h].op = "idle" /\ acWork' = [acWork EXCEPT ![h] = w] /\ codes' = codes
      /\ ~codes[c].verified /\ codes[c].attempts < MaxAttempts
  BY DEF BeginVerify, AcStart, Triable
<1>2. acWork \in [AcHandler -> Work] /\ acLog \in Log
  BY AcTypes DEF CodesInv
<1>3. /\ acLog'.guesses = acLog.guesses /\ acLog'.logins = acLog.logins
      /\ acLog'.overlapped = Overlapping
  <2>1. acLog' = [acLog EXCEPT !.overlapped = Overlapping]
    BY DEF BeginVerify
  <2>2. QED
    BY <1>2, <2>1 DEF Log
<1>4. /\ w.op = "verify" /\ w.code = c /\ w.attempts = codes[c].attempts
  BY DEF AcIdle
<1> HIDE DEF w
<1>5. \A g \in AcHandler : acWork'[g] = IF g = h THEN w ELSE acWork[g]
  BY <1>1, <1>2
<1>6. Issued' = Issued
  BY <1>1 DEF Issued
<1>7. Unissued'
  BY <1>3, <1>6 DEF CodesInv, Unissued
<1>8. CountsGuesses'
  <2> SUFFICES ASSUME ~acLog'.overlapped
               PROVE  /\ \A d \in Issued : acLog.guesses[d] = codes[d].attempts
                                           /\ acLog.logins[d] <= 1
                      /\ \A g \in AcHandler : \A d \in Issued : Tries(g, d)' =>
                           acWork'[g].attempts = codes[d].attempts /\ ~codes[d].verified
    BY <1>1, <1>3, <1>6 DEF CountsGuesses
  <2>1. ~acLog.overlapped /\ AcQuiet
    BY <1>3 DEF Overlapping
  <2>2. \A g \in AcHandler : \A d : Tries(g, d)' => g = h /\ d = c
    BY <1>4, <1>5, <2>1 DEF AcQuiet, Tries
  <2>3. QED
    BY <1>1, <1>4, <1>5, <2>1, <2>2 DEF CodesInv, CountsGuesses
<1>9. ~Tries(h, c) /\ Tries(h, c)'
  BY <1>1, <1>4, <1>5 DEF Tries
<1>10. GuessesLeft(c)'
  <2>1. LeftTo(h)' = Left(c) /\ Left(c)' = Left(c) /\ Twice(c)' = Twice(c)
    BY <1>1, <1>3, <1>4, <1>5 DEF LeftTo, Left, Twice
  <2>2. \A g \in AcHandler : g # h => LeftTo(g)' = LeftTo(g) /\ (Tries(g, c)' <=> Tries(g, c))
    BY <1>5 DEF LeftTo, Tries
  <2>3. GuessesLeft(c)
    BY DEF CodesInv, Budgets
  <2>4. QED
    BY <1>1, <1>9, <2>1, <2>2, <2>3, BudgetBegins DEF CodesInv
<1>11. acWork' = [acWork EXCEPT ![h] = acWork'[h]]
  BY <1>1, <1>2, <1>5
<1>12. ASSUME NEW d \in Issued, d # c PROVE GuessesLeft(d)' /\ LoginLeft(d)'
  <2>1. acWork[h].op # "verify"
    BY <1>1
  <2>2. acWork'[h].code = c
    BY <1>4, <1>5
  <2>3. codes'[d] = codes[d] /\ acLog'.guesses[d] = acLog.guesses[d]
        /\ acLog'.logins[d] = acLog.logins[d]
    BY <1>1, <1>3
  <2>4. QED
    BY <1>11, <1>12, <2>1, <2>2, <2>3, OtherCodesStay
<1>13. LoginLeft(c)'
  BY <1>1, <1>3 DEF CodesInv, LoginsLeft, LoginLeft
<1>14. Budgets'
  BY <1>6, <1>10, <1>12 DEF Budgets
<1>15. LoginsLeft'
  BY <1>6, <1>12, <1>13 DEF LoginsLeft
<1>16. QED
  BY <1>7, <1>8, <1>14, <1>15

\* A guess ends: what it leaves of its request, its code, and the numbers of the others.
LEMMA GuessEnds ==
  ASSUME CodesInv, NEW h \in AcHandler, WrongGuess(h) \/ RightGuess(h)
  PROVE  LET c == acWork[h].code IN
         /\ c \in Issued /\ Tries(h, c) /\ Issued' = Issued /\ acLog \in Log
         /\ \A g \in AcHandler : acWork'[g] = IF g = h THEN AcIdle ELSE acWork[g]
         /\ acWork' = [acWork EXCEPT ![h] = AcIdle]
         /\ AcIdle.op = "idle" /\ acLog'.overlapped = acLog.overlapped
         /\ acLog'.parallel = acLog.parallel
         /\ \A d \in Issued : d # c => codes'[d] = codes[d]
         /\ \A d \in 1..MaxCodes : d # c => acLog'.guesses[d] = acLog.guesses[d]
                                           /\ acLog'.logins[d] = acLog.logins[d]
<1> DEFINE c == acWork[h].code
<1>1. acWork[h].op = "verify" /\ acWork' = [acWork EXCEPT ![h] = AcIdle]
  BY DEF WrongGuess, RightGuess, AcEnd
<1>2. acWork \in [AcHandler -> Work] /\ acLog \in Log /\ codes \in Seq(CodeRow)
  BY AcTypes DEF CodesInv
<1>3. c \in Issued
  BY <1>1 DEF CodesInv, AcInv, GuessesHaveCodes, Issued
<1>4. \E row : codes' = [codes EXCEPT ![c] = row]
  BY DEF WrongGuess, RightGuess
<1>5. Issued' = Issued /\ \A d \in Issued : d # c => codes'[d] = codes[d]
  BY <1>2, <1>3, <1>4 DEF Issued
<1>6. /\ acLog'.overlapped = acLog.overlapped /\ acLog'.parallel = acLog.parallel
      /\ \A d \in 1..MaxCodes : d # c => acLog'.guesses[d] = acLog.guesses[d]
                                         /\ acLog'.logins[d] = acLog.logins[d]
  <2>1. CASE WrongGuess(h)
    <3>1. acLog' = [acLog EXCEPT !.guesses = [acLog.guesses EXCEPT ![c] = @ + 1]]
      BY <2>1 DEF WrongGuess
    <3>2. QED
      BY <1>2, <3>1 DEF Log
  <2>2. CASE RightGuess(h)
    <3> DEFINE n == IF account.status = "approved" THEN 1 ELSE 0
    <3>1. acLog' = [acLog EXCEPT !.logins = [acLog.logins EXCEPT ![c] = @ + n]]
      BY <2>2 DEF RightGuess
    <3>2. QED
      BY <1>2, <3>1 DEF Log
  <2>3. QED
    BY <2>1, <2>2
<1>7. QED
  BY <1>1, <1>2, <1>3, <1>5, <1>6, IdleIsWork DEF Tries

\* A wrong guess.
LEMMA WrongGuessCounted ==
  ASSUME TwoHandlers, IsFiniteSet(AcHandler), CodesInv, NEW h \in AcHandler, WrongGuess(h)
  PROVE  Unissued' /\ CountsGuesses' /\ Budgets' /\ LoginsLeft'
<1>0. PICK c : c = acWork[h].code
  OBVIOUS
<1>1. /\ c \in Issued /\ Tries(h, c) /\ Issued' = Issued /\ acLog \in Log
      /\ \A g \in AcHandler : acWork'[g] = IF g = h THEN AcIdle ELSE acWork[g]
      /\ acWork' = [acWork EXCEPT ![h] = AcIdle]
      /\ AcIdle.op = "idle" /\ acLog'.overlapped = acLog.overlapped
      /\ \A d \in Issued : d # c => codes'[d] = codes[d]
      /\ \A d \in 1..MaxCodes : d # c => acLog'.guesses[d] = acLog.guesses[d]
                                         /\ acLog'.logins[d] = acLog.logins[d]
  BY <1>0, GuessEnds
<1>2. /\ c \in 1..MaxCodes /\ codes[c] \in CodeRow /\ codes \in Seq(CodeRow)
      /\ acLog.guesses[c] \in Nat /\ acLog.logins[c] \in Nat
      /\ acWork[h].attempts \in 0..(MaxAttempts - 1) /\ MaxAttempts \in Nat
      /\ \A d \in Issued : d \in 1..MaxCodes
  BY <1>1, CodeTypes, AcTypes DEF CodesInv
<1>3. /\ acLog'.guesses[c] = acLog.guesses[c] + 1 /\ acLog'.logins[c] = acLog.logins[c]
  <2>1. acLog' = [acLog EXCEPT !.guesses = [acLog.guesses EXCEPT ![c] = @ + 1]]
    BY <1>0 DEF WrongGuess
  <2>2. QED
    BY <1>1, <1>2, <2>1 DEF Log
<1>4. /\ codes'[c].attempts = acWork[h].attempts + 1 /\ codes'[c].verified = codes[c].verified
  <2>1. codes' = [codes EXCEPT ![c] = [codes[c] EXCEPT !.attempts = acWork[h].attempts + 1]]
    BY <1>0 DEF WrongGuess
  <2>2. codes'[c] = [codes[c] EXCEPT !.attempts = acWork[h].attempts + 1]
    BY <1>1, <1>2, <2>1 DEF Issued
  <2>3. QED
    BY <1>2, <2>2 DEF CodeRow
<1>5. ~Tries(h, c)'
  BY <1>1 DEF Tries
<1>6. Unissued'
  BY <1>1 DEF CodesInv, Unissued
<1>7. CountsGuesses'
  <2> SUFFICES ASSUME ~acLog'.overlapped
               PROVE  /\ \A d \in Issued : acLog'.guesses[d] = codes'[d].attempts
                                           /\ acLog'.logins[d] <= 1
                      /\ \A g \in AcHandler : \A d \in Issued : ~Tries(g, d)'
    BY <1>1 DEF CountsGuesses
  <2>1. ~acLog.overlapped /\ acWork[h].op # "idle"
    BY <1>1 DEF Tries
  <2>2. \A g \in AcHandler : acWork'[g].op = "idle"
    BY <1>1, <2>1, GuessesAlone DEF CodesInv
  <2>3. acWork[h].attempts = codes[c].attempts
    BY <1>1, <2>1 DEF CodesInv, CountsGuesses
  <2>4. \A d \in Issued : acLog.guesses[d] = codes[d].attempts /\ acLog.logins[d] <= 1
    BY <2>1 DEF CodesInv, CountsGuesses
  <2>5. QED
    BY <1>1, <1>2, <1>3, <1>4, <2>2, <2>3, <2>4 DEF Tries
<1>8. \A g \in AcHandler : g # h => LeftTo(g)' = LeftTo(g) /\ (Tries(g, c)' <=> Tries(g, c))
  BY <1>1 DEF LeftTo, Tries
<1>9. GuessesLeft(c)'
  <2>1. Twice(c)' = Twice(c) + 2 /\ Left(c)' = LeftTo(h) - 1
    BY <1>2, <1>3, <1>4 DEF Twice, Left, LeftTo
  <2>2. GuessesLeft(c)
    BY <1>1 DEF CodesInv, Budgets
  <2>3. QED
    BY <1>1, <1>4, <1>5, <1>8, <2>1, <2>2, BudgetEnds DEF CodesInv
<1>10. LoginLeft(c)'
  <2>1. Presenting(c)' \subseteq Presenting(c)
    BY <1>1, <1>5, <1>8 DEF Presenting
  <2>2. Cardinality(Presenting(c)') <= Cardinality(Presenting(c))
        /\ Cardinality(Presenting(c)') \in Nat
    BY <2>1, PresentingIsFew, FS_Subset, FS_CardinalityType
  <2>3. LoginLeft(c)
    BY <1>1 DEF CodesInv, LoginsLeft
  <2>4. QED
    BY <1>2, <1>3, <1>4, <2>2, <2>3, PresentingIsFew DEF LoginLeft
<1>11. ASSUME NEW d \in Issued, d # c PROVE GuessesLeft(d)' /\ LoginLeft(d)'
  <2>1. acWork[h].code = c
    BY <1>0
  <2>2. acWork'[h] = AcIdle /\ acWork' = [acWork EXCEPT ![h] = acWork'[h]]
    BY <1>1
  <2>3. codes'[d] = codes[d] /\ acLog'.guesses[d] = acLog.guesses[d]
        /\ acLog'.logins[d] = acLog.logins[d]
    BY <1>1, <1>2, <1>11
  <2>4. QED
    BY <1>1, <1>11, <2>1, <2>2, <2>3, OtherCodesStay
<1>12. QED
  BY <1>1, <1>6, <1>7, <1>9, <1>10, <1>11 DEF Budgets, LoginsLeft

\* A right guess uses the code up.
LEMMA RightGuessCounted ==
  ASSUME TwoHandlers, IsFiniteSet(AcHandler), CodesInv, NEW h \in AcHandler, RightGuess(h)
  PROVE  Unissued' /\ CountsGuesses' /\ Budgets' /\ LoginsLeft'
<1>0. PICK c : c = acWork[h].code
  OBVIOUS
<1>1. /\ c \in Issued /\ Tries(h, c) /\ Issued' = Issued /\ acLog \in Log
      /\ \A g \in AcHandler : acWork'[g] = IF g = h THEN AcIdle ELSE acWork[g]
      /\ acWork' = [acWork EXCEPT ![h] = AcIdle]
      /\ AcIdle.op = "idle" /\ acLog'.overlapped = acLog.overlapped
      /\ \A d \in Issued : d # c => codes'[d] = codes[d]
      /\ \A d \in 1..MaxCodes : d # c => acLog'.guesses[d] = acLog.guesses[d]
                                         /\ acLog'.logins[d] = acLog.logins[d]
  BY <1>0, GuessEnds
<1>2. /\ c \in 1..MaxCodes /\ codes[c] \in CodeRow /\ codes \in Seq(CodeRow)
      /\ acLog.guesses[c] \in Nat /\ acLog.logins[c] \in Nat
      /\ \A d \in Issued : d \in 1..MaxCodes
  BY <1>1, CodeTypes, AcTypes DEF CodesInv
<1>3. /\ acLog'.guesses[c] = acLog.guesses[c]
      /\ acLog'.logins[c] \in {acLog.logins[c], acLog.logins[c] + 1}
  <2> DEFINE n == IF account.status = "approved" THEN 1 ELSE 0
  <2>1. acLog' = [acLog EXCEPT !.logins = [acLog.logins EXCEPT ![c] = @ + n]]
    BY <1>0 DEF RightGuess
  <2>2. n \in {0, 1}
    OBVIOUS
  <2> HIDE DEF n
  <2>3. acLog'.guesses = acLog.guesses /\ acLog'.logins[c] = acLog.logins[c] + n
    BY <1>1, <1>2, <2>1 DEF Log
  <2>4. QED
    BY <1>2, <2>2, <2>3
<1>4. /\ codes'[c].attempts = codes[c].attempts /\ codes'[c].verified
  <2>1. codes' = [codes EXCEPT ![c] = [codes[c] EXCEPT !.verified = TRUE]]
    BY <1>0 DEF RightGuess
  <2> DEFINE row == [codes[c] EXCEPT !.verified = TRUE]
  <2>2. row.attempts = codes[c].attempts /\ row.verified
    BY <1>2 DEF CodeRow
  <2>3. codes' = [codes EXCEPT ![c] = row]
    BY <2>1
  <2> HIDE DEF row
  <2>4. codes'[c] = row
    BY <1>1, <1>2, <2>3 DEF Issued
  <2>5. QED
    BY <2>2, <2>4
<1>5. ~Tries(h, c)' /\ acWork[h].right
  BY <1>1 DEF Tries, RightGuess
<1>6. Unissued'
  BY <1>1 DEF CodesInv, Unissued
<1>7. CountsGuesses'
  <2> SUFFICES ASSUME ~acLog'.overlapped
               PROVE  /\ \A d \in Issued : acLog'.guesses[d] = codes'[d].attempts
                                           /\ acLog'.logins[d] <= 1
                      /\ \A g \in AcHandler : \A d \in Issued : ~Tries(g, d)'
    BY <1>1 DEF CountsGuesses
  <2>1. ~acLog.overlapped /\ acWork[h].op # "idle"
    BY <1>1 DEF Tries
  <2>2. \A g \in AcHandler : acWork'[g].op = "idle"
    BY <1>1, <2>1, GuessesAlone DEF CodesInv
  <2>3. ~codes[c].verified
    BY <1>1, <2>1 DEF CodesInv, CountsGuesses
  <2>4. acLog.logins[c] = 0
    BY <1>1, <2>3 DEF CodesInv, LoginsLeft, LoginLeft
  <2>5. \A d \in Issued : acLog.guesses[d] = codes[d].attempts /\ acLog.logins[d] <= 1
    BY <2>1 DEF CodesInv, CountsGuesses
  <2>6. QED
    BY <1>1, <1>2, <1>3, <1>4, <2>2, <2>4, <2>5 DEF Tries
<1>8. \A g \in AcHandler : g # h => LeftTo(g)' = LeftTo(g) /\ (Tries(g, c)' <=> Tries(g, c))
  BY <1>1 DEF LeftTo, Tries
<1>9. GuessesLeft(c)'
  <2>1. Twice(c)' = Twice(c)
    BY <1>3 DEF Twice
  <2>2. GuessesLeft(c)
    BY <1>1 DEF CodesInv, Budgets
  <2>3. \A g \in AcHandler : Tries(g, c)' => Tries(g, c)
    BY <1>5, <1>8
  <2>4. QED
    BY <1>4, <2>1, <2>2, <2>3 DEF GuessesLeft
<1>10. LoginLeft(c)'
  <2>1. Presenting(c)' = Presenting(c) \ {h} /\ h \in Presenting(c)
    BY <1>1, <1>5, <1>8 DEF Presenting
  <2>2. Cardinality(Presenting(c)') = Cardinality(Presenting(c)) - 1
    BY <2>1, PresentingIsFew, FS_RemoveElement
  <2>3. LoginLeft(c)
    BY <1>1 DEF CodesInv, LoginsLeft
  <2>4. QED
    BY <1>2, <1>3, <1>4, <2>2, <2>3, PresentingIsFew DEF LoginLeft
<1>11. ASSUME NEW d \in Issued, d # c PROVE GuessesLeft(d)' /\ LoginLeft(d)'
  <2>1. acWork[h].code = c
    BY <1>0
  <2>2. acWork'[h] = AcIdle /\ acWork' = [acWork EXCEPT ![h] = acWork'[h]]
    BY <1>1
  <2>3. codes'[d] = codes[d] /\ acLog'.guesses[d] = acLog.guesses[d]
        /\ acLog'.logins[d] = acLog.logins[d]
    BY <1>1, <1>2, <1>11
  <2>4. QED
    BY <1>1, <1>11, <2>1, <2>2, <2>3, OtherCodesStay
<1>12. QED
  BY <1>1, <1>6, <1>7, <1>9, <1>10, <1>11 DEF Budgets, LoginsLeft

-----------------------------------------------------------------------------
(* The lockout *)

LEMMA SpentIsFinite ==
  ASSUME AcInv
  PROVE  IsFiniteSet(Issued) /\ IsFiniteSet(Spent) /\ Cardinality(Spent) \in Nat
<1>1. IsFiniteSet(Issued)
  BY AcTypes, FS_Interval DEF Issued
<1>2. Spent \subseteq Issued
  BY DEF Spent
<1>3. QED
  BY <1>1, <1>2, FS_Subset, FS_CardinalityType

\* Steps that exhaust no code and let none be tried that could not be tried before.
LEMMA LiveShrinks ==
  ASSUME AcInv, OneLive, acLog.parallel => acLog'.parallel,
         acLog.overlapped => acLog'.overlapped,
         ~acLog'.parallel /\ ~acLog'.overlapped => Live' \subseteq Live /\ Spent' \subseteq Spent
  PROVE  OneLive'
<1> SUFFICES ASSUME ~acLog'.parallel, ~acLog'.overlapped
             PROVE  /\ \A c, d \in Live' : c = d
                    /\ Cardinality(Spent') <= LockoutThreshold
                    /\ Live' # {} => Cardinality(Spent') < LockoutThreshold
  BY DEF OneLive
<1>1. Cardinality(Spent') <= Cardinality(Spent) /\ Cardinality(Spent') \in Nat
      /\ Cardinality(Spent) \in Nat
  BY SpentIsFinite, FS_Subset, FS_CardinalityType
<1>2. QED
  BY <1>1, AccountsAssumption DEF OneLive

\* Steps that leave the codes alone, and begin no guess but at a code that can be tried.
LEMMA LiveStays ==
  ASSUME AcInv, OneLive, acLog.parallel => acLog'.parallel,
         acLog.overlapped => acLog'.overlapped, codes' = codes,
         \A h \in AcHandler : \A c \in Issued : Tries(h, c)' => Tries(h, c) \/ Triable(c)
  PROVE  OneLive'
<1>1. Issued' = Issued /\ Spent' = Spent
  BY DEF Issued, Spent
<1>2. Live' \subseteq Live
  BY <1>1 DEF Live, Triable
<1>3. QED
  BY <1>1, <1>2, LiveShrinks

\* A code gets older: it cannot be tried, or falls out of the window.
LEMMA AgingLive ==
  ASSUME CodesInv, NEW c \in Issued, CodeAges(c)
  PROVE  /\ OneLive' /\ Issued' = Issued /\ acWork' = acWork /\ acLog' = acLog
         /\ \A d \in Issued : codes'[d].attempts = codes[d].attempts
                              /\ codes'[d].verified = codes[d].verified
<1>1. codes \in Seq(CodeRow) /\ codes[c] \in CodeRow
  BY CodeTypes, AcTypes DEF CodesInv
<1>2. PICK age \in CodeAge :
        /\ codes' = [codes EXCEPT ![c] = [codes[c] EXCEPT !.age = age]]
        /\ age # "fresh" /\ codes[c].age # "past"
  BY DEF CodeAges, CodeAge
<1>3. acWork' = acWork /\ acLog' = acLog
  BY DEF CodeAges
<1>4. Issued' = Issued
  BY <1>1, <1>2 DEF Issued
<1>5. \A d \in Issued : /\ codes'[d].attempts = codes[d].attempts
                        /\ codes'[d].verified = codes[d].verified
                        /\ codes'[d].age = "fresh" => codes[d].age = "fresh"
                        /\ codes'[d].age # "past" => codes[d].age # "past"
  <2> SUFFICES ASSUME NEW d \in Issued
               PROVE  /\ codes'[d].attempts = codes[d].attempts
                      /\ codes'[d].verified = codes[d].verified
                      /\ codes'[d].age = "fresh" => codes[d].age = "fresh"
                      /\ codes'[d].age # "past" => codes[d].age # "past"
    OBVIOUS
  <2> DEFINE row == [codes[c] EXCEPT !.age = age]
  <2>1. row.attempts = codes[c].attempts /\ row.age = age
    BY <1>1 DEF CodeRow
  <2>2. row.verified = codes[c].verified
    BY <1>1 DEF CodeRow
  <2>3. codes' = [codes EXCEPT ![c] = row]
    BY <1>2
  <2> HIDE DEF row
  <2>4. codes'[d] = IF d = c THEN row ELSE codes[d]
    BY <1>1, <2>3 DEF Issued
  <2>5. CASE d = c
    <3>1. codes'[d] = row
      BY <2>4, <2>5
    <3>2. QED
      BY <1>2, <2>1, <2>2, <2>5, <3>1
  <2>6. CASE d # c
    <3>1. codes'[d] = codes[d]
      BY <2>4, <2>6
    <3>2. QED
      BY <3>1
  <2>7. QED
    BY <2>5, <2>6
<1>6. Live' \subseteq Live
  BY <1>3, <1>4, <1>5 DEF Live, Tries
<1>7. Spent' \subseteq Spent
  BY <1>4, <1>5 DEF Spent
<1>8. OneLive'
  BY <1>3, <1>6, <1>7, LiveShrinks DEF CodesInv
<1>9. QED
  BY <1>3, <1>4, <1>5, <1>8

\* A guess ends: the code it was at is exhausted, used up, or can be tried again.
LEMMA GuessEndsLive ==
  ASSUME CodesInv, NEW h \in AcHandler, WrongGuess(h) \/ RightGuess(h)
  PROVE  OneLive'
<1>0. PICK c : c = acWork[h].code
  OBVIOUS
<1>1. /\ c \in Issued /\ Tries(h, c) /\ Issued' = Issued
      /\ \A g \in AcHandler : acWork'[g] = IF g = h THEN AcIdle ELSE acWork[g]
      /\ AcIdle.op = "idle" /\ acLog'.overlapped = acLog.overlapped
      /\ acLog'.parallel = acLog.parallel
      /\ \A d \in Issued : d # c => codes'[d] = codes[d]
  BY <1>0, GuessEnds
<1>2. /\ codes \in Seq(CodeRow) /\ codes[c] \in CodeRow
      /\ acWork[h].attempts \in 0..(MaxAttempts - 1) /\ MaxAttempts \in Nat
  BY <1>1, CodeTypes, AcTypes DEF CodesInv
<1> SUFFICES ASSUME ~acLog.parallel, ~acLog.overlapped PROVE OneLive'
  BY <1>1 DEF OneLive
<1>3. ~codes[c].verified /\ acWork[h].attempts = codes[c].attempts
  BY <1>1 DEF CodesInv, CountsGuesses
<1>4. c \in Live
  BY <1>1, <1>2, <1>3 DEF Live
<1>5. \A g \in AcHandler : \A d : Tries(g, d)' => Tries(g, d)
  BY <1>1 DEF Tries
<1>6. Live' \subseteq Live
  BY <1>1, <1>4, <1>5 DEF Live
<1>7. Spent' \subseteq Spent \cup {c}
  BY <1>1 DEF Spent
<1>8. CASE c \in Spent'
  <2>1. c \notin Live'
    <3>1. codes'[c].attempts >= MaxAttempts
      BY <1>8 DEF Spent
    <3>2. CASE WrongGuess(h)
      <4>1. codes' = [codes EXCEPT ![c] =
                        [codes[c] EXCEPT !.attempts = acWork[h].attempts + 1]]
        BY <1>0, <3>2 DEF WrongGuess
      <4>2. codes'[c].attempts = acWork[h].attempts + 1
        BY <1>1, <1>2, <4>1 DEF CodeRow, Issued
      <4>3. QED
        BY <1>2, <3>1, <4>2 DEF Live
    <3>3. CASE RightGuess(h)
      <4> DEFINE row == [codes[c] EXCEPT !.verified = TRUE]
      <4>1. row.verified
        BY <1>2 DEF CodeRow
      <4>2. codes' = [codes EXCEPT ![c] = row]
        BY <1>0, <3>3 DEF RightGuess
      <4> HIDE DEF row
      <4>3. codes'[c] = row
        BY <1>1, <1>2, <4>2 DEF Issued
      <4>4. QED
        BY <4>1, <4>3 DEF Live
    <3>4. QED
      BY <3>2, <3>3
  <2>2. Live' = {}
    BY <1>4, <1>6, <2>1 DEF CodesInv, OneLive
  <2>3. Cardinality(Spent) < LockoutThreshold
    BY <1>4 DEF CodesInv, OneLive
  <2>4. Cardinality(Spent \cup {c}) <= Cardinality(Spent) + 1
        /\ IsFiniteSet(Spent \cup {c}) /\ Cardinality(Spent) \in Nat
        /\ Cardinality(Spent \cup {c}) \in Nat
    <3>1. IsFiniteSet(Spent) /\ Cardinality(Spent) \in Nat
      BY SpentIsFinite DEF CodesInv
    <3>2. /\ IsFiniteSet(Spent \cup {c})
          /\ Cardinality(Spent \cup {c}) \in {Cardinality(Spent), Cardinality(Spent) + 1}
      BY <3>1, FS_AddElement
    <3>3. QED
      BY <3>1, <3>2
  <2>5. Cardinality(Spent') <= Cardinality(Spent \cup {c}) /\ Cardinality(Spent') \in Nat
    BY <1>7, <2>4, FS_Subset, FS_CardinalityType
  <2>6. Cardinality(Spent') <= LockoutThreshold
    BY <2>3, <2>4, <2>5, AccountsAssumption
  <2>7. QED
    BY <2>2, <2>6 DEF OneLive
<1>9. CASE c \notin Spent'
  <2>1. Spent' \subseteq Spent
    BY <1>7, <1>9
  <2>2. QED
    BY <1>1, <1>6, <2>1, LiveShrinks DEF CodesInv
<1>10. QED
  BY <1>8, <1>9

\* A login that issues a code finds the account not locked, and no code that could be tried.
LEMMA FinishLoginCounted ==
  ASSUME CodesInv, AcInv', NEW h \in AcHandler, FinishLogin(h)
  PROVE  Unissued' /\ CountsGuesses' /\ Budgets' /\ LoginsLeft' /\ OneLive'
<1>1. /\ acWork \in [AcHandler -> Work] /\ acLog \in Log /\ codes \in Seq(CodeRow)
      /\ acWork[h].op = "login" /\ acWork' = [acWork EXCEPT ![h] = AcIdle]
  BY AcTypes DEF CodesInv, FinishLogin, AcEnd
<1>2. PICK coded \in BOOLEAN :
        /\ coded => ~Locked
        /\ codes' = IF coded /\ Len(codes) < MaxCodes THEN Append(codes, NewCode) ELSE codes
        /\ acLog' = [acLog EXCEPT !.parallel =
                       @ \/ (coded /\ \E c \in 1..Len(codes) : Triable(c))]
  BY DEF FinishLogin
<1>3. /\ acLog'.guesses = acLog.guesses /\ acLog'.logins = acLog.logins
      /\ acLog'.overlapped = acLog.overlapped /\ (acLog.parallel => acLog'.parallel)
      /\ ~acLog'.parallel /\ coded => \A c \in Issued : ~Triable(c)
  <2> DEFINE b == acLog.parallel \/ (coded /\ \E c \in 1..Len(codes) : Triable(c))
  <2>1. acLog' = [acLog EXCEPT !.parallel = b]
    BY <1>2
  <2>2. /\ acLog.parallel => b
        /\ ~b /\ coded => \A c \in Issued : ~Triable(c)
    BY DEF Issued
  <2> HIDE DEF b
  <2>3. /\ acLog'.guesses = acLog.guesses /\ acLog'.logins = acLog.logins
        /\ acLog'.overlapped = acLog.overlapped /\ acLog'.parallel = b
    BY <1>1, <2>1 DEF Log
  <2>4. QED
    BY <2>2, <2>3
<1>4. \A g \in AcHandler : acWork'[g] = IF g = h THEN AcIdle ELSE acWork[g]
  BY <1>1
<1>5. \A g \in AcHandler : acWork[g].op = "verify" \/ acWork'[g].op = "verify" =>
        acWork'[g] = acWork[g]
  BY <1>1, <1>4, IdleIsWork
<1>6. \A g \in AcHandler : \A c : Tries(g, c)' <=> Tries(g, c)
  BY <1>1, <1>4, IdleIsWork DEF Tries
<1>7. CASE codes' = codes
  <2>1. Issued' = Issued
    BY <1>7 DEF Issued
  <2>2. OneLive'
    BY <1>3, <1>6, <1>7, LiveStays DEF CodesInv
  <2>3. QED
    BY <1>3, <1>5, <1>7, <2>1, <2>2, GuessesStay
<1>8. CASE coded /\ Len(codes) < MaxCodes /\ codes' = Append(codes, NewCode)
  <2> PICK n : n = Len(codes) + 1
    OBVIOUS
  <2>1. /\ Len(codes) \in Nat /\ Len(codes') = n
        /\ \A c \in 1..Len(codes) : codes'[c] = codes[c]
    BY <1>1, <1>8
  <2>0. codes'[n] = NewCode
    BY <1>1, <1>8
  <2>2. Issued \subseteq Issued' /\ Issued' = Issued \cup {n} /\ n \notin Issued
    BY <2>1 DEF Issued
  <2>3. \A c \in Issued : codes'[c] = codes[c]
    BY <2>1 DEF Issued
  <2>4. \A c \in Issued' \ Issued : codes'[c] = NewCode
    <3>1. \A c \in Issued' \ Issued : c = n
      BY <2>2
    <3>2. QED
      BY <2>0, <3>1
  <2>5. Unissued' /\ CountsGuesses' /\ Budgets' /\ LoginsLeft'
    BY <1>3, <1>5, <2>2, <2>3, <2>4, GuessesStay
  <2>6. OneLive'
    <3> SUFFICES ASSUME ~acLog'.parallel, ~acLog'.overlapped
                 PROVE  /\ \A c, d \in Live' : c = d
                        /\ Spent' = Spent /\ Cardinality(Spent) < LockoutThreshold
      BY SpentIsFinite, AccountsAssumption DEF OneLive, CodesInv
    <3>1. \A g \in AcHandler : acWork[g].op = "login" \/ acWork[g].op = "idle"
      BY <1>1, <1>3, GuessesAlone DEF CodesInv
    <3>2. \A g \in AcHandler : \A c : ~Tries(g, c)'
      BY <1>6, <3>1 DEF Tries
    <3>3. \A c \in Issued : c \notin Live'
      BY <1>3, <1>8, <2>3, <3>2 DEF Live, Triable
    <3>4. \A c, d \in Live' : c = d
      BY <2>2, <3>3 DEF Live
    <3>5. Spent' = Spent
      <4>1. NewCode.attempts = 0 /\ MaxAttempts \in Nat \ {0}
        BY AccountsAssumption DEF NewCode
      <4>2. n \notin Spent'
        <5>1. codes'[n].attempts = 0
          BY <2>0, <4>1
        <5>2. ~(codes'[n].attempts >= MaxAttempts)
          BY <4>1, <5>1
        <5>3. QED
          BY <5>2 DEF Spent
      <4>3. QED
        BY <2>2, <2>3, <4>2 DEF Spent
    <3>6. Cardinality(Spent) < LockoutThreshold
      <4>1. MaxedOut = Cardinality(Spent)
        BY DEF MaxedOut, Spent, Issued
      <4>2. ~(MaxedOut >= LockoutThreshold)
        BY <1>2, <1>8 DEF Locked
      <4>3. QED
        BY <4>1, <4>2, SpentIsFinite, AccountsAssumption DEF CodesInv
    <3>7. QED
      BY <3>4, <3>5, <3>6
  <2>7. QED
    BY <2>5, <2>6
<1>9. QED
  BY <1>2, <1>7, <1>8

-----------------------------------------------------------------------------

\* A request that is no guess begins or ends, and leaves the codes alone.
LEMMA OthersCounted ==
  ASSUME CodesInv, AcInv', NEW h \in AcHandler, NEW w \in Work,
         acWork' = [acWork EXCEPT ![h] = w], acWork[h].op # "verify", w.op # "verify",
         codes' = codes, acLog'.guesses = acLog.guesses, acLog'.logins = acLog.logins,
         acLog.overlapped => acLog'.overlapped, acLog'.parallel = acLog.parallel
  PROVE  CodesInv'
<1>1. acWork \in [AcHandler -> Work]
  BY AcTypes DEF CodesInv
<1>2. \A g \in AcHandler : acWork'[g] = IF g = h THEN w ELSE acWork[g]
  BY <1>1
<1>3. Issued' = Issued
  BY DEF Issued
<1>4. Unissued' /\ CountsGuesses' /\ Budgets' /\ LoginsLeft'
  BY <1>2, <1>3, GuessesStay
<1>5. \A g \in AcHandler : \A c : Tries(g, c)' => Tries(g, c)
  BY <1>2 DEF Tries
<1>6. OneLive'
  BY <1>5, LiveStays DEF CodesInv
<1>7. QED
  BY <1>4, <1>6 DEF CodesInv

\* Logins that begin, and the requests of the admins.
LEMMA AdminsCounted ==
  ASSUME CodesInv, AcInv', NEW h \in AcHandler,
         \/ BeginLogin(h) \/ CommitAccountOp(h)
         \/ \E op \in AdminOps : BeginAccountOp(h, op)
  PROVE  CodesInv'
<1>1. acLog \in Log /\ acWork \in [AcHandler -> Work]
  BY AcTypes DEF CodesInv
<1>2. CASE BeginLogin(h)
  <2> DEFINE w == [AcIdle EXCEPT !.op = "login", !.saw = account]
  <2>1. acWork[h].op = "idle" /\ acWork' = [acWork EXCEPT ![h] = w] /\ codes' = codes
        /\ acLog' = [acLog EXCEPT !.overlapped = Overlapping]
    BY <1>2 DEF BeginLogin, AcStart
  <2>2. w \in Work /\ w.op # "verify"
    BY IdleIsWork, AcTypes DEF Work, CodesInv
  <2>3. /\ acLog'.guesses = acLog.guesses /\ acLog'.logins = acLog.logins
        /\ acLog'.overlapped = Overlapping /\ acLog'.parallel = acLog.parallel
    BY <1>1, <2>1 DEF Log
  <2> HIDE DEF w
  <2>4. QED
    BY <2>1, <2>2, <2>3, OthersCounted DEF Overlapping
<1>3. CASE CommitAccountOp(h)
  <2>1. /\ acWork[h].op \in AdminOps /\ acWork' = [acWork EXCEPT ![h] = AcIdle]
        /\ codes' = codes
        /\ acLog' = [acLog EXCEPT !.lost =
                       @ \/ (acWork[h].op = "reject" /\ account.status = "approved")]
    BY <1>3 DEF CommitAccountOp, AcEnd
  <2>2. acWork[h].op # "verify"
    BY <2>1 DEF AdminOps
  <2>3. /\ acLog'.guesses = acLog.guesses /\ acLog'.logins = acLog.logins
        /\ acLog'.overlapped = acLog.overlapped /\ acLog'.parallel = acLog.parallel
    BY <1>1, <2>1 DEF Log
  <2>4. QED
    BY <2>1, <2>2, <2>3, IdleIsWork, OthersCounted
<1>4. ASSUME NEW op \in AdminOps, BeginAccountOp(h, op) PROVE CodesInv'
  <2> DEFINE w == [AcIdle EXCEPT !.op = op, !.saw = account]
  <2>1. acWork[h].op = "idle" /\ acWork' = [acWork EXCEPT ![h] = w] /\ codes' = codes
        /\ acLog' = [acLog EXCEPT !.ops = @ + 1, !.overlapped = Overlapping]
    BY <1>4 DEF BeginAccountOp, AcStart
  <2>2. w \in Work /\ w.op # "verify"
    BY IdleIsWork, AcTypes DEF Work, CodesInv, AdminOps
  <2>3. /\ acLog'.guesses = acLog.guesses /\ acLog'.logins = acLog.logins
        /\ acLog'.overlapped = Overlapping /\ acLog'.parallel = acLog.parallel
    BY <1>1, <2>1 DEF Log
  <2> HIDE DEF w
  <2>4. QED
    BY <2>1, <2>2, <2>3, OthersCounted DEF Overlapping
<1>5. QED
  BY <1>2, <1>3, <1>4

\* Guesses that begin and end.
LEMMA GuessesCounted ==
  ASSUME TwoHandlers, IsFiniteSet(AcHandler), CodesInv, AcInv', NEW h \in AcHandler,
         \/ WrongGuess(h) \/ RightGuess(h)
         \/ \E c \in 1..Len(codes), right \in BOOLEAN : BeginVerify(h, c, right)
  PROVE  CodesInv'
<1>1. CASE WrongGuess(h)
  BY <1>1, WrongGuessCounted, GuessEndsLive DEF CodesInv
<1>2. CASE RightGuess(h)
  BY <1>2, RightGuessCounted, GuessEndsLive DEF CodesInv
<1>3. ASSUME NEW c \in Issued, NEW right \in BOOLEAN, BeginVerify(h, c, right) PROVE CodesInv'
  <2>1. Unissued' /\ CountsGuesses' /\ Budgets' /\ LoginsLeft'
    BY <1>3, BeginVerifyCounted
  <2> DEFINE w == [AcIdle EXCEPT !.op = "verify", !.code = c, !.right = right,
                                 !.attempts = codes[c].attempts]
  <2>2. /\ acWork' = [acWork EXCEPT ![h] = w] /\ codes' = codes /\ Triable(c)
        /\ acLog' = [acLog EXCEPT !.overlapped = Overlapping]
    BY <1>3 DEF BeginVerify, AcStart
  <2>3. acLog \in Log /\ acWork \in [AcHandler -> Work]
    BY AcTypes DEF CodesInv
  <2>4. acLog'.parallel = acLog.parallel /\ (acLog.overlapped => acLog'.overlapped)
    <3>1. acLog'.parallel = acLog.parallel /\ acLog'.overlapped = Overlapping
      BY <2>2, <2>3 DEF Log
    <3>2. QED
      BY <3>1 DEF Overlapping
  <2>5. w.code = c
    BY DEF AcIdle
  <2> HIDE DEF w
  <2>6. \A g \in AcHandler : \A d \in Issued : Tries(g, d)' => Tries(g, d) \/ Triable(d)
    BY <2>2, <2>3, <2>5 DEF Tries
  <2>7. OneLive'
    BY <2>2, <2>4, <2>6, LiveStays DEF CodesInv
  <2>8. QED
    BY <2>1, <2>7 DEF CodesInv
<1>4. QED
  BY <1>1, <1>2, <1>3 DEF Issued

\* Every step keeps the invariant.
LEMMA CodesStep ==
  ASSUME TwoHandlers, IsFiniteSet(AcHandler), CodesInv, [AcNext]_acVars
  PROVE  CodesInv'
<1>1. AcInv'
  BY AcStep DEF CodesInv
<1>2. CASE UNCHANGED acVars
  <2>1. Issued' = Issued
    BY <1>2 DEF Issued, acVars
  <2>2. Unissued' /\ CountsGuesses' /\ Budgets' /\ LoginsLeft'
    BY <1>1, <1>2, <2>1, GuessesStay DEF acVars
  <2>3. OneLive'
    BY <1>2, LiveStays DEF acVars, CodesInv, Tries
  <2>4. QED
    BY <1>1, <2>2, <2>3 DEF CodesInv
<1>3. CASE AcNext
  <2>1. ASSUME NEW h \in AcHandler, FinishLogin(h) PROVE CodesInv'
    BY <1>1, <2>1, FinishLoginCounted DEF CodesInv
  <2>2. ASSUME NEW h \in AcHandler,
               \/ BeginLogin(h) \/ CommitAccountOp(h)
               \/ \E op \in AdminOps : BeginAccountOp(h, op)
        PROVE  CodesInv'
    BY <1>1, <2>2, AdminsCounted
  <2>3. ASSUME NEW h \in AcHandler,
               \/ WrongGuess(h) \/ RightGuess(h)
               \/ \E c \in 1..Len(codes), right \in BOOLEAN : BeginVerify(h, c, right)
        PROVE  CodesInv'
    BY <1>1, <2>3, GuessesCounted
  <2>4. ASSUME NEW c \in Issued, CodeAges(c) PROVE CodesInv'
    <3>1. /\ OneLive' /\ Issued' = Issued /\ acWork' = acWork /\ acLog' = acLog
          /\ \A d \in Issued : codes'[d].attempts = codes[d].attempts
                               /\ codes'[d].verified = codes[d].verified
      BY <2>4, AgingLive
    <3>2. Unissued' /\ CountsGuesses' /\ Budgets' /\ LoginsLeft'
      BY <1>1, <3>1, GuessesStay
    <3>3. QED
      BY <1>1, <3>1, <3>2 DEF CodesInv
  <2>5. QED
    BY <1>3, <2>1, <2>2, <2>3, <2>4 DEF AcNext, Issued
<1>4. QED
  BY <1>2, <1>3

\* At first there is no code.
LEMMA CodesInit == AcInit => CodesInv
<1> SUFFICES ASSUME AcInit PROVE CodesInv
  OBVIOUS
<1>1. Issued = {}
  BY DEF AcInit, Issued
<1>2. /\ \A h \in AcHandler : \A c : ~Tries(h, c)
      /\ \A c \in 1..MaxCodes : acLog.guesses[c] = 0 /\ acLog.logins[c] = 0
  BY DEF AcInit, Tries, AcIdle
<1>3. Unissued /\ CountsGuesses /\ Budgets /\ LoginsLeft
  BY <1>1, <1>2 DEF Unissued, CountsGuesses, Budgets, LoginsLeft
<1>4. Live = {} /\ Spent = {}
  BY <1>1 DEF Live, Spent
<1>5. OneLive
  BY <1>4, FS_EmptySet, AccountsAssumption DEF OneLive
<1>6. QED
  BY <1>3, <1>5, AcInitOK DEF CodesInv

\* The invariant is enough.
LEMMA CodesSuffice ==
  ASSUME IsFiniteSet(AcHandler), CodesInv
  PROVE  CodesHold
<1>1. GuessesBounded
  <2> SUFFICES ASSUME NEW c \in 1..MaxCodes
               PROVE  acLog.guesses[c] <=
                        IF acLog.overlapped THEN (MaxAttempts * (MaxAttempts + 3)) \div 2
                        ELSE MaxAttempts
    BY DEF GuessesBounded
  <2>1. Most \in Nat /\ MaxAttempts \in Nat /\ Most = MaxAttempts * (MaxAttempts + 3)
    BY CodeTypes DEF CodesInv, Most, Two
  <2>2. CASE c \notin Issued
    <3>1. acLog.guesses[c] = 0
      BY <2>2 DEF CodesInv, Unissued
    <3>2. Most \div 2 >= 0
      BY <2>1
    <3>3. QED
      BY <2>1, <3>1, <3>2
  <2>3. CASE c \in Issued
    <3>1. acLog.guesses[c] \in Nat /\ codes[c].attempts \in Nat
      BY <2>3, CodeTypes DEF CodesInv
    <3>2. GuessesLeft(c)
      BY <2>3 DEF CodesInv, Budgets
    <3>3. CASE acLog.overlapped
      <4>1. 2 * acLog.guesses[c] <= Most
        BY <3>2 DEF GuessesLeft, Twice
      <4>2. acLog.guesses[c] <= Most \div 2
        BY <2>1, <3>1, <4>1
      <4>3. QED
        BY <2>1, <3>3, <4>2
    <3>4. CASE ~acLog.overlapped
      BY <2>3, <3>1, <3>2, <3>4 DEF CodesInv, CountsGuesses, GuessesLeft
    <3>5. QED
      BY <3>3, <3>4
  <2>4. QED
    BY <2>2, <2>3
<1>2. CodeLogsInOnce
  <2> SUFFICES ASSUME NEW c \in 1..MaxCodes
               PROVE  acLog.logins[c] <=
                        IF acLog.overlapped THEN Cardinality(AcHandler) ELSE 1
    BY DEF CodeLogsInOnce
  <2>1. Cardinality(AcHandler) \in Nat /\ Cardinality(Presenting(c)) \in Nat
    BY PresentingIsFew
  <2>2. CASE c \notin Issued
    BY <2>1, <2>2 DEF CodesInv, Unissued
  <2>3. CASE c \in Issued
    <3>1. acLog.logins[c] \in Nat
      BY <2>3, CodeTypes DEF CodesInv
    <3>2. LoginLeft(c)
      BY <2>3 DEF CodesInv, LoginsLeft
    <3>3. acLog.logins[c] <= Cardinality(AcHandler)
      BY <2>1, <3>1, <3>2 DEF LoginLeft
    <3>4. ~acLog.overlapped => acLog.logins[c] <= 1
      BY <2>3 DEF CodesInv, CountsGuesses
    <3>5. QED
      BY <3>3, <3>4
  <2>4. QED
    BY <2>2, <2>3
<1>3. LockoutBounds
  <2> SUFFICES ASSUME ~acLog.parallel, ~acLog.overlapped
               PROVE  Cardinality({c \in Issued : /\ codes[c].age # "past"
                                                  /\ codes[c].attempts = MaxAttempts})
                        <= LockoutThreshold
    BY DEF LockoutBounds, Issued
  <2> DEFINE exhausted ==
        {c \in Issued : codes[c].age # "past" /\ codes[c].attempts = MaxAttempts}
  <2>1. exhausted \subseteq Spent
    BY CodeTypes DEF Spent, CodesInv
  <2> HIDE DEF exhausted
  <2>2. Cardinality(exhausted) <= Cardinality(Spent) /\ Cardinality(exhausted) \in Nat
        /\ Cardinality(Spent) \in Nat
    BY <2>1, SpentIsFinite, FS_Subset, FS_CardinalityType DEF CodesInv
  <2>3. Cardinality(Spent) <= LockoutThreshold
    BY DEF CodesInv, OneLive
  <2>4. Cardinality(exhausted) <= LockoutThreshold
    BY <2>2, <2>3, AccountsAssumption
  <2>5. QED
    BY <2>4 DEF exhausted
<1>4. QED
  BY <1>1, <1>2, <1>3 DEF CodesHold

\* Whatever the two replicas do at the same time, a code is good for no more than
\* MaxAttempts (MaxAttempts + 3) / 2 wrong guesses and for two logins; while requests come one
\* at a time, for MaxAttempts guesses and for one login, and whoever exhausts one code before
\* asking for the next exhausts no more than the lockout allows.
THEOREM CodesAreBounded ==
  ASSUME NEW r1, NEW r2, AcHandler \subseteq {r1, r2}
  PROVE  AcSpec => []CodesHold
<1>1. TwoHandlers
  BY DEF TwoHandlers
<1>2. IsFiniteSet(AcHandler)
  <2>1. IsFiniteSet({r1} \cup {r2})
    BY FS_Singleton, FS_Union
  <2>2. AcHandler \subseteq {r1} \cup {r2}
    OBVIOUS
  <2>3. QED
    BY <2>1, <2>2, FS_Subset
<1>3. CodesInv /\ [AcNext]_acVars => CodesInv'
  BY <1>1, <1>2, CodesStep
<1>4. CodesInv => CodesHold
  BY <1>2, CodesSuffice
<1>5. QED
  BY <1>3, <1>4, CodesInit, PTL DEF AcSpec

-----------------------------------------------------------------------------
(***************************************************************************)
(* Messaging. The limits and the record are counted: the rows together     *)
(* with the requests that are about to write one (MmsCounted,              *)
(* ReachedCounted). That messages about an app keep within the limit needs *)
(* that a request which writes to several people has room for all of them, *)
(* and that it is the only one (RoomToShare, OneRequest); that they reach  *)
(* only people in the list needs that whoever is still to be written to    *)
(* was in it when the request began (RecipientsAreLive). How many messages *)
(* and rows there can be rests on a request writing to nobody twice: what  *)
(* it has sent or logged is counted with what it has yet to (MsBounds).    *)
(***************************************************************************)
MsTask == [op : {"idle", "sms", "mms", "share"},
           phase : {"none", "judge", "send", "reached", "refused"}, left : SUBSET MsPerson]
Rows == [sent : Nat, failed : Nat]

\* The types; how many rows there can be is said by MsBounds.
MsTypes ==
  /\ granted \in [MsPerson -> {"no", "live", "revoked"}]
  /\ smsRows \in Rows /\ mmsRows \in Rows
  /\ msTasks \in [MsHandler -> MsTask]
  /\ msLog = [requests |-> msLog.requests, regrants |-> msLog.regrants, faults |-> msLog.faults,
              overlapped |-> msLog.overlapped, direct |-> msLog.direct,
              regranted |-> msLog.regranted, reached |-> msLog.reached,
              strayed |-> msLog.strayed]
  /\ msLog.requests \in Nat /\ msLog.regrants \in Nat /\ msLog.faults \in Nat
  /\ msLog.overlapped \in BOOLEAN /\ msLog.direct \in BOOLEAN /\ msLog.regranted \in BOOLEAN
  /\ msLog.reached \in Nat /\ msLog.strayed \in Nat

\* What is known of a request from where it is.
Sensible(t) ==
  /\ t.op = "idle" <=> t.phase = "none"
  /\ t.op = "mms" => t.left = {} /\ t.phase # "judge"
  /\ t.op = "sms" => t.left = {} /\ t.phase # "judge"

TasksSensible == \A h \in MsHandler : Sensible(msTasks[h])

\* Requests that send an MMS, and those whose message has reached somebody.
Sending(f) == {h \in MsHandler : f[h].op = "mms"}
Reaching(f) == {h \in MsHandler : f[h].phase = "reached"}

\* Each MMS under way has passed the limit before.
MmsCounted ==
  Logged(mmsRows) + Cardinality(Sending(msTasks)) <= DailyLimit + Cardinality(MsHandler) - 1

ReachedCounted ==
  /\ msLog.reached <= Logged(smsRows) + Logged(mmsRows) + Cardinality(Reaching(msTasks))
                        + msLog.faults
  /\ smsRows.sent + mmsRows.sent + Cardinality(Reaching(msTasks)) <= msLog.reached

OneRequest == \A g, h \in MsHandler : msTasks[g].op # "idle" /\ msTasks[h].op # "idle" => g = h

\* A request that shares has room for all that it still has to write.
RoomToShare ==
  /\ Logged(smsRows) <= DailyLimit
  /\ \A h \in MsHandler :
       LET t == msTasks[h] IN
       /\ t.op # "sms"
       /\ t.op = "share" /\ t.phase = "send"
            => Logged(smsRows) + Cardinality(t.left) <= DailyLimit
       /\ t.op = "share" /\ t.phase \in {"reached", "refused"}
            => Logged(smsRows) + Cardinality(t.left) + 1 <= DailyLimit

RecipientsAreLive ==
  /\ msLog.strayed = 0
  /\ \A h \in MsHandler : msTasks[h].op = "share" => msTasks[h].left \subseteq ShareRecipients

MsInv ==
  /\ MsTypes /\ TasksSensible /\ MmsCounted /\ ReachedCounted
  /\ ~msLog.overlapped => OneRequest
  /\ ~msLog.overlapped /\ ~msLog.direct => RoomToShare
  /\ ~msLog.regranted => RecipientsAreLive

-----------------------------------------------------------------------------
(* Helpers *)

\* What the size of a set does when one element comes or goes.
LEMMA OneComesOrGoes ==
  ASSUME NEW S, NEW T, NEW h, IsFiniteSet(S), \A k : k # h => (k \in S <=> k \in T)
  PROVE  /\ IsFiniteSet(T) /\ Cardinality(S) \in Nat /\ Cardinality(T) \in Nat
         /\ h \in S /\ h \notin T => Cardinality(S) = Cardinality(T) + 1
         /\ h \notin S /\ h \in T => Cardinality(T) = Cardinality(S) + 1
         /\ (h \in S <=> h \in T) => Cardinality(T) = Cardinality(S)
<1>1. CASE h \in S /\ h \in T
  <2>1. S = T
    BY <1>1
  <2>2. QED
    BY <2>1, <1>1, FS_CardinalityType
<1>2. CASE h \notin S /\ h \notin T
  <2>1. S = T
    BY <1>2
  <2>2. QED
    BY <2>1, <1>2, FS_CardinalityType
<1>3. CASE h \in S /\ h \notin T
  <2>1. T = S \ {h}
    BY <1>3
  <2>2. /\ IsFiniteSet(S \ {h})
        /\ Cardinality(S \ {h}) = IF h \in S THEN Cardinality(S) - 1 ELSE Cardinality(S)
    BY FS_RemoveElement
  <2>3. Cardinality(S) \in Nat /\ Cardinality(T) \in Nat
    BY <2>1, <2>2, FS_CardinalityType
  <2>4. QED
    BY <1>3, <2>1, <2>2, <2>3
<1>4. CASE h \notin S /\ h \in T
  <2>1. T = S \cup {h}
    BY <1>4
  <2>2. /\ IsFiniteSet(S \cup {h})
        /\ Cardinality(S \cup {h}) = IF h \in S THEN Cardinality(S) ELSE Cardinality(S) + 1
    BY FS_AddElement
  <2>3. Cardinality(S) \in Nat /\ Cardinality(T) \in Nat
    BY <2>1, <2>2, FS_CardinalityType
  <2>4. QED
    BY <1>4, <2>1, <2>2, <2>3
<1>5. QED
  BY <1>1, <1>2, <1>3, <1>4

\* A request at rest.
LEMMA MsResting ==
  MsRest \in MsTask /\ Sensible(MsRest) /\ MsRest.op = "idle" /\ MsRest.phase = "none"
BY DEF MsRest, MsTask, Sensible

\* What one request turns into.
LEMMA MsTurns ==
  ASSUME NEW f \in [MsHandler -> MsTask], NEW h \in MsHandler, NEW t \in MsTask
  PROVE  /\ [f EXCEPT ![h] = t] \in [MsHandler -> MsTask]
         /\ [f EXCEPT ![h] = t][h] = t
         /\ \A k \in MsHandler \ {h} : [f EXCEPT ![h] = t][k] = f[k]
OBVIOUS

\* A request that shares, with the recipients that are left and what comes next.
LEMMA Shortened ==
  ASSUME NEW v \in MsTask, NEW rest, NEW next
  PROVE  [v EXCEPT !.phase = next, !.left = rest] = [op |-> v.op, phase |-> next, left |-> rest]
<1> DEFINE w == [op |-> v.op, phase |-> next, left |-> rest]
           u == [v EXCEPT !.phase = next, !.left = rest]
<1>1. DOMAIN u = {"op", "phase", "left"} /\ DOMAIN w = {"op", "phase", "left"}
  BY DEF MsTask
<1>2. u["op"] = w["op"] /\ u["phase"] = w["phase"] /\ u["left"] = w["left"]
  BY DEF MsTask
<1>3. u = [x \in {"op", "phase", "left"} |-> u[x]] /\ w = [x \in {"op", "phase", "left"} |-> w[x]]
  BY <1>1, Zenon
<1> HIDE DEF u, w
<1>4. u = w
  BY <1>2, <1>3
<1>5. QED
  BY <1>4 DEF u, w

\* How many send an MMS, or have reached somebody, when one request moves.
LEMMA MsMoves ==
  ASSUME NEW f, NEW g, NEW h \in MsHandler, \A k \in MsHandler \ {h} : g[k] = f[k]
  PROVE  /\ Cardinality(Sending(f)) \in Nat /\ Cardinality(Sending(g)) \in Nat
         /\ Cardinality(Reaching(f)) \in Nat /\ Cardinality(Reaching(g)) \in Nat
         /\ f[h].op = "mms" /\ g[h].op # "mms"
              => Cardinality(Sending(f)) = Cardinality(Sending(g)) + 1
         /\ f[h].op # "mms" /\ g[h].op = "mms"
              => Cardinality(Sending(g)) = Cardinality(Sending(f)) + 1
         /\ (f[h].op = "mms" <=> g[h].op = "mms")
              => Cardinality(Sending(g)) = Cardinality(Sending(f))
         /\ f[h].phase = "reached" /\ g[h].phase # "reached"
              => Cardinality(Reaching(f)) = Cardinality(Reaching(g)) + 1
         /\ f[h].phase # "reached" /\ g[h].phase = "reached"
              => Cardinality(Reaching(g)) = Cardinality(Reaching(f)) + 1
         /\ (f[h].phase = "reached" <=> g[h].phase = "reached")
              => Cardinality(Reaching(g)) = Cardinality(Reaching(f))
<1> DEFINE S == Sending(f)  T == Sending(g)  U == Reaching(f)  V == Reaching(g)
<1>2. /\ \A k : k # h => (k \in S <=> k \in T)
      /\ h \in S <=> f[h].op = "mms"
      /\ h \in T <=> g[h].op = "mms"
  BY DEF Sending
<1>3. /\ \A k : k # h => (k \in U <=> k \in V)
      /\ h \in U <=> f[h].phase = "reached"
      /\ h \in V <=> g[h].phase = "reached"
  BY DEF Reaching
<1>4. IsFiniteSet(S) /\ IsFiniteSet(U)
  BY FS_Subset, MessagingAssumption DEF Sending, Reaching
<1> HIDE DEF S, T, U, V
<1>5. /\ IsFiniteSet(T) /\ Cardinality(S) \in Nat /\ Cardinality(T) \in Nat
      /\ h \in S /\ h \notin T => Cardinality(S) = Cardinality(T) + 1
      /\ h \notin S /\ h \in T => Cardinality(T) = Cardinality(S) + 1
      /\ (h \in S <=> h \in T) => Cardinality(T) = Cardinality(S)
  BY <1>2, <1>4, OneComesOrGoes
<1>6. /\ IsFiniteSet(V) /\ Cardinality(U) \in Nat /\ Cardinality(V) \in Nat
      /\ h \in U /\ h \notin V => Cardinality(U) = Cardinality(V) + 1
      /\ h \notin U /\ h \in V => Cardinality(V) = Cardinality(U) + 1
      /\ (h \in U <=> h \in V) => Cardinality(V) = Cardinality(U)
  BY <1>3, <1>4, OneComesOrGoes
<1>7. QED
  BY <1>2, <1>3, <1>5, <1>6 DEF S, T, U, V

\* A request at rest leaves place for no more than all the others.
LEMMA OthersSend ==
  ASSUME NEW f \in [MsHandler -> MsTask], NEW h \in MsHandler, f[h].op = "idle"
  PROVE  /\ Cardinality(MsHandler) \in Nat \ {0} /\ Cardinality(Sending(f)) \in Nat
         /\ Cardinality(Sending(f)) + 1 <= Cardinality(MsHandler)
<1> DEFINE S == Sending(f)  R == MsHandler \ {h}
<1>1. S \subseteq R
  BY DEF Sending
<1> HIDE DEF S
<1>2. IsFiniteSet(R) /\ Cardinality(R) = Cardinality(MsHandler) - 1
  BY FS_RemoveElement, MessagingAssumption
<1>3. Cardinality(MsHandler) \in Nat /\ Cardinality(R) \in Nat
  BY <1>2, FS_CardinalityType, MessagingAssumption
<1> HIDE DEF R
<1>4. Cardinality(S) \in Nat /\ Cardinality(S) <= Cardinality(R)
  BY <1>1, <1>2, FS_Subset, FS_CardinalityType
<1>5. QED
  BY <1>2, <1>3, <1>4 DEF S

\* Of finitely many people, fewer are a smaller number.
LEMMA FewerPeople ==
  ASSUME NEW S \in SUBSET MsPerson, NEW T \in SUBSET S
  PROVE  /\ Cardinality(S) \in Nat /\ Cardinality(T) \in Nat
         /\ Cardinality(T) <= Cardinality(S)
<1>1. IsFiniteSet(S)
  BY FS_Subset, MessagingAssumption
<1>2. QED
  BY <1>1, FS_Subset, FS_CardinalityType

\* One person fewer.
LEMMA OneFewer ==
  ASSUME NEW S \in SUBSET MsPerson, NEW p \in S
  PROVE  /\ Cardinality(S) \in Nat /\ Cardinality(S \ {p}) \in Nat
         /\ Cardinality(S \ {p}) + 1 = Cardinality(S)
<1>1. IsFiniteSet(S)
  BY FS_Subset, MessagingAssumption
<1>2. IsFiniteSet(S \ {p}) /\ Cardinality(S \ {p}) = Cardinality(S) - 1
  BY <1>1, FS_RemoveElement
<1>3. QED
  BY <1>1, <1>2, FS_CardinalityType

-----------------------------------------------------------------------------
(* The steps *)

\* At first nothing is sent.
LEMMA MsInitInv == MsInit => MsInv
<1> SUFFICES ASSUME MsInit PROVE MsInv
  OBVIOUS
<1>1. msTasks \in [MsHandler -> MsTask] /\ \A h \in MsHandler : msTasks[h] = MsRest
  BY MsResting DEF MsInit
<1>2. smsRows \in Rows /\ mmsRows \in Rows /\ Logged(smsRows) = 0 /\ Logged(mmsRows) = 0
      /\ smsRows.sent = 0 /\ mmsRows.sent = 0
  BY DEF MsInit, NoRows, Rows, Logged
<1>3. MsTypes
  BY <1>1, <1>2 DEF MsInit, MsTypes
<1>4. TasksSensible
  BY <1>1, MsResting DEF TasksSensible
<1>5. Sending(msTasks) = {} /\ Reaching(msTasks) = {}
  BY <1>1, MsResting DEF Sending, Reaching
<1>6. Cardinality({}) = 0 /\ Cardinality(MsHandler) \in Nat /\ Cardinality(MsHandler) # 0
  BY FS_EmptySet, FS_CardinalityType, MessagingAssumption
<1>7. MmsCounted
  BY <1>2, <1>5, <1>6, MessagingAssumption DEF MmsCounted
<1>8. ReachedCounted
  BY <1>2, <1>5, <1>6 DEF ReachedCounted, MsInit
<1>9. OneRequest /\ RecipientsAreLive
  BY <1>1, MsResting DEF OneRequest, RecipientsAreLive, MsInit
<1>10. RoomToShare
  BY <1>1, <1>2, MsResting, MessagingAssumption DEF RoomToShare
<1>11. QED
  BY <1>3, <1>4, <1>7, <1>8, <1>9, <1>10 DEF MsInv

\* The list changes: while a request is under way this is noted.
LEMMA MsListChanges ==
  ASSUME MsInv, NEW p \in MsPerson, ChangeList(p)
  PROVE  MsInv'
<1> DEFINE b == msLog.regranted \/ ~MsQuiet
<1>1. b \in BOOLEAN
  BY DEF MsInv, MsTypes
<1>2. b = FALSE => msLog.regranted = FALSE /\ \A h \in MsHandler : msTasks[h].op = "idle"
  BY DEF MsQuiet, MsInv, MsTypes
<1>3. msLog' = [requests |-> msLog.requests, regrants |-> msLog.regrants + 1,
                faults |-> msLog.faults, overlapped |-> msLog.overlapped,
                direct |-> msLog.direct, regranted |-> b, reached |-> msLog.reached,
                strayed |-> msLog.strayed]
  <2>1. msLog' = [msLog EXCEPT !.regrants = @ + 1, !.regranted = b]
    BY DEF ChangeList
  <2> HIDE DEF b
  <2>2. QED
    BY <2>1 DEF MsInv, MsTypes
<1> HIDE DEF b
<1>4. /\ msLog'.requests = msLog.requests /\ msLog'.regrants = msLog.regrants + 1
      /\ msLog'.faults = msLog.faults /\ msLog'.overlapped = msLog.overlapped
      /\ msLog'.direct = msLog.direct /\ msLog'.regranted = b
      /\ msLog'.reached = msLog.reached /\ msLog'.strayed = msLog.strayed
  BY <1>3
<1>5. UNCHANGED <<smsRows, mmsRows, msTasks>>
  BY DEF ChangeList
<1>6. granted' \in [MsPerson -> {"no", "live", "revoked"}]
  BY DEF MsInv, MsTypes, ChangeList
<1>7. MsTypes'
  BY <1>1, <1>3, <1>4, <1>5, <1>6 DEF MsInv, MsTypes
<1>8. TasksSensible' /\ MmsCounted' /\ ReachedCounted'
  BY <1>4, <1>5 DEF MsInv, TasksSensible, MmsCounted, ReachedCounted
<1>9. /\ ~msLog'.overlapped => OneRequest'
      /\ ~msLog'.overlapped /\ ~msLog'.direct => RoomToShare'
  BY <1>4, <1>5 DEF MsInv, OneRequest, RoomToShare
<1>10. ASSUME ~msLog'.regranted PROVE RecipientsAreLive'
  <2>1. RecipientsAreLive /\ \A h \in MsHandler : msTasks[h].op = "idle"
    BY <1>10, <1>2, <1>4 DEF MsInv
  <2>2. QED
    BY <2>1, <1>4, <1>5 DEF RecipientsAreLive
<1>11. QED
  BY <1>7, <1>8, <1>9, <1>10 DEF MsInv

\* A request begins: an MMS has passed the limit, and one that shares names live recipients.
LEMMA MsStarts ==
  ASSUME MsInv, NEW h \in MsHandler, NEW t \in MsTask, Sensible(t), StartRequest(h, t),
         t.phase # "reached", t.op # "idle",
         t.op = "mms" => Logged(mmsRows) < DailyLimit,
         t.op = "share" => t.phase = "judge" /\ t.left \subseteq ShareRecipients
  PROVE  MsInv'
<1> DEFINE b == msLog.overlapped \/ ~MsQuiet
           d == msLog.direct \/ t.op = "sms"
<1>1. b \in BOOLEAN /\ d \in BOOLEAN
  BY DEF MsInv, MsTypes
<1>2. /\ b = FALSE => msLog.overlapped = FALSE /\ \A k \in MsHandler : msTasks[k].op = "idle"
      /\ d = FALSE => msLog.direct = FALSE /\ t.op # "sms"
  BY DEF MsQuiet, MsInv, MsTypes
<1>3. msLog' = [requests |-> msLog.requests + 1, regrants |-> msLog.regrants,
                faults |-> msLog.faults, overlapped |-> b, direct |-> d,
                regranted |-> msLog.regranted, reached |-> msLog.reached,
                strayed |-> msLog.strayed]
  <2>1. msLog' = [msLog EXCEPT !.requests = @ + 1, !.overlapped = b, !.direct = d]
    BY DEF StartRequest
  <2> HIDE DEF b, d
  <2>2. QED
    BY <2>1 DEF MsInv, MsTypes
<1> HIDE DEF b, d
<1>4. /\ msLog'.requests = msLog.requests + 1 /\ msLog'.regrants = msLog.regrants
      /\ msLog'.faults = msLog.faults /\ msLog'.overlapped = b
      /\ msLog'.direct = d /\ msLog'.regranted = msLog.regranted
      /\ msLog'.reached = msLog.reached /\ msLog'.strayed = msLog.strayed
  BY <1>3
<1>5. /\ UNCHANGED <<granted, smsRows, mmsRows>>
      /\ msTasks[h].op = "idle" /\ msTasks' = [msTasks EXCEPT ![h] = t]
  BY DEF StartRequest
<1>6. msTasks[h].phase = "none"
  BY <1>5 DEF MsInv, TasksSensible, Sensible
<1>7. /\ msTasks' \in [MsHandler -> MsTask] /\ msTasks'[h] = t
      /\ \A k \in MsHandler \ {h} : msTasks'[k] = msTasks[k]
      /\ Cardinality(Sending(msTasks)) \in Nat /\ Cardinality(Sending(msTasks')) \in Nat
      /\ t.op = "mms" => Cardinality(Sending(msTasks')) = Cardinality(Sending(msTasks)) + 1
      /\ t.op # "mms" => Cardinality(Sending(msTasks')) = Cardinality(Sending(msTasks))
      /\ Cardinality(Reaching(msTasks')) = Cardinality(Reaching(msTasks))
  <2>1. /\ msTasks' \in [MsHandler -> MsTask] /\ msTasks'[h] = t
        /\ \A k \in MsHandler \ {h} : msTasks'[k] = msTasks[k]
    BY <1>5, MsTurns DEF MsInv, MsTypes
  <2>2. QED
    BY <2>1, <1>5, <1>6, MsMoves
<1>8. MsTypes'
  BY <1>1, <1>3, <1>4, <1>5, <1>7 DEF MsInv, MsTypes
<1>9. TasksSensible'
  BY <1>7 DEF MsInv, TasksSensible
<1>10. MmsCounted'
  <2>1. CASE t.op # "mms"
    BY <2>1, <1>5, <1>7 DEF MsInv, MmsCounted
  <2>2. CASE t.op = "mms"
    <3>1. Logged(mmsRows) < DailyLimit /\ Logged(mmsRows) \in Nat
      BY <2>2 DEF MsInv, MsTypes, Rows, Logged
    <3>2. /\ Cardinality(MsHandler) \in Nat
          /\ Cardinality(Sending(msTasks)) + 1 <= Cardinality(MsHandler)
      BY <1>5, OthersSend DEF MsInv, MsTypes
    <3>3. QED
      BY <2>2, <3>1, <3>2, <1>5, <1>7, MessagingAssumption DEF MmsCounted
  <2>3. QED
    BY <2>1, <2>2
<1>11. ReachedCounted'
  BY <1>4, <1>5, <1>7 DEF MsInv, ReachedCounted
<1>12. ASSUME ~msLog'.overlapped
       PROVE  OneRequest' /\ (~msLog'.direct => RoomToShare')
  <2>1. ~msLog.overlapped /\ \A k \in MsHandler : msTasks[k].op = "idle"
    BY <1>12, <1>2, <1>4
  <2>2. \A k \in MsHandler \ {h} : msTasks'[k].op = "idle"
    BY <2>1, <1>7
  <2>3. OneRequest'
    BY <2>2 DEF OneRequest
  <2>4. ASSUME ~msLog'.direct PROVE RoomToShare'
    <3>1. t.op # "sms" /\ RoomToShare
      BY <2>1, <2>4, <1>2, <1>4 DEF MsInv
    <3>2. QED
      BY <3>1, <2>2, <1>5, <1>7 DEF RoomToShare
  <2>5. QED
    BY <2>3, <2>4
<1>13. ASSUME ~msLog'.regranted PROVE RecipientsAreLive'
  <2>1. RecipientsAreLive
    BY <1>13, <1>4 DEF MsInv
  <2>2. ShareRecipients' = ShareRecipients
    BY <1>5 DEF ShareRecipients
  <2>3. QED
    BY <2>1, <2>2, <1>4, <1>7 DEF RecipientsAreLive
<1>14. QED
  BY <1>8, <1>9, <1>10, <1>11, <1>12, <1>13 DEF MsInv

\* A request goes on, or ends, without a word to anybody.
LEMMA MsGoesOn ==
  ASSUME MsInv, NEW h \in MsHandler, NEW t \in MsTask, Sensible(t),
         msTasks' = [msTasks EXCEPT ![h] = t], UNCHANGED <<granted, smsRows, mmsRows>>,
         t.op = "idle" \/ (t.op = "share" /\ msTasks[h].op = "share"),
         t.op = "share" => t.phase = "send" /\ t.left \subseteq msTasks[h].left,
         t.op = "share" /\ RoomToShare => Logged(smsRows) + Cardinality(t.left) <= DailyLimit,
         \/ msTasks[h].phase # "reached" /\ msLog' = msLog
         \/ msLog' = [msLog EXCEPT !.faults = @ + 1]
  PROVE  MsInv'
<1>1. PICK m \in Nat :
        /\ msLog' = [requests |-> msLog.requests, regrants |-> msLog.regrants,
                     faults |-> m, overlapped |-> msLog.overlapped, direct |-> msLog.direct,
                     regranted |-> msLog.regranted, reached |-> msLog.reached,
                     strayed |-> msLog.strayed]
        /\ \/ m = msLog.faults /\ msTasks[h].phase # "reached"
           \/ m = msLog.faults + 1
  BY DEF MsInv, MsTypes
<1>2. /\ msLog'.requests = msLog.requests /\ msLog'.regrants = msLog.regrants
      /\ msLog'.faults = m /\ msLog'.overlapped = msLog.overlapped
      /\ msLog'.direct = msLog.direct /\ msLog'.regranted = msLog.regranted
      /\ msLog'.reached = msLog.reached /\ msLog'.strayed = msLog.strayed
  BY <1>1
<1>3. /\ msTasks' \in [MsHandler -> MsTask] /\ msTasks'[h] = t
      /\ \A k \in MsHandler \ {h} : msTasks'[k] = msTasks[k]
  BY MsTurns DEF MsInv, MsTypes
<1>4. t.phase # "reached" /\ t.op # "mms"
  BY DEF Sensible
<1>5. MsTypes'
  BY <1>1, <1>2, <1>3 DEF MsInv, MsTypes
<1>6. TasksSensible'
  BY <1>3 DEF MsInv, TasksSensible
<1>7. /\ Cardinality(Sending(msTasks)) \in Nat /\ Cardinality(Sending(msTasks')) \in Nat
      /\ Cardinality(Reaching(msTasks)) \in Nat /\ Cardinality(Reaching(msTasks')) \in Nat
      /\ Cardinality(Sending(msTasks')) <= Cardinality(Sending(msTasks))
      /\ Cardinality(Reaching(msTasks')) <= Cardinality(Reaching(msTasks))
      /\ \/ Cardinality(Reaching(msTasks)) = Cardinality(Reaching(msTasks')) + 1
         \/ Cardinality(Reaching(msTasks)) = Cardinality(Reaching(msTasks'))
      /\ msTasks[h].phase # "reached"
           => Cardinality(Reaching(msTasks)) = Cardinality(Reaching(msTasks'))
  <2> DEFINE f == msTasks  g == msTasks'
  <2>1. /\ Cardinality(Sending(f)) \in Nat /\ Cardinality(Sending(g)) \in Nat
        /\ Cardinality(Reaching(f)) \in Nat /\ Cardinality(Reaching(g)) \in Nat
        /\ \/ Cardinality(Sending(f)) = Cardinality(Sending(g)) + 1
           \/ Cardinality(Sending(g)) = Cardinality(Sending(f))
        /\ \/ Cardinality(Reaching(f)) = Cardinality(Reaching(g)) + 1
           \/ Cardinality(Reaching(g)) = Cardinality(Reaching(f))
        /\ f[h].phase # "reached" => Cardinality(Reaching(g)) = Cardinality(Reaching(f))
    BY <1>3, <1>4, MsMoves
  <2> HIDE DEF f, g
  <2>2. QED
    BY <2>1 DEF f, g
<1>8. MmsCounted'
  <2>1. Cardinality(MsHandler) \in Nat /\ Logged(mmsRows) \in Nat
    BY FS_CardinalityType, MessagingAssumption DEF MsInv, MsTypes, Rows, Logged
  <2>2. QED
    BY <2>1, <1>7, MessagingAssumption DEF MsInv, MmsCounted
<1>9. ReachedCounted'
  <2>1. /\ Logged(smsRows) \in Nat /\ Logged(mmsRows) \in Nat /\ smsRows.sent \in Nat
        /\ mmsRows.sent \in Nat /\ msLog.faults \in Nat /\ msLog.reached \in Nat
    BY DEF MsInv, MsTypes, Rows, Logged
  <2>2. QED
    BY <2>1, <1>1, <1>2, <1>7 DEF MsInv, ReachedCounted
<1>10. ASSUME ~msLog'.overlapped PROVE OneRequest'
  BY <1>10, <1>2, <1>3 DEF MsInv, OneRequest
<1>11. ASSUME ~msLog'.overlapped, ~msLog'.direct PROVE RoomToShare'
  <2>1. RoomToShare
    BY <1>11, <1>2 DEF MsInv
  <2>2. QED
    BY <2>1, <1>3, <1>4 DEF RoomToShare
<1>12. ASSUME ~msLog'.regranted PROVE RecipientsAreLive'
  <2>1. RecipientsAreLive /\ ShareRecipients' = ShareRecipients
    BY <1>12, <1>2 DEF MsInv, ShareRecipients
  <2>2. QED
    BY <2>1, <1>2, <1>3 DEF RecipientsAreLive
<1>13. QED
  BY <1>5, <1>6, <1>8, <1>9, <1>10, <1>11, <1>12 DEF MsInv

\* An objection ends the request.
LEMMA Objects ==
  ASSUME MsInv, NEW h \in MsHandler, Object(h)
  PROVE  MsInv'
<1>1. /\ msTasks[h].phase # "reached" /\ msTasks' = [msTasks EXCEPT ![h] = MsRest]
      /\ UNCHANGED <<granted, smsRows, mmsRows>> /\ msLog' = msLog
  BY DEF Object
<1>2. QED
  BY <1>1, MsResting, MsGoesOn

\* A text that passes leaves as many recipients as there is room for.
LEMMA Passes ==
  ASSUME MsInv, NEW h \in MsHandler, Pass(h)
  PROVE  MsInv'
<1>1. PICK chosen \in SUBSET msTasks[h].left :
        /\ Chosen(msTasks[h].left, chosen)
        /\ msTasks' = [msTasks EXCEPT ![h] =
             IF chosen \subseteq MsPhoneless THEN MsRest
             ELSE [@ EXCEPT !.phase = "send", !.left = chosen \ MsPhoneless]]
  BY DEF Pass
<1>2. msLog' = msLog /\ UNCHANGED <<granted, smsRows, mmsRows>>
  BY DEF Pass
<1>3. msTasks[h] \in MsTask /\ msTasks[h].phase = "judge" /\ msTasks[h].op = "share"
  BY DEF MsInv, MsTypes, TasksSensible, Sensible, Pass, MsTask
<1>4. CASE chosen \subseteq MsPhoneless
  <2>1. msTasks' = [msTasks EXCEPT ![h] = MsRest]
    BY <1>1, <1>4
  <2>2. QED
    BY <2>1, <1>2, <1>3, MsResting, MsGoesOn
<1>5. CASE ~(chosen \subseteq MsPhoneless)
  <2> DEFINE rest == chosen \ MsPhoneless
             t == [op |-> "share", phase |-> "send", left |-> rest]
  <2>1. rest \subseteq msTasks[h].left /\ rest \subseteq MsPerson
        /\ chosen \subseteq MsPerson /\ rest \subseteq chosen
    BY <1>3 DEF MsTask
  <2>2. /\ t \in MsTask /\ Sensible(t) /\ t.op = "share" /\ t.phase = "send" /\ t.left = rest
    BY <2>1 DEF MsTask, Sensible
  <2>3. [msTasks[h] EXCEPT !.phase = "send", !.left = rest] = t
    <3>1. PICK next : next = "send"
      OBVIOUS
    <3> DEFINE v == msTasks[h]
    <3>2. v \in MsTask /\ v.op = "share"
      BY <1>3
    <3> HIDE DEF v, rest
    <3>3. [v EXCEPT !.phase = next, !.left = rest] = [op |-> v.op, phase |-> next, left |-> rest]
      BY <3>2, Shortened
    <3>4. QED
      BY <3>1, <3>2, <3>3 DEF v
  <2>4. msTasks' = [msTasks EXCEPT ![h] = t]
    BY <1>1, <1>5, <2>3
  <2>5. ASSUME RoomToShare PROVE Logged(smsRows) + Cardinality(rest) <= DailyLimit
    <3>1. Logged(smsRows) <= DailyLimit /\ Logged(smsRows) \in Nat
      BY <2>5 DEF RoomToShare, MsInv, MsTypes, Rows, Logged
    <3>2. Cardinality(chosen) \in Nat /\ Cardinality(rest) \in Nat
          /\ Cardinality(rest) <= Cardinality(chosen)
      BY <2>1, FewerPeople
    <3>3. Cardinality(msTasks[h].left) \in Nat
      BY <1>3, FewerPeople DEF MsTask
    <3>4. Cardinality(chosen) <= DailyLimit - Logged(smsRows)
      BY <1>1, <3>1, <3>2, <3>3, MessagingAssumption DEF Chosen
    <3>5. QED
      BY <3>1, <3>2, <3>4, MessagingAssumption
  <2> HIDE DEF t
  <2>6. QED
    BY <2>1, <2>2, <2>4, <2>5, <1>2, <1>3, MsGoesOn
<1>6. QED
  BY <1>4, <1>5

\* An answer that cannot be read, or a dying replica, ends the request and is counted.
LEMMA LeavesUnread ==
  ASSUME MsInv, NEW h \in MsHandler, AnswerUnread(h)
  PROVE  MsInv'
<1>1. /\ msLog' = [msLog EXCEPT !.faults = @ + 1]
      /\ msTasks' = [msTasks EXCEPT ![h] = MsRest]
      /\ UNCHANGED <<granted, smsRows, mmsRows>>
  BY DEF AnswerUnread
<1>2. QED
  BY <1>1, MsResting, MsGoesOn

\* A message goes to the provider: those that reach somebody wait for their row, and the
\* recipient is one of those that the list named.
LEMMA Submits ==
  ASSUME MsInv, NEW h \in MsHandler, Submit(h)
  PROVE  MsInv'
<1> DEFINE v == msTasks[h]
<1>1. PICK reaches \in BOOLEAN, p \in (IF v.op = "share" THEN v.left ELSE MsPerson) :
       /\ msTasks' = [msTasks EXCEPT ![h].phase = IF reaches THEN "reached" ELSE "refused",
                                     ![h].left = @ \ {p}]
       /\ msLog' = [msLog EXCEPT
            !.reached = IF reaches THEN @ + 1 ELSE @,
            !.strayed = IF reaches /\ v.op = "share" /\ granted[p] # "live" THEN @ + 1 ELSE @]
  BY DEF Submit
<1>2. v \in MsTask /\ v.phase = "send" /\ v.op \in {"sms", "mms", "share"} /\ Sensible(v)
  BY DEF MsInv, MsTypes, TasksSensible, Sensible, Submit, MsTask
<1>3. UNCHANGED <<granted, smsRows, mmsRows>>
  BY DEF Submit
<1>4. PICK next \in {"reached", "refused"} : next = IF reaches THEN "reached" ELSE "refused"
  OBVIOUS
<1> DEFINE rest == v.left \ {p}
           t == [op |-> v.op, phase |-> next, left |-> rest]
           r == IF reaches THEN msLog.reached + 1 ELSE msLog.reached
           s == IF reaches /\ v.op = "share" /\ granted[p] # "live"
                THEN msLog.strayed + 1 ELSE msLog.strayed
<1>5. /\ t \in MsTask /\ t.op = v.op /\ t.phase = next /\ t.left = rest
      /\ rest \subseteq v.left /\ v.left \subseteq MsPerson /\ Sensible(t)
  BY <1>2 DEF MsTask, Sensible
<1>6. msTasks' = [msTasks EXCEPT ![h] = t]
  <2>1. msTasks' = [msTasks EXCEPT ![h] = [msTasks[h] EXCEPT !.phase = next, !.left = rest]]
    BY <1>1, <1>4 DEF MsInv, MsTypes
  <2>2. [msTasks[h] EXCEPT !.phase = next, !.left = rest] = t
    <3>1. v \in MsTask
      BY <1>2
    <3>2. v = msTasks[h]
      OBVIOUS
    <3> HIDE DEF rest, v
    <3>3. [v EXCEPT !.phase = next, !.left = rest] = [op |-> v.op, phase |-> next, left |-> rest]
      BY <3>1, Shortened, Zenon
    <3>4. QED
      BY <3>2, <3>3, Zenon
  <2>3. QED
    BY <2>1, <2>2
<1>7. msLog' = [requests |-> msLog.requests, regrants |-> msLog.regrants,
                faults |-> msLog.faults, overlapped |-> msLog.overlapped,
                direct |-> msLog.direct, regranted |-> msLog.regranted, reached |-> r,
                strayed |-> s]
  <2>1. msLog' = [msLog EXCEPT !.reached = r, !.strayed = s]
    BY <1>1
  <2> HIDE DEF r, s
  <2>2. QED
    BY <2>1 DEF MsInv, MsTypes
<1>8. /\ r \in Nat /\ s \in Nat
      /\ next = "reached" => r = msLog.reached + 1
      /\ next # "reached" => r = msLog.reached
      /\ ~(v.op = "share" /\ granted[p] # "live") => s = msLog.strayed
  BY <1>4 DEF MsInv, MsTypes
<1> HIDE DEF t, r, s, rest
<1>9. /\ msLog'.requests = msLog.requests /\ msLog'.regrants = msLog.regrants
      /\ msLog'.faults = msLog.faults /\ msLog'.overlapped = msLog.overlapped
      /\ msLog'.direct = msLog.direct /\ msLog'.regranted = msLog.regranted
      /\ msLog'.reached = r /\ msLog'.strayed = s
  BY <1>7
<1>10. /\ msTasks' \in [MsHandler -> MsTask] /\ msTasks'[h] = t
       /\ \A k \in MsHandler \ {h} : msTasks'[k] = msTasks[k]
  BY <1>5, <1>6, MsTurns DEF MsInv, MsTypes
<1>11. MsTypes'
  BY <1>3, <1>7, <1>8, <1>9, <1>10 DEF MsInv, MsTypes
<1>12. TasksSensible'
  BY <1>5, <1>10 DEF MsInv, TasksSensible
<1>13. /\ Cardinality(Sending(msTasks')) = Cardinality(Sending(msTasks))
       /\ Cardinality(Reaching(msTasks)) \in Nat
       /\ next = "reached"
            => Cardinality(Reaching(msTasks')) = Cardinality(Reaching(msTasks)) + 1
       /\ next # "reached"
            => Cardinality(Reaching(msTasks')) = Cardinality(Reaching(msTasks))
  BY <1>2, <1>5, <1>10, MsMoves
<1>14. MmsCounted'
  BY <1>3, <1>13 DEF MsInv, MmsCounted
<1>15. ReachedCounted'
  <2>1. /\ Logged(smsRows) \in Nat /\ Logged(mmsRows) \in Nat /\ smsRows.sent \in Nat
        /\ mmsRows.sent \in Nat /\ msLog.faults \in Nat /\ msLog.reached \in Nat
    BY DEF MsInv, MsTypes, Rows, Logged
  <2>2. QED
    BY <2>1, <1>3, <1>8, <1>9, <1>13 DEF MsInv, ReachedCounted
<1>16. ASSUME ~msLog'.overlapped PROVE OneRequest'
  BY <1>16, <1>2, <1>9, <1>10 DEF MsInv, OneRequest
<1>17. ASSUME ~msLog'.overlapped, ~msLog'.direct PROVE RoomToShare'
  <2>1. RoomToShare
    BY <1>17, <1>9 DEF MsInv
  <2>2. CASE v.op # "share"
    BY <2>1, <2>2, <1>2, <1>3, <1>5, <1>10 DEF RoomToShare
  <2>3. CASE v.op = "share"
    <3>1. Cardinality(rest) + 1 = Cardinality(v.left)
          /\ Cardinality(rest) \in Nat /\ Cardinality(v.left) \in Nat
      BY <2>3, <1>5, OneFewer DEF rest
    <3>2. Logged(smsRows) \in Nat /\ Logged(smsRows) + Cardinality(v.left) <= DailyLimit
      BY <2>1, <2>3, <1>2 DEF RoomToShare, MsInv, MsTypes, Rows, Logged
    <3>3. Logged(smsRows) + Cardinality(rest) + 1 <= DailyLimit
      BY <3>1, <3>2, MessagingAssumption
    <3>4. QED
      BY <3>3, <2>1, <2>3, <1>3, <1>5, <1>10 DEF RoomToShare
  <2>4. QED
    BY <2>2, <2>3
<1>18. ASSUME ~msLog'.regranted PROVE RecipientsAreLive'
  <2>1. RecipientsAreLive /\ ShareRecipients' = ShareRecipients
    BY <1>18, <1>3, <1>9 DEF MsInv, ShareRecipients
  <2>2. ~(v.op = "share" /\ granted[p] # "live")
    BY <2>1 DEF RecipientsAreLive, ShareRecipients
  <2>3. QED
    BY <2>1, <2>2, <1>5, <1>8, <1>9, <1>10 DEF RecipientsAreLive
<1>19. QED
  BY <1>11, <1>12, <1>14, <1>15, <1>16, <1>17, <1>18 DEF MsInv

\* A row more.
LEMMA OneRowMore ==
  ASSUME NEW rows \in Rows, NEW result \in {"sent", "failed"}
  PROVE  /\ [rows EXCEPT ![result] = @ + 1] \in Rows
         /\ Logged([rows EXCEPT ![result] = @ + 1]) = Logged(rows) + 1
         /\ result = "sent" => [rows EXCEPT ![result] = @ + 1].sent = rows.sent + 1
         /\ result = "failed" => [rows EXCEPT ![result] = @ + 1].sent = rows.sent
         /\ Logged(rows) \in Nat /\ rows.sent \in Nat
<1>1. CASE result = "sent"
  BY <1>1 DEF Rows, Logged
<1>2. CASE result = "failed"
  BY <1>2 DEF Rows, Logged
<1>3. QED
  BY <1>1, <1>2

\* An answer is written, and the next recipient's turn comes.
LEMMA Answers ==
  ASSUME MsInv, NEW h \in MsHandler, Answer(h)
  PROVE  MsInv'
<1> DEFINE v == msTasks[h]
<1>1. PICK result \in {"sent", "failed"} :
        WriteRow(h, result) /\ (result = "sent" => v.phase = "reached")
  BY DEF Answer
<1>2. /\ v \in MsTask /\ v.phase \in {"reached", "refused"} /\ v.op \in {"sms", "mms", "share"}
      /\ Sensible(v)
  BY DEF MsInv, MsTypes, TasksSensible, Sensible, Answer, Answering, MsTask
<1>3. UNCHANGED <<granted, msLog>>
  BY DEF Answer
<1>4. PICK t \in MsTask :
        /\ Sensible(t) /\ msTasks' = [msTasks EXCEPT ![h] = t] /\ t.phase # "reached"
        /\ v.left = {} => t.op = "idle"
        /\ v.left # {} => t.op = v.op /\ t.phase = "send" /\ t.left = v.left
  <2>1. CASE v.left = {}
    <3>1. msTasks' = [msTasks EXCEPT ![h] = MsRest]
      BY <2>1 DEF Answer, NextRecipient
    <3>2. QED
      BY <3>1, <2>1, MsResting
  <2>2. CASE v.left # {}
    <3> DEFINE t == [op |-> v.op, phase |-> "send", left |-> v.left]
    <3>1. t \in MsTask /\ Sensible(t) /\ t.op = v.op /\ t.phase = "send" /\ t.left = v.left
      BY <2>2, <1>2 DEF MsTask, Sensible
    <3>2. [v EXCEPT !.phase = "send"] = t
      BY <1>2 DEF MsTask
    <3>3. msTasks' = [msTasks EXCEPT ![h] = [v EXCEPT !.phase = "send"]]
      BY <2>2 DEF Answer, NextRecipient
    <3>4. msTasks' = [msTasks EXCEPT ![h] = t]
      BY <3>2, <3>3
    <3> HIDE DEF t
    <3>5. QED
      BY <3>1, <3>4, <2>2
  <2>3. QED
    BY <2>1, <2>2
<1>5. /\ msTasks' \in [MsHandler -> MsTask] /\ msTasks'[h] = t
      /\ \A k \in MsHandler \ {h} : msTasks'[k] = msTasks[k]
  BY <1>4, MsTurns DEF MsInv, MsTypes
<1>6. /\ smsRows' \in Rows /\ mmsRows' \in Rows
      /\ Logged(smsRows) \in Nat /\ Logged(mmsRows) \in Nat
      /\ smsRows.sent \in Nat /\ mmsRows.sent \in Nat
      /\ v.op = "mms" => smsRows' = smsRows /\ Logged(mmsRows') = Logged(mmsRows) + 1
      /\ v.op # "mms" => mmsRows' = mmsRows /\ Logged(smsRows') = Logged(smsRows) + 1
  BY <1>1, OneRowMore DEF WriteRow, MsInv, MsTypes
<1>7. /\ result = "sent" => smsRows'.sent + mmsRows'.sent = smsRows.sent + mmsRows.sent + 1
      /\ result # "sent" => smsRows'.sent + mmsRows'.sent = smsRows.sent + mmsRows.sent
  <2>1. smsRows \in Rows /\ mmsRows \in Rows /\ "sent" # "failed"
    BY DEF MsInv, MsTypes
  <2>2. CASE v.op = "mms"
    <3>1. smsRows' = smsRows /\ mmsRows' = [mmsRows EXCEPT ![result] = @ + 1]
      BY <1>1, <2>2 DEF WriteRow
    <3>2. /\ result = "sent" => mmsRows'.sent = mmsRows.sent + 1
          /\ result = "failed" => mmsRows'.sent = mmsRows.sent
          /\ mmsRows.sent \in Nat
      BY <2>1, <3>1, OneRowMore
    <3>3. QED
      BY <3>1, <3>2, <1>6
  <2>3. CASE v.op # "mms"
    <3>1. mmsRows' = mmsRows /\ smsRows' = [smsRows EXCEPT ![result] = @ + 1]
      BY <1>1, <2>3 DEF WriteRow
    <3>2. /\ result = "sent" => smsRows'.sent = smsRows.sent + 1
          /\ result = "failed" => smsRows'.sent = smsRows.sent
          /\ smsRows.sent \in Nat
      BY <2>1, <3>1, OneRowMore
    <3>3. QED
      BY <3>1, <3>2, <1>6
  <2>4. QED
    BY <2>2, <2>3
<1>8. MsTypes'
  BY <1>3, <1>5, <1>6 DEF MsInv, MsTypes
<1>9. TasksSensible'
  BY <1>4, <1>5 DEF MsInv, TasksSensible
<1>10. v.op = "mms" => t.op = "idle"
  BY <1>2, <1>4 DEF Sensible
<1>11. v.op # "mms" => t.op # "mms"
  BY <1>4
<1>12. /\ Cardinality(Sending(msTasks)) \in Nat /\ Cardinality(Sending(msTasks')) \in Nat
       /\ Cardinality(Reaching(msTasks)) \in Nat /\ Cardinality(Reaching(msTasks')) \in Nat
       /\ v.op = "mms" => Cardinality(Sending(msTasks)) = Cardinality(Sending(msTasks')) + 1
       /\ v.op # "mms" => Cardinality(Sending(msTasks')) = Cardinality(Sending(msTasks))
       /\ v.phase = "reached"
            => Cardinality(Reaching(msTasks)) = Cardinality(Reaching(msTasks')) + 1
       /\ v.phase # "reached"
            => Cardinality(Reaching(msTasks')) = Cardinality(Reaching(msTasks))
  BY <1>4, <1>5, <1>10, <1>11, MsMoves
<1>13. MmsCounted'
  <2>1. Logged(mmsRows') + Cardinality(Sending(msTasks'))
          = Logged(mmsRows) + Cardinality(Sending(msTasks))
    BY <1>6, <1>12
  <2>2. QED
    BY <2>1 DEF MsInv, MmsCounted
<1>14. ReachedCounted'
  <2>1. /\ Logged(smsRows') + Logged(mmsRows') = Logged(smsRows) + Logged(mmsRows) + 1
        /\ Logged(smsRows') \in Nat /\ Logged(mmsRows') \in Nat
        /\ msLog.faults \in Nat /\ msLog.reached \in Nat
    BY <1>6 DEF MsInv, MsTypes
  <2>2. msLog.reached <= Logged(smsRows') + Logged(mmsRows')
                           + Cardinality(Reaching(msTasks')) + msLog.faults
    BY <2>1, <1>6, <1>12 DEF MsInv, ReachedCounted
  <2>3. smsRows'.sent + mmsRows'.sent + Cardinality(Reaching(msTasks')) <= msLog.reached
    BY <2>1, <1>1, <1>2, <1>6, <1>7, <1>12 DEF MsInv, ReachedCounted
  <2>4. QED
    BY <2>2, <2>3, <1>3 DEF ReachedCounted
<1>15. ASSUME ~msLog'.overlapped PROVE OneRequest'
  BY <1>15, <1>2, <1>3, <1>5 DEF MsInv, OneRequest
<1>16. ASSUME ~msLog'.overlapped, ~msLog'.direct PROVE RoomToShare'
  <2>1. RoomToShare /\ OneRequest
    BY <1>16, <1>3 DEF MsInv
  <2>2. \A k \in MsHandler \ {h} : msTasks'[k].op = "idle"
    BY <2>1, <1>2, <1>5 DEF OneRequest
  <2>3. CASE v.op = "mms"
    BY <2>1, <2>2, <2>3, <1>5, <1>6, <1>10 DEF RoomToShare
  <2>4. CASE v.op = "share"
    <3>1. /\ Logged(smsRows) + Cardinality(v.left) + 1 <= DailyLimit
          /\ Cardinality(v.left) \in Nat
      BY <2>1, <2>4, <1>2, FewerPeople DEF RoomToShare, MsTask
    <3>2. Logged(smsRows') + Cardinality(v.left) <= DailyLimit /\ Logged(smsRows') <= DailyLimit
      BY <3>1, <2>4, <1>6, MessagingAssumption
    <3>3. QED
      BY <3>2, <2>2, <2>4, <1>4, <1>5 DEF RoomToShare
  <2>5. v.op # "sms"
    BY <2>1 DEF RoomToShare
  <2>6. QED
    BY <2>3, <2>4, <2>5, <1>2
<1>17. ASSUME ~msLog'.regranted PROVE RecipientsAreLive'
  <2>1. RecipientsAreLive /\ ShareRecipients' = ShareRecipients
    BY <1>17, <1>3 DEF MsInv, ShareRecipients
  <2>2. QED
    BY <2>1, <1>3, <1>4, <1>5 DEF RecipientsAreLive
<1>18. QED
  BY <1>8, <1>9, <1>13, <1>14, <1>15, <1>16, <1>17 DEF MsInv

\* The inductive invariant of the text messages.
LEMMA MsInvHolds == MsSpec => []MsInv
<1>1. MsInit => MsInv
  BY MsInitInv
<1>2. MsInv /\ [MsNext]_msVars => MsInv'
  <2> SUFFICES ASSUME MsInv, [MsNext]_msVars PROVE MsInv'
    OBVIOUS
  <2>1. ASSUME NEW p \in MsPerson, ChangeList(p) PROVE MsInv'
    BY <2>1, MsListChanges
  <2>2. ASSUME NEW h \in MsHandler, SendSms(h) \/ SendMms(h) \/ ShareApp(h) PROVE MsInv'
    <3>1. CASE SendSms(h)
      <4> DEFINE t == [op |-> "sms", phase |-> "send", left |-> {}]
      <4>1. t \in MsTask /\ Sensible(t) /\ t.op = "sms" /\ t.phase = "send"
        BY DEF MsTask, Sensible
      <4>2. StartRequest(h, t)
        BY <3>1 DEF SendSms
      <4> HIDE DEF t
      <4>3. QED
        BY <4>1, <4>2, MsStarts
    <3>2. CASE SendMms(h)
      <4> DEFINE t == [op |-> "mms", phase |-> "send", left |-> {}]
      <4>1. t \in MsTask /\ Sensible(t) /\ t.op = "mms" /\ t.phase = "send"
        BY DEF MsTask, Sensible
      <4>2. StartRequest(h, t) /\ Logged(mmsRows) < DailyLimit
        BY <3>2 DEF SendMms
      <4> HIDE DEF t
      <4>3. QED
        BY <4>1, <4>2, MsStarts
    <3>3. CASE ShareApp(h)
      <4>1. PICK targets \in SUBSET ShareRecipients :
              StartRequest(h, [op |-> "share", phase |-> "judge", left |-> targets])
        BY <3>3 DEF ShareApp
      <4> DEFINE t == [op |-> "share", phase |-> "judge", left |-> targets]
      <4>2. targets \subseteq MsPerson
        BY DEF ShareRecipients
      <4>3. /\ t \in MsTask /\ Sensible(t) /\ t.op = "share" /\ t.phase = "judge"
            /\ t.left = targets
        BY <4>2 DEF MsTask, Sensible
      <4> HIDE DEF t
      <4>4. StartRequest(h, t)
        BY <4>1 DEF t
      <4>5. QED
        BY <4>3, <4>4, MsStarts
    <3>4. QED
      BY <2>2, <3>1, <3>2, <3>3
  <2>3. ASSUME NEW h \in MsHandler, Object(h) PROVE MsInv'
    BY <2>3, Objects
  <2>4. ASSUME NEW h \in MsHandler, Pass(h) PROVE MsInv'
    BY <2>4, Passes
  <2>5. ASSUME NEW h \in MsHandler, Submit(h) PROVE MsInv'
    BY <2>5, Submits
  <2>6. ASSUME NEW h \in MsHandler, Answer(h) PROVE MsInv'
    BY <2>6, Answers
  <2>7. ASSUME NEW h \in MsHandler, AnswerUnread(h) PROVE MsInv'
    BY <2>7, LeavesUnread
  <2>8. CASE UNCHANGED msVars
    BY <2>8 DEF msVars, MsInv, MsTypes, TasksSensible, MmsCounted, ReachedCounted, OneRequest,
                RoomToShare, RecipientsAreLive, ShareRecipients
  <2>9. QED
    BY <2>1, <2>2, <2>3, <2>4, <2>5, <2>6, <2>7, <2>8 DEF MsNext
<1>3. QED
  BY <1>1, <1>2, PTL DEF MsSpec

\* The daily limits hold but for requests that overlap, what reached somebody is on record, and
\* messages about an app reach those who may open it, for any number of people and requests
\* (send_sms, send_mms, send_app_to_shared_users).
THEOREM MessagesEndOnRecord == MsSpec => []MessagesOnRecord
<1>1. MsInv => MessagesOnRecord
  <2> SUFFICES ASSUME MsInv PROVE MessagesOnRecord
    OBVIOUS
  <2>1. MmsLimited
    <3>1. Sending(msTasks) \subseteq MsHandler
      BY DEF Sending
    <3>2. Cardinality(Sending(msTasks)) \in Nat /\ Cardinality(MsHandler) \in Nat
      BY <3>1, FS_Subset, FS_CardinalityType, MessagingAssumption
    <3>3. Logged(mmsRows) \in Nat
      BY DEF MsInv, MsTypes, Rows, Logged
    <3>4. QED
      BY <3>2, <3>3, MessagingAssumption DEF MsInv, MmsCounted, MmsLimited
  <2>2. SharesLimited
    BY DEF MsInv, RoomToShare, SharesLimited
  <2>3. ReachedIsLogged
    <3>1. Reaching(msTasks) \subseteq MsHandler
      BY DEF Reaching
    <3>2. Cardinality(Reaching(msTasks)) \in Nat
      BY <3>1, FS_Subset, FS_CardinalityType, MessagingAssumption
    <3>3. /\ smsRows.sent \in Nat /\ mmsRows.sent \in Nat /\ msLog.reached \in Nat
      BY DEF MsInv, MsTypes, Rows
    <3>4. smsRows.sent + mmsRows.sent <= msLog.reached
      BY <3>2, <3>3 DEF MsInv, ReachedCounted
    <3>5. QED
      BY <3>4 DEF MsInv, ReachedCounted, ReachedIsLogged, Reaching
  <2>4. SharesReachGranted
    BY DEF MsInv, RecipientsAreLive, SharesReachGranted
  <2>5. QED
    BY <2>1, <2>2, <2>3, <2>4 DEF MessagesOnRecord
<1>2. QED
  BY <1>1, MsInvHolds, PTL

-----------------------------------------------------------------------------
(* How many messages there can be *)

\* A request that has yet to write the row of the message it is at, or has yet to send its only one.
RowDue(t) == t.phase \in {"reached", "refused"} \/ (t.phase = "send" /\ t.op # "share")
Unsent(t) == t.phase = "send" /\ t.op # "share"

\* The requests with those they will still write to.
StillToWrite(f) == {x \in MsHandler \X MsPerson : x[2] \in f[x[1]].left}

\* The messages that have yet to be sent, and the rows that have yet to be written.
Outstanding(f) == Cardinality(StillToWrite(f)) + Cardinality({h \in MsHandler : Unsent(f[h])})
Unlogged(f) == Cardinality(StillToWrite(f)) + Cardinality({h \in MsHandler : RowDue(f[h])})

\* No request writes to anybody twice: what it has sent or logged, with what it has still to send
\* or log, is no more than a message for everybody.
MsBounds ==
  /\ msLog.requests <= MaxSends /\ msLog.regrants <= MaxRegrants /\ msLog.faults <= MaxMsFaults
  /\ \A h \in MsHandler : msTasks[h].op = "idle" => msTasks[h].left = {}
  /\ msLog.reached + Outstanding(msTasks) <= msLog.requests * Cardinality(MsPerson)
  /\ Logged(smsRows) + Logged(mmsRows) + Unlogged(msTasks)
       <= msLog.requests * Cardinality(MsPerson)
  /\ msLog.strayed <= msLog.reached

\* What one request has to do with how many are still to be written to.
LEMMA OneRequestsShare ==
  ASSUME NEW f \in [MsHandler -> MsTask], NEW h \in MsHandler
  PROVE  LET R == {x \in StillToWrite(f) : x[1] # h} IN
         /\ Cardinality(f[h].left) \in Nat /\ Cardinality(R) \in Nat
         /\ Cardinality(StillToWrite(f)) = Cardinality(R) + Cardinality(f[h].left)
<1> DEFINE S == StillToWrite(f)
           R == {x \in S : x[1] # h}
           L == f[h].left
           P == {h} \X L
<1>1. L \subseteq MsPerson
  BY DEF MsTask
<1>2. IsFiniteSet(MsHandler \X MsPerson)
  BY FS_Product, MessagingAssumption
<1>3. S \subseteq MsHandler \X MsPerson /\ R \subseteq S
  BY DEF StillToWrite
<1>4. \A x : x \in P <=> x \in S /\ x[1] = h
  BY <1>1 DEF StillToWrite
<1>5. S = R \cup P /\ R \cap P = {}
  BY <1>4
<1> HIDE DEF S, L
<1>6. IsFiniteSet(L) /\ IsFiniteSet({h}) /\ Cardinality({h}) = 1 /\ Cardinality(L) \in Nat
  BY <1>1, FS_Subset, FS_Singleton, FS_CardinalityType, MessagingAssumption
<1>7. IsFiniteSet(P) /\ Cardinality(P) = Cardinality({h}) * Cardinality(L)
  BY <1>6, FS_Product
<1> HIDE DEF P
<1>8. IsFiniteSet(S) /\ IsFiniteSet(R)
  BY <1>2, <1>3, FS_Subset
<1> HIDE DEF R
<1>9. /\ Cardinality(R) \in Nat
      /\ Cardinality(R \cup P) = Cardinality(R) + Cardinality(P) - Cardinality(R \cap P)
  BY <1>7, <1>8, FS_Union, FS_CardinalityType
<1>10. Cardinality(R \cap P) = 0
  BY <1>5, FS_EmptySet
<1>11. Cardinality(P) = Cardinality(L)
  BY <1>6, <1>7
<1>12. Cardinality(S) = Cardinality(R) + Cardinality(L)
  BY <1>5, <1>6, <1>9, <1>10, <1>11
<1>13. QED
  BY <1>6, <1>9, <1>12 DEF R, S, L

\* How the outstanding messages and rows change when one request moves.
LEMMA MsDues ==
  ASSUME NEW f \in [MsHandler -> MsTask], NEW g \in [MsHandler -> MsTask], NEW h \in MsHandler,
         \A k \in MsHandler \ {h} : g[k] = f[k]
  PROVE  LET one(b) == IF b THEN 1 ELSE 0 IN
         /\ Outstanding(f) \in Nat /\ Outstanding(g) \in Nat
         /\ Unlogged(f) \in Nat /\ Unlogged(g) \in Nat
         /\ Cardinality(f[h].left) \in Nat /\ Cardinality(g[h].left) \in Nat
         /\ Outstanding(g) + Cardinality(f[h].left) + one(Unsent(f[h]))
              = Outstanding(f) + Cardinality(g[h].left) + one(Unsent(g[h]))
         /\ Unlogged(g) + Cardinality(f[h].left) + one(RowDue(f[h]))
              = Unlogged(f) + Cardinality(g[h].left) + one(RowDue(g[h]))
<1> DEFINE W(e) == Cardinality(StillToWrite(e))
           UF == {k \in MsHandler : Unsent(f[k])}
           UG == {k \in MsHandler : Unsent(g[k])}
           DF == {k \in MsHandler : RowDue(f[k])}
           DG == {k \in MsHandler : RowDue(g[k])}
<1>1. /\ Cardinality(f[h].left) \in Nat /\ Cardinality(g[h].left) \in Nat
      /\ W(f) \in Nat /\ W(g) \in Nat
      /\ W(g) + Cardinality(f[h].left) = W(f) + Cardinality(g[h].left)
  <2> DEFINE F == {x \in StillToWrite(f) : x[1] # h}
             G == {x \in StillToWrite(g) : x[1] # h}
  <2>1. F = G
    BY DEF StillToWrite
  <2>2. /\ Cardinality(f[h].left) \in Nat /\ Cardinality(F) \in Nat
        /\ W(f) = Cardinality(F) + Cardinality(f[h].left)
    BY OneRequestsShare
  <2>3. /\ Cardinality(g[h].left) \in Nat /\ Cardinality(G) \in Nat
        /\ W(g) = Cardinality(G) + Cardinality(g[h].left)
    BY OneRequestsShare
  <2> HIDE DEF F, G, W
  <2>4. QED
    BY <2>1, <2>2, <2>3
<1>2. /\ IsFiniteSet(UF) /\ IsFiniteSet(DF)
      /\ \A k : k # h => (k \in UF <=> k \in UG) /\ (k \in DF <=> k \in DG)
      /\ h \in UF <=> Unsent(f[h])
      /\ h \in UG <=> Unsent(g[h])
      /\ h \in DF <=> RowDue(f[h])
      /\ h \in DG <=> RowDue(g[h])
  BY FS_Subset, MessagingAssumption
<1> HIDE DEF UF, UG, DF, DG
<1>3. /\ Cardinality(UF) \in Nat /\ Cardinality(UG) \in Nat
      /\ h \in UF /\ h \notin UG => Cardinality(UF) = Cardinality(UG) + 1
      /\ h \notin UF /\ h \in UG => Cardinality(UG) = Cardinality(UF) + 1
      /\ (h \in UF <=> h \in UG) => Cardinality(UG) = Cardinality(UF)
  BY <1>2, OneComesOrGoes
<1>4. /\ Cardinality(DF) \in Nat /\ Cardinality(DG) \in Nat
      /\ h \in DF /\ h \notin DG => Cardinality(DF) = Cardinality(DG) + 1
      /\ h \notin DF /\ h \in DG => Cardinality(DG) = Cardinality(DF) + 1
      /\ (h \in DF <=> h \in DG) => Cardinality(DG) = Cardinality(DF)
  BY <1>2, OneComesOrGoes
<1>5. /\ Outstanding(f) = W(f) + Cardinality(UF) /\ Outstanding(g) = W(g) + Cardinality(UG)
      /\ Unlogged(f) = W(f) + Cardinality(DF) /\ Unlogged(g) = W(g) + Cardinality(DG)
  BY DEF Outstanding, Unlogged, UF, UG, DF, DG
<1> HIDE DEF W
<1> DEFINE a == IF Unsent(f[h]) THEN 1 ELSE 0
           b == IF Unsent(g[h]) THEN 1 ELSE 0
           c == IF RowDue(f[h]) THEN 1 ELSE 0
           d == IF RowDue(g[h]) THEN 1 ELSE 0
<1>6. Cardinality(UG) + a = Cardinality(UF) + b /\ Cardinality(DG) + c = Cardinality(DF) + d
      /\ a \in Nat /\ b \in Nat /\ c \in Nat /\ d \in Nat
  BY <1>2, <1>3, <1>4
<1> HIDE DEF a, b, c, d
<1>7. /\ Outstanding(g) + Cardinality(f[h].left) + a = Outstanding(f) + Cardinality(g[h].left) + b
      /\ Unlogged(g) + Cardinality(f[h].left) + c = Unlogged(f) + Cardinality(g[h].left) + d
  BY <1>1, <1>3, <1>4, <1>5, <1>6
<1>8. QED
  BY <1>1, <1>3, <1>4, <1>5, <1>7 DEF a, b, c, d

\* There is somebody to write to.
LEMMA PeopleAreThere == Cardinality(MsPerson) \in Nat \ {0}
BY FS_CardinalityType, FS_EmptySet, MessagingAssumption

\* A request that begins may write to everybody once.
LEMMA BoundsOfStart ==
  ASSUME MsInv, MsBounds, NEW h \in MsHandler, NEW t \in MsTask, Sensible(t), StartRequest(h, t),
         t.op # "idle", t.phase \in {"send", "judge"},
         t.phase = "send" => t.op # "share" /\ t.left = {}
  PROVE  MsBounds'
<1> DEFINE n == Cardinality(MsPerson)  m == msLog.requests
<1>1. n \in Nat \ {0} /\ m \in Nat /\ (m + 1) * n = m * n + n /\ m * n \in Nat
  BY PeopleAreThere DEF MsInv, MsTypes
<1>2. /\ msTasks \in [MsHandler -> MsTask] /\ msTasks' = [msTasks EXCEPT ![h] = t]
      /\ UNCHANGED <<smsRows, mmsRows>> /\ msTasks[h].op = "idle" /\ m < MaxSends
      /\ msLog'.requests = m + 1 /\ msLog'.regrants = msLog.regrants
      /\ msLog'.faults = msLog.faults /\ msLog'.reached = msLog.reached
      /\ msLog'.strayed = msLog.strayed
  BY DEF StartRequest, MsInv, MsTypes
<1>3. /\ msTasks' \in [MsHandler -> MsTask] /\ msTasks'[h] = t
      /\ \A k \in MsHandler \ {h} : msTasks'[k] = msTasks[k]
  BY <1>2, MsTurns
<1>4. ~Unsent(msTasks[h]) /\ ~RowDue(msTasks[h]) /\ msTasks[h].left = {}
  BY <1>2 DEF MsInv, TasksSensible, Sensible, MsBounds, Unsent, RowDue
<1>5. Cardinality(t.left) \in Nat /\ Cardinality(t.left) <= n
      /\ (Unsent(t) \/ RowDue(t) => Cardinality(t.left) = 0)
  BY FewerPeople, FS_EmptySet, <1>1 DEF MsTask, Unsent, RowDue
<1>6. Outstanding(msTasks) \in Nat /\ Unlogged(msTasks) \in Nat
      /\ Outstanding(msTasks') <= Outstanding(msTasks) + n
      /\ Unlogged(msTasks') <= Unlogged(msTasks) + n
      /\ Outstanding(msTasks') \in Nat /\ Unlogged(msTasks') \in Nat
  <2> DEFINE v == msTasks[h]
             a == IF Unsent(v) THEN 1 ELSE 0
             b == IF Unsent(t) THEN 1 ELSE 0
             c == IF RowDue(v) THEN 1 ELSE 0
             d == IF RowDue(t) THEN 1 ELSE 0
  <2>1. /\ Outstanding(msTasks) \in Nat /\ Outstanding(msTasks') \in Nat
        /\ Unlogged(msTasks) \in Nat /\ Unlogged(msTasks') \in Nat
        /\ Outstanding(msTasks') + Cardinality(v.left) + a
             = Outstanding(msTasks) + Cardinality(t.left) + b
        /\ Unlogged(msTasks') + Cardinality(v.left) + c
             = Unlogged(msTasks) + Cardinality(t.left) + d
    BY <1>2, <1>3, MsDues
  <2>2. Cardinality(v.left) = 0 /\ a = 0 /\ c = 0
    BY <1>4, FS_EmptySet
  <2>3. b \in {0, 1} /\ d \in {0, 1} /\ (b = 1 \/ d = 1 => Cardinality(t.left) = 0)
    BY <1>5
  <2> HIDE DEF n, v, a, b, c, d
  <2>4. Cardinality(t.left) + b <= n /\ Cardinality(t.left) + d <= n /\ n \in Nat
    BY <1>1, <1>5, <2>3
  <2>5. QED
    BY <1>5, <2>1, <2>2, <2>3, <2>4
<1>7. msLog.reached \in Nat /\ Logged(smsRows) \in Nat /\ Logged(mmsRows) \in Nat
  BY DEF MsInv, MsTypes, Rows, Logged
<1>8. /\ msLog.reached + Outstanding(msTasks) <= m * n
      /\ Logged(smsRows) + Logged(mmsRows) + Unlogged(msTasks) <= m * n
  BY DEF MsBounds
<1> HIDE DEF n
<1>9. /\ msLog.reached + Outstanding(msTasks') <= (m + 1) * n
      /\ Logged(smsRows) + Logged(mmsRows) + Unlogged(msTasks') <= (m + 1) * n
  <2> DEFINE q == m * n  r == (m + 1) * n
  <2>1. q \in Nat /\ r = q + n /\ n \in Nat
    BY <1>1
  <2> HIDE DEF q, r
  <2>2. /\ msLog.reached + Outstanding(msTasks) <= q
        /\ Logged(smsRows) + Logged(mmsRows) + Unlogged(msTasks) <= q
    BY <1>8 DEF q
  <2>3. /\ msLog.reached + Outstanding(msTasks') <= r
        /\ Logged(smsRows) + Logged(mmsRows) + Unlogged(msTasks') <= r
    BY <2>1, <2>2, <1>6, <1>7
  <2>4. QED
    BY <2>3 DEF r
<1>10. m + 1 <= MaxSends
  BY <1>1, <1>2, MessagingAssumption
<1>11. \A k \in MsHandler : msTasks'[k].op = "idle" => msTasks'[k].left = {}
  BY <1>3 DEF MsBounds
<1>12. QED
  BY <1>2, <1>9, <1>10, <1>11 DEF MsBounds, n

\* A request that goes on writes to one of those it had still to write to, or logs that it did.
LEMMA BoundsOfRest ==
  ASSUME MsInv, MsInv', MsBounds, NEW h \in MsHandler,
         \A k \in MsHandler \ {h} : msTasks'[k] = msTasks[k],
         NEW sent \in {0, 1}, NEW logged \in {0, 1},
         msTasks'[h].op = "idle" => msTasks'[h].left = {},
         msLog'.requests = msLog.requests, msLog'.regrants = msLog.regrants,
         msLog'.faults <= MaxMsFaults, msLog'.strayed <= msLog'.reached,
         msLog'.reached <= msLog.reached + sent,
         Logged(smsRows') + Logged(mmsRows') = Logged(smsRows) + Logged(mmsRows) + logged,
         LET one(b) == IF b THEN 1 ELSE 0
             v == msTasks[h]
             t == msTasks'[h]
         IN /\ Cardinality(t.left) + one(Unsent(t)) + sent <= Cardinality(v.left) + one(Unsent(v))
            /\ Cardinality(t.left) + one(RowDue(t)) + logged
                 <= Cardinality(v.left) + one(RowDue(v))
  PROVE  MsBounds'
<1> DEFINE q == msLog.requests * Cardinality(MsPerson)
           v == msTasks[h]
           t == msTasks'[h]
           a == IF Unsent(v) THEN 1 ELSE 0
           b == IF Unsent(t) THEN 1 ELSE 0
           c == IF RowDue(v) THEN 1 ELSE 0
           d == IF RowDue(t) THEN 1 ELSE 0
<1>1. q \in Nat /\ a \in Nat /\ b \in Nat /\ c \in Nat /\ d \in Nat
  BY PeopleAreThere DEF MsInv, MsTypes
<1>2. msTasks \in [MsHandler -> MsTask] /\ msTasks' \in [MsHandler -> MsTask]
  BY DEF MsInv, MsTypes
<1>3. /\ Outstanding(msTasks) \in Nat /\ Outstanding(msTasks') \in Nat
      /\ Unlogged(msTasks) \in Nat /\ Unlogged(msTasks') \in Nat
      /\ Cardinality(v.left) \in Nat /\ Cardinality(t.left) \in Nat
      /\ Outstanding(msTasks') + Cardinality(v.left) + a
           = Outstanding(msTasks) + Cardinality(t.left) + b
      /\ Unlogged(msTasks') + Cardinality(v.left) + c
           = Unlogged(msTasks) + Cardinality(t.left) + d
  BY <1>2, MsDues
<1>4. /\ Cardinality(t.left) + b + sent <= Cardinality(v.left) + a
      /\ Cardinality(t.left) + d + logged <= Cardinality(v.left) + c
  OBVIOUS
<1>5. /\ msLog.reached + Outstanding(msTasks) <= q
      /\ Logged(smsRows) + Logged(mmsRows) + Unlogged(msTasks) <= q
  BY DEF MsBounds
<1>6. /\ msLog.reached \in Nat /\ msLog'.reached \in Nat
      /\ Logged(smsRows) \in Nat /\ Logged(mmsRows) \in Nat
      /\ Logged(smsRows') \in Nat /\ Logged(mmsRows') \in Nat
  BY DEF MsInv, MsTypes, Rows, Logged
<1> HIDE DEF q, v, t, a, b, c, d
<1>7. msLog'.reached + Outstanding(msTasks') <= q
  BY <1>1, <1>3, <1>4, <1>5, <1>6
<1>8. Logged(smsRows') + Logged(mmsRows') + Unlogged(msTasks') <= q
  BY <1>1, <1>3, <1>4, <1>5, <1>6
<1>9. \A k \in MsHandler : msTasks'[k].op = "idle" => msTasks'[k].left = {}
  BY DEF MsBounds
<1>10. QED
  BY <1>7, <1>8, <1>9 DEF MsBounds, q

\* No step writes to anybody twice.
LEMMA MsBoundsStep ==
  ASSUME MsInv, MsInv', MsBounds, MsNext
  PROVE  MsBounds'
<1> DEFINE one(b) == IF b THEN 1 ELSE 0
<1>0. /\ msLog.regrants \in Nat /\ msLog.faults \in Nat /\ msLog.reached \in Nat
      /\ msLog.strayed \in Nat /\ msLog.strayed <= msLog.reached
      /\ msLog.faults <= MaxMsFaults
      /\ msTasks \in [MsHandler -> MsTask] /\ msTasks' \in [MsHandler -> MsTask]
      /\ \A h \in MsHandler : Sensible(msTasks[h]) /\ Sensible(msTasks'[h])
      /\ Logged(smsRows) \in Nat /\ Logged(mmsRows) \in Nat
  BY DEF MsInv, MsTypes, Rows, Logged, MsBounds, TasksSensible
<1>1. ASSUME NEW p \in MsPerson, ChangeList(p) PROVE MsBounds'
  <2>1. /\ msLog'.requests = msLog.requests /\ msLog'.regrants = msLog.regrants + 1
        /\ msLog'.faults = msLog.faults /\ msLog'.reached = msLog.reached
        /\ msLog'.strayed = msLog.strayed /\ UNCHANGED <<smsRows, mmsRows, msTasks>>
        /\ msLog.regrants < MaxRegrants
    BY <1>1 DEF ChangeList, MsInv, MsTypes
  <2>2. msLog.regrants + 1 <= MaxRegrants
    BY <2>1, <1>0, MessagingAssumption
  <2>3. QED
    BY <2>1, <2>2 DEF MsBounds
<1>2. ASSUME NEW h \in MsHandler, SendSms(h) \/ SendMms(h) \/ ShareApp(h) PROVE MsBounds'
  <2>1. PICK t \in MsTask :
          /\ StartRequest(h, t) /\ Sensible(t) /\ t.op # "idle" /\ t.phase \in {"send", "judge"}
          /\ t.phase = "send" => t.op # "share" /\ t.left = {}
    <3>1. CASE SendSms(h)
      <4> DEFINE t == [op |-> "sms", phase |-> "send", left |-> {}]
      <4>1. t \in MsTask /\ Sensible(t) /\ t.op = "sms" /\ t.phase = "send" /\ t.left = {}
        BY DEF MsTask, Sensible
      <4>2. StartRequest(h, t)
        BY <3>1 DEF SendSms
      <4> HIDE DEF t
      <4>3. QED
        BY <4>1, <4>2
    <3>2. CASE SendMms(h)
      <4> DEFINE t == [op |-> "mms", phase |-> "send", left |-> {}]
      <4>1. t \in MsTask /\ Sensible(t) /\ t.op = "mms" /\ t.phase = "send" /\ t.left = {}
        BY DEF MsTask, Sensible
      <4>2. StartRequest(h, t)
        BY <3>2 DEF SendMms
      <4> HIDE DEF t
      <4>3. QED
        BY <4>1, <4>2
    <3>3. CASE ShareApp(h)
      <4>1. PICK targets \in SUBSET ShareRecipients :
              StartRequest(h, [op |-> "share", phase |-> "judge", left |-> targets])
        BY <3>3 DEF ShareApp
      <4> DEFINE t == [op |-> "share", phase |-> "judge", left |-> targets]
      <4>2. targets \subseteq MsPerson
        BY DEF ShareRecipients
      <4>3. t \in MsTask /\ Sensible(t) /\ t.op = "share" /\ t.phase = "judge"
        BY <4>2 DEF MsTask, Sensible
      <4>4. StartRequest(h, t)
        BY <4>1
      <4> HIDE DEF t
      <4>5. QED
        BY <4>3, <4>4
    <3>4. QED
      BY <1>2, <3>1, <3>2, <3>3
  <2>2. QED
    BY <2>1, BoundsOfStart
<1>3. ASSUME NEW h \in MsHandler, Object(h) \/ AnswerUnread(h) PROVE MsBounds'
  <2>1. /\ msTasks' = [msTasks EXCEPT ![h] = MsRest] /\ UNCHANGED <<smsRows, mmsRows>>
        /\ msLog'.requests = msLog.requests /\ msLog'.regrants = msLog.regrants
        /\ msLog'.reached = msLog.reached /\ msLog'.strayed = msLog.strayed
        /\ \/ msLog'.faults = msLog.faults
           \/ msLog'.faults = msLog.faults + 1 /\ msLog.faults < MaxMsFaults
    BY <1>3 DEF Object, AnswerUnread, MsInv, MsTypes
  <2>2. /\ \A k \in MsHandler \ {h} : msTasks'[k] = msTasks[k]
        /\ msTasks'[h].left = {} /\ ~Unsent(msTasks'[h]) /\ ~RowDue(msTasks'[h])
    BY <2>1, <1>0 DEF MsRest, Unsent, RowDue
  <2>3. Cardinality(msTasks[h].left) \in Nat /\ Cardinality(msTasks'[h].left) = 0
    BY <1>0, <2>2, FewerPeople, FS_EmptySet DEF MsTask
  <2>4. msLog'.faults <= MaxMsFaults
    BY <2>1, <1>0, MessagingAssumption
  <2>5. PICK none \in {0, 1} : none = 0
    OBVIOUS
  <2>6. /\ Cardinality(msTasks'[h].left) + one(Unsent(msTasks'[h])) + none
              <= Cardinality(msTasks[h].left) + one(Unsent(msTasks[h]))
        /\ Cardinality(msTasks'[h].left) + one(RowDue(msTasks'[h])) + none
              <= Cardinality(msTasks[h].left) + one(RowDue(msTasks[h]))
    BY <2>2, <2>3, <2>5
  <2>7. /\ msLog'.reached <= msLog.reached + none /\ msLog'.strayed <= msLog'.reached
        /\ Logged(smsRows') + Logged(mmsRows') = Logged(smsRows) + Logged(mmsRows) + none
    BY <2>1, <2>5, <1>0
  <2>8. QED
    BY <2>1, <2>2, <2>4, <2>6, <2>7, BoundsOfRest
<1>4. ASSUME NEW h \in MsHandler, Pass(h) PROVE MsBounds'
  <2> DEFINE v == msTasks[h]  t == msTasks'[h]
  <2>1. /\ \A k \in MsHandler \ {h} : msTasks'[k] = msTasks[k]
        /\ UNCHANGED <<smsRows, mmsRows, msLog>> /\ v.phase = "judge"
        /\ t.left \subseteq v.left /\ ~Unsent(t) /\ ~RowDue(t)
        /\ t.op = "idle" => t.left = {}
    <3>1. v.op = "share" /\ v \in MsTask /\ v.phase = "judge"
      BY <1>0, <1>4 DEF Pass, Sensible, MsTask
    <3>2. PICK chosen \in SUBSET v.left :
            msTasks' = [msTasks EXCEPT ![h] =
              IF chosen \subseteq MsPhoneless THEN MsRest
              ELSE [@ EXCEPT !.phase = "send", !.left = chosen \ MsPhoneless]]
      BY <1>4 DEF Pass
    <3>3. \/ t = MsRest
          \/ t = [v EXCEPT !.phase = "send", !.left = chosen \ MsPhoneless]
      BY <1>0, <3>2
    <3>4. t.left \subseteq v.left /\ ~Unsent(t) /\ ~RowDue(t) /\ (t.op = "idle" => t.left = {})
      <4>1. CASE t = MsRest
        BY <4>1 DEF MsRest, Unsent, RowDue
      <4>2. CASE t = [v EXCEPT !.phase = "send", !.left = chosen \ MsPhoneless]
        <5>1. t.op = "share" /\ t.phase = "send" /\ t.left = chosen \ MsPhoneless
          BY <3>1, <4>2 DEF MsTask
        <5>2. QED
          BY <5>1 DEF Unsent, RowDue
      <4>3. QED
        BY <3>3, <4>1, <4>2
    <3>5. QED
      BY <1>0, <1>4, <3>1, <3>2, <3>4 DEF Pass
  <2>2. Cardinality(v.left) \in Nat /\ Cardinality(t.left) \in Nat
        /\ Cardinality(t.left) <= Cardinality(v.left)
    BY <1>0, <2>1, FewerPeople DEF MsTask
  <2>3. PICK none \in {0, 1} : none = 0
    OBVIOUS
  <2>4. /\ Cardinality(t.left) + one(Unsent(t)) + none <= Cardinality(v.left) + one(Unsent(v))
        /\ Cardinality(t.left) + one(RowDue(t)) + none <= Cardinality(v.left) + one(RowDue(v))
    BY <2>1, <2>2, <2>3
  <2>5. /\ msLog'.reached <= msLog.reached + none /\ msLog'.strayed <= msLog'.reached
        /\ Logged(smsRows') + Logged(mmsRows') = Logged(smsRows) + Logged(mmsRows) + none
        /\ msLog'.requests = msLog.requests /\ msLog'.regrants = msLog.regrants
        /\ msLog'.faults <= MaxMsFaults
    BY <2>1, <2>3, <1>0
  <2>6. QED
    BY <2>1, <2>4, <2>5, BoundsOfRest
<1>5. ASSUME NEW h \in MsHandler, Submit(h) PROVE MsBounds'
  <2> DEFINE v == msTasks[h]  t == msTasks'[h]
  <2>1. PICK reaches \in BOOLEAN, p \in (IF v.op = "share" THEN v.left ELSE MsPerson) :
         /\ msTasks' = [msTasks EXCEPT ![h].phase = IF reaches THEN "reached" ELSE "refused",
                                       ![h].left = @ \ {p}]
         /\ msLog' = [msLog EXCEPT
              !.reached = IF reaches THEN @ + 1 ELSE @,
              !.strayed = IF reaches /\ v.op = "share" /\ granted[p] # "live" THEN @ + 1 ELSE @]
    BY <1>5 DEF Submit
  <2>2. v \in MsTask /\ v.phase = "send" /\ Sensible(v) /\ v.op # "idle"
    BY <1>0, <1>5 DEF Submit, Sensible
  <2>3. /\ \A k \in MsHandler \ {h} : msTasks'[k] = msTasks[k]
        /\ t.op = v.op /\ t.phase \in {"reached", "refused"} /\ t.left = v.left \ {p}
    BY <1>0, <2>1 DEF MsTask
  <2>4. /\ msLog'.requests = msLog.requests /\ msLog'.regrants = msLog.regrants
        /\ msLog'.faults = msLog.faults
        /\ msLog'.reached <= msLog.reached + 1 /\ msLog'.strayed <= msLog'.reached
        /\ UNCHANGED <<smsRows, mmsRows>>
    BY <1>0, <1>5, <2>1 DEF Submit, MsInv, MsTypes
  <2>5. PICK none \in {0, 1}, once \in {0, 1} : none = 0 /\ once = 1
    OBVIOUS
  <2>6. ~Unsent(t) /\ RowDue(t) /\ (Unsent(v) <=> v.op # "share") /\ (RowDue(v) <=> v.op # "share")
    BY <2>2, <2>3 DEF Unsent, RowDue
  <2>7. /\ Cardinality(t.left) \in Nat /\ Cardinality(v.left) \in Nat
        /\ v.op = "share" => Cardinality(t.left) + 1 = Cardinality(v.left)
        /\ v.op # "share" => Cardinality(t.left) = Cardinality(v.left)
    <3>1. CASE v.op = "share"
      BY <3>1, <2>1, <2>2, <2>3, OneFewer DEF MsTask
    <3>2. CASE v.op # "share"
      <4>1. v.left = {} /\ t.left = {}
        BY <3>2, <2>2, <2>3 DEF Sensible, MsTask
      <4>2. QED
        BY <3>2, <4>1, FS_EmptySet
    <3>3. QED
      BY <3>1, <3>2
  <2>8. /\ Cardinality(t.left) + one(Unsent(t)) + once <= Cardinality(v.left) + one(Unsent(v))
        /\ Cardinality(t.left) + one(RowDue(t)) + none <= Cardinality(v.left) + one(RowDue(v))
    BY <2>5, <2>6, <2>7
  <2>9. /\ msLog'.reached <= msLog.reached + once
        /\ Logged(smsRows') + Logged(mmsRows') = Logged(smsRows) + Logged(mmsRows) + none
        /\ msLog'.faults <= MaxMsFaults
    BY <2>4, <2>5, <1>0
  <2>10. t.op = "idle" => t.left = {}
    BY <2>2, <2>3
  <2> HIDE DEF v, t
  <2>11. QED
    BY <2>3, <2>4, <2>8, <2>9, <2>10, BoundsOfRest DEF v, t
<1>6. ASSUME NEW h \in MsHandler, Answer(h) PROVE MsBounds'
  <2> DEFINE v == msTasks[h]  t == msTasks'[h]
  <2>1. v \in MsTask /\ Sensible(v) /\ v.phase \in {"reached", "refused"} /\ v.op # "idle"
    BY <1>0, <1>6 DEF Answer, Answering, Sensible
  <2>2. /\ \A k \in MsHandler \ {h} : msTasks'[k] = msTasks[k]
        /\ t.left = v.left
        /\ \/ t.op = "idle" /\ t.phase = "none" /\ t.left = {}
           \/ t.op = "share" /\ t.phase = "send"
    <3>1. CASE v.left = {}
      <4>1. msTasks' = [msTasks EXCEPT ![h] = MsRest]
        BY <3>1, <1>6 DEF Answer, NextRecipient
      <4>2. QED
        BY <4>1, <3>1, <1>0 DEF MsRest
    <3>2. CASE v.left # {}
      <4>1. msTasks' = [msTasks EXCEPT ![h] = [v EXCEPT !.phase = "send"]]
        BY <3>2, <1>6 DEF Answer, NextRecipient
      <4>2. v.op = "share"
        BY <3>2, <2>1 DEF Sensible, MsTask
      <4>3. QED
        BY <4>1, <4>2, <2>1, <1>0 DEF MsTask
    <3>3. QED
      BY <3>1, <3>2
  <2>3. msLog' = msLog
    BY <1>6 DEF Answer
  <2>4. Logged(smsRows') + Logged(mmsRows') = Logged(smsRows) + Logged(mmsRows) + 1
    <3>1. PICK result \in {"sent", "failed"} : WriteRow(h, result)
      BY <1>6 DEF Answer
    <3>2. smsRows \in Rows /\ mmsRows \in Rows
      BY DEF MsInv, MsTypes
    <3>3. CASE v.op = "mms"
      <4>1. smsRows' = smsRows /\ mmsRows' = [mmsRows EXCEPT ![result] = @ + 1]
        BY <3>1, <3>3 DEF WriteRow
      <4>2. Logged(mmsRows') = Logged(mmsRows) + 1
        BY <4>1, <3>2, OneRowMore
      <4>3. QED
        BY <4>1, <4>2, <1>0
    <3>4. CASE v.op # "mms"
      <4>1. mmsRows' = mmsRows /\ smsRows' = [smsRows EXCEPT ![result] = @ + 1]
        BY <3>1, <3>4 DEF WriteRow
      <4>2. Logged(smsRows') = Logged(smsRows) + 1
        BY <4>1, <3>2, OneRowMore
      <4>3. QED
        BY <4>1, <4>2, <1>0
    <3>5. QED
      BY <3>3, <3>4
  <2>5. PICK none \in {0, 1}, once \in {0, 1} : none = 0 /\ once = 1
    OBVIOUS
  <2>6. ~Unsent(t) /\ ~RowDue(t) /\ ~Unsent(v) /\ RowDue(v)
    BY <2>1, <2>2 DEF Unsent, RowDue
  <2>7. Cardinality(v.left) \in Nat
    BY <2>1, FewerPeople DEF MsTask
  <2>8. /\ Cardinality(t.left) + one(Unsent(t)) + none <= Cardinality(v.left) + one(Unsent(v))
        /\ Cardinality(t.left) + one(RowDue(t)) + once <= Cardinality(v.left) + one(RowDue(v))
    BY <2>2, <2>5, <2>6, <2>7
  <2>9. /\ msLog'.reached <= msLog.reached + none /\ msLog'.strayed <= msLog'.reached
        /\ Logged(smsRows') + Logged(mmsRows') = Logged(smsRows) + Logged(mmsRows) + once
        /\ msLog'.requests = msLog.requests /\ msLog'.regrants = msLog.regrants
        /\ msLog'.faults <= MaxMsFaults
    BY <2>3, <2>4, <2>5, <1>0
  <2>10. t.op = "idle" => t.left = {}
    BY <2>2
  <2> HIDE DEF v, t
  <2>11. QED
    BY <2>2, <2>8, <2>9, <2>10, BoundsOfRest DEF v, t
<1>7. QED
  BY <1>1, <1>2, <1>3, <1>4, <1>5, <1>6 DEF MsNext

LEMMA MsBoundsHold == MsSpec => [](MsInv /\ MsBounds)
<1>1. MsInit => MsBounds
  <2> SUFFICES ASSUME MsInit PROVE MsBounds
    OBVIOUS
  <2>1. \A h \in MsHandler : msTasks[h] = MsRest
    BY DEF MsInit
  <2>2. \A h \in MsHandler : msTasks[h].left = {} /\ ~Unsent(msTasks[h]) /\ ~RowDue(msTasks[h])
    BY <2>1 DEF MsRest, Unsent, RowDue
  <2>3. /\ StillToWrite(msTasks) = {} /\ {h \in MsHandler : Unsent(msTasks[h])} = {}
        /\ {h \in MsHandler : RowDue(msTasks[h])} = {}
    BY <2>2 DEF StillToWrite
  <2>4. Outstanding(msTasks) = 0 /\ Unlogged(msTasks) = 0
    BY <2>3, FS_EmptySet DEF Outstanding, Unlogged
  <2>5. /\ Logged(smsRows) = 0 /\ Logged(mmsRows) = 0 /\ msLog.requests = 0
        /\ msLog.regrants = 0 /\ msLog.faults = 0 /\ msLog.reached = 0 /\ msLog.strayed = 0
    BY DEF MsInit, NoRows, Logged
  <2>6. 0 * Cardinality(MsPerson) = 0
    BY PeopleAreThere
  <2>7. QED
    BY <2>2, <2>4, <2>5, <2>6, MessagingAssumption DEF MsBounds
<1>2. MsInv /\ MsInv' /\ MsBounds /\ [MsNext]_msVars => MsBounds'
  <2>1. ASSUME UNCHANGED msVars, MsBounds PROVE MsBounds'
    BY <2>1 DEF msVars, MsBounds
  <2>2. QED
    BY <2>1, MsBoundsStep
<1>3. QED
  BY <1>1, <1>2, MsInvHolds, PTL DEF MsSpec

\* Every variable keeps its type: a request writes to nobody twice, so there are no more messages
\* and rows than requests times people, however requests overlap, fail and die.
THEOREM MessagesTypeCorrect == MsSpec => []MsTypeOK
<1>1. MsInv /\ MsBounds => MsTypeOK
  <2> SUFFICES ASSUME MsInv, MsBounds PROVE MsTypeOK
    OBVIOUS
  <2> DEFINE n == Cardinality(MsPerson)  m == msLog.requests  q == m * n  r == MaxSends * n
  <2>1. n \in Nat /\ m \in Nat /\ m <= MaxSends /\ MaxSends \in Nat
    BY PeopleAreThere, MessagingAssumption DEF MsInv, MsTypes, MsBounds
  <2>2. q \in Nat /\ r \in Nat /\ q <= r
    <3> DEFINE k == MaxSends - m
    <3> HIDE DEF n
    <3>1. k \in Nat /\ MaxSends = m + k
      BY <2>1
    <3> HIDE DEF k
    <3>2. (m + k) * n = m * n + k * n /\ m * n \in Nat /\ k * n \in Nat
      BY <2>1, <3>1
    <3>3. r = m * n + k * n
      BY <3>1, <3>2
    <3>4. QED
      BY <3>2, <3>3
  <2>3. /\ Outstanding(msTasks) \in Nat /\ Unlogged(msTasks) \in Nat
    <3>1. PICK h \in MsHandler : TRUE
      BY MessagingAssumption
    <3>2. QED
      BY MsDues DEF MsInv, MsTypes
  <2>4. /\ smsRows \in Rows /\ mmsRows \in Rows /\ msLog.reached \in Nat /\ msLog.strayed \in Nat
        /\ msLog.regrants \in Nat /\ msLog.faults \in Nat
    BY DEF MsInv, MsTypes
  <2>5. /\ msLog.reached + Outstanding(msTasks) <= q
        /\ Logged(smsRows) + Logged(mmsRows) + Unlogged(msTasks) <= q
        /\ msLog.strayed <= msLog.reached
        /\ msLog.regrants <= MaxRegrants /\ msLog.faults <= MaxMsFaults
    BY DEF MsBounds
  <2> HIDE DEF n, q, r
  <2>6. /\ msLog.reached \in 0..r /\ msLog.strayed \in 0..r /\ m \in 0..MaxSends
        /\ msLog.regrants \in 0..MaxRegrants /\ msLog.faults \in 0..MaxMsFaults
    BY <2>1, <2>2, <2>3, <2>4, <2>5, MessagingAssumption
  <2>7. /\ smsRows.sent \in 0..r /\ smsRows.failed \in 0..r
        /\ mmsRows.sent \in 0..r /\ mmsRows.failed \in 0..r
    <3>1. /\ smsRows.sent \in Nat /\ smsRows.failed \in Nat
          /\ mmsRows.sent \in Nat /\ mmsRows.failed \in Nat
      BY <2>4 DEF Rows
    <3>2. smsRows.sent + smsRows.failed + (mmsRows.sent + mmsRows.failed) <= r
      BY <2>2, <2>3, <2>5, <3>1 DEF Logged
    <3>3. QED
      BY <2>2, <3>1, <3>2
  <2>8. smsRows \in MsRows /\ mmsRows \in MsRows
    <3>1. /\ smsRows = [sent |-> smsRows.sent, failed |-> smsRows.failed]
          /\ mmsRows = [sent |-> mmsRows.sent, failed |-> mmsRows.failed]
      BY <2>4 DEF Rows
    <3>2. QED
      BY <3>1, <2>7 DEF MsRows, r, n
  <2>9. msLog \in [requests : 0..MaxSends, regrants : 0..MaxRegrants, faults : 0..MaxMsFaults,
                   overlapped : BOOLEAN, direct : BOOLEAN, regranted : BOOLEAN,
                   reached : 0..r, strayed : 0..r]
    BY <2>6 DEF MsInv, MsTypes
  <2>10. QED
    BY <2>8, <2>9 DEF MsInv, MsTypes, MsTask, MsTypeOK, r, n
<1>2. QED
  BY <1>1, MsBoundsHold, PTL

-----------------------------------------------------------------------------
(***************************************************************************)
(* SecurityPolicies. A pod follows its person's policy because a handler   *)
(* that is about to make one has read that policy, or the person is        *)
(* excused (PodsFollow, Excused); this needs that no two handlers make one *)
(* person's terminal (OneMaker). The sessions tell the pods because a row  *)
(* that a transaction asks for belongs to a pod that is gone or being made *)
(* (SessionsTell). People follow their templates but for those at a level  *)
(* that a handler has yet to pass (TemplatesFollowed). What every step     *)
(* does to tasks, rows and log is stated first, and each part of the       *)
(* invariant uses only that.                                               *)
(***************************************************************************)
Text == Policy \cup {NoPolicy}

SpTask == [op : {"idle", "spread", "make"}, phase : {"none", "spread", "kill", "pod", "row"},
           who : SpUser \cup {"none"}, level : SpLevel \cup {"none"}, text : Text,
           todo : SUBSET SpUser, marked : SUBSET SpUser, flushed : SUBSET SpUser]

\* What is known of a handler from where it is.
Orderly(t) ==
  /\ t.op = "idle" <=> t = SpRest
  /\ t.op = "idle" => t.phase = "none"
  /\ t.op = "spread" => t.phase \in {"spread", "kill"}
  /\ t.op = "make" => t.phase \in {"pod", "row"} /\ t.who \in SpUser
  /\ t.op # "idle" => t.text \in Policy
  /\ t.phase = "spread" => t.level \in SpLevel
  /\ t.phase # "kill" => t.todo = {} /\ t.marked = {} /\ t.flushed = {}
  /\ t.marked \subseteq SpUser \ t.todo

SpTypes ==
  /\ template \in [SpLevel -> Text]
  /\ policy \in [SpUser -> Text] /\ terminal \in [SpUser -> Text]
  /\ leaving \cup ended \subseteq {u \in SpUser : terminal[u] # NoPolicy}
  /\ approved \in SUBSET SpUser /\ live \in SUBSET SpUser
  /\ spTasks \in [SpHandler -> SpTask]
  /\ \A h \in SpHandler : Orderly(spTasks[h])
  /\ spLog = [ops |-> spLog.ops, faults |-> spLog.faults, version |-> spLog.version,
              overlapped |-> spLog.overlapped, strayed |-> spLog.strayed,
              direct |-> spLog.direct, late |-> spLog.late, crossed |-> spLog.crossed,
              reused |-> spLog.reused]
  /\ spLog.ops \in Nat /\ spLog.faults \in Nat /\ spLog.version \in 0..MaxVersions
  /\ spLog.overlapped \in BOOLEAN

\* A person's terminal is made by one handler at a time.
OneMaker ==
  \A g, h \in SpHandler :
    spTasks[g].op = "make" /\ spTasks[h].op = "make" /\ spTasks[g].who = spTasks[h].who => g = h

\* People whom a change has passed but whose pods are to go yet, those whose rows a transaction
\* asks for, and those whose terminal is being made.
ToGo(f) == {u \in SpUser : \E h \in SpHandler : u \in f[h].todo}
Touched(f) == {u \in SpUser : \E h \in SpHandler : u \in f[h].marked \cup f[h].flushed}
BeingMade(f) == {u \in SpUser : \E h \in SpHandler : f[h].op = "make" /\ f[h].who = u}

\* People whose pod need not be what their policy says.
Excused == spLog.direct \cup spLog.late \cup ToGo(spTasks)

\* A pod that is over, or that is to go, follows nothing.
Over(u) == terminal[u] = NoPolicy \/ u \in ended
Follows(u) == ~Stays(u) \/ u \in ended \/ terminal[u] = Effective(u) \/ u \in Excused

\* A pod, and one that is about to be made, follows the policy.
PodsFollow ==
  /\ \A u \in SpUser : Follows(u)
  /\ \A h \in SpHandler :
       LET t == spTasks[h] IN t.phase = "pod" => t.text = Effective(t.who) \/ t.who \in Excused

SessionsTell ==
  /\ \A u \in SpUser :
       \/ u \in live <=> Stays(u)
       \/ u \in live \cap spLog.reused
       \/ u \in BeingMade(spTasks) \cup spLog.crossed \cup Touched(spTasks)
  /\ \A u \in Touched(spTasks) :
       ~Stays(u) \/ u \in BeingMade(spTasks) \cup spLog.crossed
  /\ \A h \in SpHandler :
       LET t == spTasks[h] IN
       t.phase = "row" => Stays(t.who) \/ t.who \in spLog.reused \cup spLog.crossed

\* People at the level that a handler has yet to pass may be behind.
TemplatesFollowed ==
  /\ \A g, h \in SpHandler : spTasks[g].op = "spread" /\ spTasks[h].op = "spread" => g = h
  /\ \A u \in SpUser \ spLog.strayed :
       \/ policy[u] = NoPolicy
       \/ template[policy[u].level] \in {NoPolicy, policy[u]}
       \/ \E h \in SpHandler : /\ spTasks[h].phase = "spread"
                               /\ spTasks[h].level = policy[u].level

SpInv ==
  /\ SpTypes /\ OneMaker
  /\ spLog.faults = 0 => PodsFollow /\ SessionsTell
  /\ spLog.faults = 0 /\ ~spLog.overlapped => TemplatesFollowed

-----------------------------------------------------------------------------
(* What the steps do *)

\* The fields of the log after a step.
LogIs(faults, overlapped, strayed, direct, late, crossing, reused) ==
  /\ spLog' = [ops |-> spLog'.ops, faults |-> spLog'.faults, version |-> spLog'.version,
               overlapped |-> spLog'.overlapped, strayed |-> spLog'.strayed,
               direct |-> spLog'.direct, late |-> spLog'.late, crossed |-> spLog'.crossed,
               reused |-> spLog'.reused]
  /\ spLog'.ops \in Nat /\ spLog'.version \in 0..MaxVersions
  /\ spLog'.faults = faults /\ spLog'.overlapped = overlapped /\ spLog'.strayed = strayed
  /\ spLog'.direct = direct /\ spLog'.late = late /\ spLog'.crossed = crossing
  /\ spLog'.reused = reused

\* A handler's task is t from now on.
Turns(h, t) ==
  /\ spTasks' \in [SpHandler -> SpTask] /\ spTasks'[h] = t
  /\ \A k \in SpHandler \ {h} : spTasks'[k] = spTasks[k]

\* What a step does to a handler's task.
LEMMA TaskTurns ==
  ASSUME SpTypes, NEW h \in SpHandler, NEW t \in SpTask, spTasks' = [spTasks EXCEPT ![h] = t]
  PROVE  Turns(h, t)
BY DEF SpTypes, Turns

\* A handler at rest.
LEMMA SpResting ==
  /\ SpRest \in SpTask /\ Orderly(SpRest) /\ SpRest.op = "idle" /\ SpRest.phase = "none"
  /\ SpRest.todo = {} /\ SpRest.marked = {} /\ SpRest.flushed = {}
BY PolicyAssumption DEF SpRest, SpTask, Text, NoPolicy, Policy, Orderly

\* No policy is no policy of a level.
LEMMA NotNone == \A x \in Policy : x # NoPolicy
BY PolicyAssumption DEF Policy, NoPolicy

\* What a person has is a policy.
LEMMA EffectiveIs ==
  ASSUME SpTypes, NEW u \in SpUser
  PROVE  /\ Effective(u) \in Policy
         /\ policy[u] # NoPolicy => Effective(u) = policy[u]
BY PolicyAssumption DEF SpTypes, Text, Effective, Policy

\* A person's policy is set: his pod goes on, and he is noted.
SetsOne(u) ==
  /\ policy' \in [SpUser -> Text]
  /\ \A v \in SpUser \ {u} : policy'[v] = policy[v]
  /\ LogIs(spLog.faults, spLog.overlapped, spLog.strayed \cup {u}, spLog.direct \cup {u},
           spLog.late, spLog.crossed, spLog.reused)
  /\ UNCHANGED <<template, approved, terminal, leaving, ended, live, spTasks>>

\* update_policy sets one person's policy.
LEMMA SetPolicyDoes ==
  ASSUME SpTypes, NEW u \in SpUser, SetPolicy(u)
  PROVE  SetsOne(u)
<1>1. spLog.version + 1 \in 0..MaxVersions
  BY PolicyAssumption DEF SpTypes, SetPolicy
<1>2. PICK n \in SpLevel :
        policy' = [policy EXCEPT ![u] = [level |-> n, version |-> spLog.version + 1]]
  BY DEF SetPolicy
<1>3. [level |-> n, version |-> spLog.version + 1] \in Text
  BY <1>1 DEF Policy, Text
<1>4. policy' \in [SpUser -> Text] /\ \A v \in SpUser \ {u} : policy'[v] = policy[v]
  BY <1>2, <1>3 DEF SpTypes
<1>5. spLog' = [ops |-> spLog.ops + 1, faults |-> spLog.faults, version |-> spLog.version + 1,
                overlapped |-> spLog.overlapped, strayed |-> spLog.strayed \cup {u},
                direct |-> spLog.direct \cup {u}, late |-> spLog.late,
                crossed |-> spLog.crossed,
                reused |-> spLog.reused]
  BY DEF SetPolicy, SpTypes
<1>6. LogIs(spLog.faults, spLog.overlapped, spLog.strayed \cup {u}, spLog.direct \cup {u},
            spLog.late, spLog.crossed, spLog.reused)
  BY <1>1, <1>5 DEF SpTypes, LogIs
<1>7. QED
  BY <1>4, <1>6 DEF SetsOne, SetPolicy, pods

\* apply_template does, too.
LEMMA ApplyTemplateDoes ==
  ASSUME SpTypes, NEW u \in SpUser, NEW n \in SpLevel, ApplyTemplate(u, n)
  PROVE  SetsOne(u)
<1> DEFINE text == IF n \in BuiltIn THEN [level |-> n, version |-> 0] ELSE template[n]
<1>1. text \in Text
  BY PolicyAssumption DEF SpTypes, Text, Policy
<1>2. policy' = [policy EXCEPT ![u] = text]
  BY DEF ApplyTemplate
<1> HIDE DEF text
<1>3. policy' \in [SpUser -> Text] /\ \A v \in SpUser \ {u} : policy'[v] = policy[v]
  BY <1>1, <1>2 DEF SpTypes
<1>4. spLog' = [ops |-> spLog.ops + 1, faults |-> spLog.faults, version |-> spLog.version,
                overlapped |-> spLog.overlapped, strayed |-> spLog.strayed \cup {u},
                direct |-> spLog.direct \cup {u}, late |-> spLog.late,
                crossed |-> spLog.crossed,
                reused |-> spLog.reused]
  BY DEF ApplyTemplate, SpTypes
<1>5. LogIs(spLog.faults, spLog.overlapped, spLog.strayed \cup {u}, spLog.direct \cup {u},
            spLog.late, spLog.crossed, spLog.reused)
  BY <1>4 DEF SpTypes, LogIs
<1>6. QED
  BY <1>3, <1>5 DEF SetsOne, ApplyTemplate, pods

\* Approvals and templates come and go; people's policies, pods and sessions stay.
LEMMA TurnApprovalDoes ==
  ASSUME SpTypes, NEW u \in SpUser, TurnApproval(u)
  PROVE  /\ approved' \in SUBSET SpUser
         /\ LogIs(spLog.faults, spLog.overlapped, spLog.strayed, spLog.direct, spLog.late,
                  spLog.crossed, spLog.reused)
         /\ UNCHANGED <<template, policy, terminal, leaving, ended, live, spTasks>>
<1>1. spLog' = [ops |-> spLog.ops + 1, faults |-> spLog.faults, version |-> spLog.version,
                overlapped |-> spLog.overlapped, strayed |-> spLog.strayed,
                direct |-> spLog.direct, late |-> spLog.late, crossed |-> spLog.crossed,
                reused |-> spLog.reused]
  BY DEF TurnApproval, SpTypes
<1>2. LogIs(spLog.faults, spLog.overlapped, spLog.strayed, spLog.direct, spLog.late,
            spLog.crossed, spLog.reused)
  BY <1>1 DEF SpTypes, LogIs
<1>3. QED
  BY <1>2 DEF TurnApproval, SpTypes, pods

\* A new template, which nobody's policy follows yet.
LEMMA CreateTemplateDoes ==
  ASSUME SpTypes, NEW n \in SpLevel, CreateTemplate(n)
  PROVE  /\ template' \in [SpLevel -> Text]
         /\ \A m \in SpLevel \ {n} : template'[m] = template[m]
         /\ \E b \in BOOLEAN :
              /\ b = FALSE => spLog.overlapped = FALSE /\ Spreading = {}
              /\ LogIs(spLog.faults, b,
                       spLog.strayed \cup {u \in SpUser : Effective(u).level = n},
                       spLog.direct, spLog.late, spLog.crossed, spLog.reused)
         /\ UNCHANGED <<policy, approved, terminal, leaving, ended, live, spTasks>>
<1> DEFINE text == [level |-> n, version |-> spLog.version + 1]
           b == spLog.overlapped \/ Spreading # {}
           s == spLog.strayed \cup {u \in SpUser : Effective(u).level = n}
<1>1. spLog.version + 1 \in 0..MaxVersions
  BY PolicyAssumption DEF SpTypes, CreateTemplate
<1>2. text \in Text
  BY <1>1 DEF Policy, Text
<1>3. template' = [template EXCEPT ![n] = text]
  BY DEF CreateTemplate
<1>4. spLog' = [spLog EXCEPT !.ops = @ + 1, !.version = @ + 1, !.overlapped = b, !.strayed = s]
  BY DEF CreateTemplate
<1>5. b \in BOOLEAN /\ (b = FALSE => spLog.overlapped = FALSE /\ Spreading = {})
  BY DEF SpTypes
<1> HIDE DEF text, b, s
<1>6. template' \in [SpLevel -> Text] /\ \A m \in SpLevel \ {n} : template'[m] = template[m]
  BY <1>2, <1>3 DEF SpTypes
<1>7. spLog' = [ops |-> spLog.ops + 1, faults |-> spLog.faults, version |-> spLog.version + 1,
                overlapped |-> b, strayed |-> s, direct |-> spLog.direct, late |-> spLog.late,
                crossed |-> spLog.crossed,
                reused |-> spLog.reused]
  BY <1>4 DEF SpTypes
<1>8. LogIs(spLog.faults, b, s, spLog.direct, spLog.late, spLog.crossed, spLog.reused)
  BY <1>1, <1>7 DEF SpTypes, LogIs
<1>9. QED
  BY <1>5, <1>6, <1>8 DEF CreateTemplate, pods, s

\* A template goes, and nothing else.
LEMMA DeleteTemplateDoes ==
  ASSUME SpTypes, NEW n \in SpLevel, DeleteTemplate(n)
  PROVE  /\ template' \in [SpLevel -> Text]
         /\ \A m \in SpLevel : template'[m] \in {template[m], NoPolicy}
         /\ LogIs(spLog.faults, spLog.overlapped, spLog.strayed, spLog.direct, spLog.late,
                  spLog.crossed, spLog.reused)
         /\ UNCHANGED <<policy, approved, terminal, leaving, ended, live, spTasks>>
<1>1. spLog' = [ops |-> spLog.ops + 1, faults |-> spLog.faults, version |-> spLog.version,
                overlapped |-> spLog.overlapped, strayed |-> spLog.strayed,
                direct |-> spLog.direct, late |-> spLog.late, crossed |-> spLog.crossed,
                reused |-> spLog.reused]
  BY DEF DeleteTemplate, SpTypes
<1>2. LogIs(spLog.faults, spLog.overlapped, spLog.strayed, spLog.direct, spLog.late,
            spLog.crossed, spLog.reused)
  BY <1>1 DEF SpTypes, LogIs
<1>3. /\ template' \in [SpLevel -> Text]
      /\ \A m \in SpLevel : template'[m] \in {template[m], NoPolicy}
  BY DEF DeleteTemplate, SpTypes, Text
<1>4. QED
  BY <1>2, <1>3 DEF DeleteTemplate, pods

\* A changed template: a handler is to spread its text, and no other row has changed but the one
\* that was renamed.
Changes(h, n) ==
  /\ spTasks[h].op = "idle"
  /\ template' \in [SpLevel -> Text]
  /\ \A m \in SpLevel \ {n} : template'[m] \in {template[m], NoPolicy}
  /\ \E t \in SpTask :
       /\ Orderly(t) /\ t.op = "spread" /\ t.phase = "spread" /\ t.level = n
       /\ t.todo = {} /\ t.marked = {} /\ t.flushed = {}
       /\ Turns(h, t)
  /\ \E b \in BOOLEAN :
       /\ b = FALSE => spLog.overlapped = FALSE /\ Spreading = {}
       /\ LogIs(spLog.faults, b, spLog.strayed, spLog.direct, spLog.late, spLog.crossed,
                spLog.reused)
  /\ UNCHANGED <<policy, approved, terminal, leaving, ended, live>>

\* The task of one that spreads a template.
LEMMA FreshSpread ==
  ASSUME NEW n, NEW text
  PROVE  [SpRest EXCEPT !.op = "spread", !.phase = "spread", !.level = n, !.text = text]
           = [op |-> "spread", phase |-> "spread", who |-> "none", level |-> n, text |-> text,
              todo |-> {}, marked |-> {}, flushed |-> {}]
<1> DEFINE t == [op |-> "spread", phase |-> "spread", who |-> "none", level |-> n, text |-> text,
                 todo |-> {}, marked |-> {}, flushed |-> {}]
           u == [SpRest EXCEPT !.op = "spread", !.phase = "spread", !.level = n, !.text = text]
           fields == {"op", "phase", "who", "level", "text", "todo", "marked", "flushed"}
<1>1. DOMAIN u = fields /\ DOMAIN t = fields
  BY DEF SpRest
<1>2. /\ u["op"] = t["op"] /\ u["phase"] = t["phase"] /\ u["who"] = t["who"]
      /\ u["level"] = t["level"] /\ u["text"] = t["text"] /\ u["todo"] = t["todo"]
      /\ u["marked"] = t["marked"] /\ u["flushed"] = t["flushed"]
  BY DEF SpRest
<1>3. u = [x \in fields |-> u[x]] /\ t = [x \in fields |-> t[x]]
  BY <1>1, Zenon
<1> HIDE DEF u, t
<1>4. u = t
  BY <1>2, <1>3
<1>5. QED
  BY <1>4 DEF u, t

\* The task of one that makes a terminal.
LEMMA FreshMake ==
  ASSUME NEW w, NEW text
  PROVE  [SpRest EXCEPT !.op = "make", !.phase = "pod", !.who = w, !.text = text]
           = [op |-> "make", phase |-> "pod", who |-> w, level |-> "none", text |-> text,
              todo |-> {}, marked |-> {}, flushed |-> {}]
<1> DEFINE t == [op |-> "make", phase |-> "pod", who |-> w, level |-> "none", text |-> text,
                 todo |-> {}, marked |-> {}, flushed |-> {}]
           u == [SpRest EXCEPT !.op = "make", !.phase = "pod", !.who = w, !.text = text]
           fields == {"op", "phase", "who", "level", "text", "todo", "marked", "flushed"}
<1>1. DOMAIN u = fields /\ DOMAIN t = fields
  BY DEF SpRest
<1>2. /\ u["op"] = t["op"] /\ u["phase"] = t["phase"] /\ u["who"] = t["who"]
      /\ u["level"] = t["level"] /\ u["text"] = t["text"] /\ u["todo"] = t["todo"]
      /\ u["marked"] = t["marked"] /\ u["flushed"] = t["flushed"]
  BY DEF SpRest
<1>3. u = [x \in fields |-> u[x]] /\ t = [x \in fields |-> t[x]]
  BY <1>1, Zenon
<1> HIDE DEF u, t
<1>4. u = t
  BY <1>2, <1>3
<1>5. QED
  BY <1>4 DEF u, t

\* The second half of a template's change: the task that spreads it.
LEMMA SpreadDoes ==
  ASSUME SpTypes, NEW h \in SpHandler, NEW n \in SpLevel, NEW text \in Policy,
         Spread(h, n, text), template' \in [SpLevel -> Text],
         \A m \in SpLevel \ {n} : template'[m] \in {template[m], NoPolicy}
  PROVE  Changes(h, n)
<1> DEFINE t == [op |-> "spread", phase |-> "spread", who |-> "none", level |-> n, text |-> text,
                 todo |-> {}, marked |-> {}, flushed |-> {}]
           b == spLog.overlapped \/ Spreading # {}
           v == IF spLog.version < text.version THEN text.version ELSE spLog.version
<1>1. /\ t \in SpTask /\ Orderly(t) /\ t.op = "spread" /\ t.phase = "spread" /\ t.level = n
      /\ t.todo = {} /\ t.marked = {} /\ t.flushed = {}
  BY DEF SpTask, Orderly, SpRest, Text
<1>2. [SpRest EXCEPT !.op = "spread", !.phase = "spread", !.level = n, !.text = text] = t
  BY FreshSpread
<1>3. spTasks' = [spTasks EXCEPT ![h] = t]
  BY <1>2 DEF Spread
<1>4. b \in BOOLEAN /\ (b = FALSE => spLog.overlapped = FALSE /\ Spreading = {})
  BY DEF SpTypes
<1>5. v \in 0..MaxVersions
  BY DEF SpTypes, Policy
<1>6. spLog' = [spLog EXCEPT !.ops = @ + 1, !.version = v, !.overlapped = b]
  BY DEF Spread
<1> HIDE DEF t, b, v
<1>7. spLog' = [ops |-> spLog.ops + 1, faults |-> spLog.faults, version |-> v,
                overlapped |-> b, strayed |-> spLog.strayed, direct |-> spLog.direct,
                late |-> spLog.late, crossed |-> spLog.crossed,
                reused |-> spLog.reused]
  BY <1>6 DEF SpTypes
<1>8. LogIs(spLog.faults, b, spLog.strayed, spLog.direct, spLog.late, spLog.crossed, spLog.reused)
  BY <1>5, <1>7 DEF SpTypes, LogIs
<1>9. Turns(h, t)
  BY <1>1, <1>3, TaskTurns
<1>10. QED
  BY <1>1, <1>4, <1>8, <1>9 DEF Changes, Spread, pods

\* A new text is a change.
LEMMA RewriteTemplateDoes ==
  ASSUME SpTypes, NEW h \in SpHandler, NEW n \in SpLevel, RewriteTemplate(h, n)
  PROVE  Changes(h, n)
<1> DEFINE text == [level |-> n, version |-> spLog.version + 1]
<1>1. text \in Policy
  BY PolicyAssumption DEF SpTypes, RewriteTemplate, Policy
<1>2. template' = [template EXCEPT ![n] = text] /\ Spread(h, n, text)
  BY DEF RewriteTemplate
<1> HIDE DEF text
<1>3. template' \in [SpLevel -> Text] /\ \A m \in SpLevel \ {n} : template'[m] = template[m]
  BY <1>1, <1>2 DEF SpTypes, Text
<1>4. QED
  BY <1>1, <1>2, <1>3, SpreadDoes

\* A new name is a change, at the new name.
LEMMA RenameTemplateDoes ==
  ASSUME SpTypes, NEW h \in SpHandler, NEW n \in SpLevel, NEW new \in SpLevel,
         RenameTemplate(h, n, new)
  PROVE  Changes(h, new)
<1>1. template[n] \in Policy
  BY DEF SpTypes, Text, RenameTemplate
<1>2. /\ template' \in [SpLevel -> Text]
      /\ \A m \in SpLevel \ {new} : template'[m] \in {template[m], NoPolicy}
  BY DEF SpTypes, Text, RenameTemplate
<1>3. Spread(h, new, template[n])
  BY DEF RenameTemplate
<1>4. QED
  BY <1>1, <1>2, <1>3, SpreadDoes

\* A task that is to kill pods.
LEMMA KillsNow ==
  ASSUME NEW v \in SpTask, NEW todo
  PROVE  [v EXCEPT !.phase = "kill", !.todo = todo]
           = [op |-> v.op, phase |-> "kill", who |-> v.who, level |-> v.level, text |-> v.text,
              todo |-> todo, marked |-> v.marked, flushed |-> v.flushed]
<1> DEFINE t == [op |-> v.op, phase |-> "kill", who |-> v.who, level |-> v.level,
                 text |-> v.text, todo |-> todo, marked |-> v.marked, flushed |-> v.flushed]
           u == [v EXCEPT !.phase = "kill", !.todo = todo]
           fields == {"op", "phase", "who", "level", "text", "todo", "marked", "flushed"}
<1>1. DOMAIN u = fields /\ DOMAIN t = fields
  BY DEF SpTask
<1>2. /\ u["op"] = t["op"] /\ u["phase"] = t["phase"] /\ u["who"] = t["who"]
      /\ u["level"] = t["level"] /\ u["text"] = t["text"] /\ u["todo"] = t["todo"]
      /\ u["marked"] = t["marked"] /\ u["flushed"] = t["flushed"]
  BY DEF SpTask
<1>3. u = [x \in fields |-> u[x]] /\ t = [x \in fields |-> t[x]]
  BY <1>1, Zenon
<1> HIDE DEF u, t
<1>4. u = t
  BY <1>2, <1>3
<1>5. QED
  BY <1>4 DEF u, t

\* A task that has looked at a pod.
LEMMA LooksOn ==
  ASSUME NEW v \in SpTask, NEW todo, NEW flushed, NEW marked
  PROVE  [v EXCEPT !.todo = todo, !.flushed = flushed, !.marked = marked]
           = [op |-> v.op, phase |-> v.phase, who |-> v.who, level |-> v.level, text |-> v.text,
              todo |-> todo, marked |-> marked, flushed |-> flushed]
<1> DEFINE t == [op |-> v.op, phase |-> v.phase, who |-> v.who, level |-> v.level,
                 text |-> v.text, todo |-> todo, marked |-> marked, flushed |-> flushed]
           u == [v EXCEPT !.todo = todo, !.flushed = flushed, !.marked = marked]
           fields == {"op", "phase", "who", "level", "text", "todo", "marked", "flushed"}
<1>1. DOMAIN u = fields /\ DOMAIN t = fields
  BY DEF SpTask
<1>2. /\ u["op"] = t["op"] /\ u["phase"] = t["phase"] /\ u["who"] = t["who"]
      /\ u["level"] = t["level"] /\ u["text"] = t["text"] /\ u["todo"] = t["todo"]
      /\ u["marked"] = t["marked"] /\ u["flushed"] = t["flushed"]
  BY DEF SpTask
<1>3. u = [x \in fields |-> u[x]] /\ t = [x \in fields |-> t[x]]
  BY <1>1, Zenon
<1> HIDE DEF u, t
<1>4. u = t
  BY <1>2, <1>3
<1>5. QED
  BY <1>4 DEF u, t

\* The people at the level get the text; their pods are to go.
LEMMA SpreadPoliciesDoes ==
  ASSUME SpTypes, NEW h \in SpHandler, SpreadPolicies(h)
  PROVE  /\ spTasks[h].phase = "spread" /\ spTasks[h].op = "spread"
         /\ \E who \in SUBSET SpUser, t \in SpTask :
              LET v == spTasks[h] IN
              /\ who \in {AtLevel(v.level), AtLevelOrDefault(v.level)}
              /\ policy' \in [SpUser -> Text]
              /\ \A u \in who \cap approved : policy'[u] = v.text
              /\ \A u \in SpUser : u \notin who \cap approved => policy'[u] = policy[u]
              /\ Orderly(t) /\ t.op = "spread" /\ t.phase = "kill" /\ t.todo = who \cap approved
              /\ t.marked = {} /\ t.flushed = {}
              /\ Turns(h, t)
              /\ LogIs(spLog.faults, spLog.overlapped, Strayed(h, who), spLog.direct,
                       spLog.late, spLog.crossed, spLog.reused)
         /\ UNCHANGED <<template, approved, terminal, leaving, ended, live>>
<1> DEFINE v == spTasks[h]
<1>1. /\ v \in SpTask /\ v.phase = "spread" /\ v.op = "spread" /\ v.text \in Policy
      /\ v.marked = {} /\ v.flushed = {}
  BY DEF SpTypes, SpreadPolicies, SpTask, Orderly
<1>2. PICK who \in {AtLevel(v.level), AtLevelOrDefault(v.level)} :
       /\ policy' = [u \in SpUser |-> IF u \in who \cap approved THEN v.text ELSE policy[u]]
       /\ spTasks' = [spTasks EXCEPT ![h].phase = "kill", ![h].todo = who \cap approved]
       /\ spLog' = [spLog EXCEPT !.strayed = Strayed(h, who)]
  BY DEF SpreadPolicies
<1>3. who \in SUBSET SpUser
  BY DEF AtLevel, AtLevelOrDefault
<1> DEFINE todo == who \cap approved
           s == Strayed(h, who)
           t == [op |-> "spread", phase |-> "kill", who |-> v.who, level |-> v.level,
                 text |-> v.text, todo |-> todo, marked |-> {}, flushed |-> {}]
<1>4. policy' \in [SpUser -> Text]
  BY <1>1, <1>2 DEF SpTypes, Text
<1>5. /\ \A u \in todo : policy'[u] = v.text
      /\ \A u \in SpUser : u \notin todo => policy'[u] = policy[u]
  BY <1>2, <1>3
<1>6. /\ t \in SpTask /\ Orderly(t) /\ t.op = "spread" /\ t.phase = "kill" /\ t.todo = todo
      /\ t.marked = {} /\ t.flushed = {}
  BY <1>1, <1>3 DEF SpTask, Orderly, SpRest
<1>7. spTasks' = [spTasks EXCEPT ![h] = t]
  <2> HIDE DEF todo
  <2>1. spTasks' = [spTasks EXCEPT ![h] = [spTasks[h] EXCEPT !.phase = "kill", !.todo = todo]]
    BY <1>2 DEF SpTypes, todo
  <2>2. [spTasks[h] EXCEPT !.phase = "kill", !.todo = todo] = t
    BY <1>1, KillsNow
  <2>3. QED
    BY <2>1, <2>2
<1> HIDE DEF s, t, todo
<1>8. spLog' = [ops |-> spLog.ops, faults |-> spLog.faults, version |-> spLog.version,
                overlapped |-> spLog.overlapped, strayed |-> s, direct |-> spLog.direct,
                late |-> spLog.late, crossed |-> spLog.crossed,
                reused |-> spLog.reused]
  BY <1>2 DEF SpTypes, s
<1>9. LogIs(spLog.faults, spLog.overlapped, s, spLog.direct, spLog.late, spLog.crossed,
            spLog.reused)
  BY <1>8 DEF SpTypes, LogIs
<1>10. Turns(h, t)
  BY <1>6, <1>7, TaskTurns
<1>11. UNCHANGED <<template, approved, terminal, leaving, ended, live>>
  BY DEF SpreadPolicies, pods
<1>12. QED
  BY <1>1, <1>2, <1>3, <1>4, <1>5, <1>6, <1>9, <1>10, <1>11 DEF s, todo

\* A pod is to go, or was not there; its maker, if there is one, is noted.
LEMMA KillPodDoes ==
  ASSUME SpTypes, NEW h \in SpHandler, NEW u \in SpUser, KillPod(h, u)
  PROVE  /\ spTasks[h].phase = "kill" /\ u \in spTasks[h].todo
         /\ \E t \in SpTask :
              LET v == spTasks[h] IN
              /\ Orderly(t) /\ t.op = v.op /\ t.phase = "kill" /\ t.todo = v.todo \ {u}
              /\ Over(u) => t.marked = v.marked /\ t.flushed = v.flushed
              /\ ~Over(u)
                   => t.marked = {u} /\ t.flushed = v.flushed \cup v.marked
              /\ Turns(h, t)
         /\ leaving' = IF Over(u) THEN leaving ELSE leaving \cup {u}
         /\ \E late, crossing :
              /\ Making(u) = {} => late = spLog.late /\ crossing = spLog.crossed
              /\ Making(u) # {} => late = spLog.late \cup {u} /\ crossing = spLog.crossed \cup {u}
              /\ LogIs(spLog.faults, spLog.overlapped, spLog.strayed, spLog.direct, late,
                       crossing, spLog.reused)
         /\ UNCHANGED <<template, policy, approved, terminal, ended, live>>
<1> DEFINE v == spTasks[h]
<1>1. /\ v \in SpTask /\ v.phase = "kill" /\ u \in v.todo /\ Orderly(v)
      /\ v.op = "spread" /\ v.text \in Policy
  BY DEF SpTypes, KillPod, SpTask, Orderly
<1> DEFINE todo == v.todo \ {u}
           marked == IF Over(u) THEN v.marked ELSE {u}
           flushed == IF Over(u) THEN v.flushed ELSE v.flushed \cup v.marked
           t == [op |-> v.op, phase |-> v.phase, who |-> v.who, level |-> v.level,
                 text |-> v.text, todo |-> todo, marked |-> marked, flushed |-> flushed]
           late == IF Making(u) = {} THEN spLog.late ELSE spLog.late \cup {u}
           crossing == IF Making(u) = {} THEN spLog.crossed ELSE spLog.crossed \cup {u}
<1>2. /\ todo \subseteq SpUser /\ marked \subseteq SpUser \ todo /\ flushed \subseteq SpUser
  BY <1>1 DEF SpTask, Orderly
<1>3. /\ Over(u) => marked = v.marked /\ flushed = v.flushed
      /\ ~Over(u) => marked = {u} /\ flushed = v.flushed \cup v.marked
      /\ Making(u) = {} => late = spLog.late /\ crossing = spLog.crossed
      /\ Making(u) # {} => late = spLog.late \cup {u} /\ crossing = spLog.crossed \cup {u}
  OBVIOUS
<1>4. spTasks' = [spTasks EXCEPT ![h] = [v EXCEPT !.todo = todo, !.flushed = flushed,
                                                  !.marked = marked]]
  <2>1. CASE Over(u)
    <3>1. spTasks' = [spTasks EXCEPT ![h] = [v EXCEPT !.todo = todo]]
      BY <2>1 DEF KillPod, SpTypes, Over
    <3>2. [v EXCEPT !.todo = todo]
            = [op |-> v.op, phase |-> v.phase, who |-> v.who, level |-> v.level,
               text |-> v.text, todo |-> todo, marked |-> v.marked, flushed |-> v.flushed]
      BY <1>1 DEF SpTask
    <3> HIDE DEF todo, marked, flushed
    <3>3. [v EXCEPT !.todo = todo, !.flushed = flushed, !.marked = marked]
            = [op |-> v.op, phase |-> v.phase, who |-> v.who, level |-> v.level,
               text |-> v.text, todo |-> todo, marked |-> marked, flushed |-> flushed]
      <4> HIDE DEF v
      <4>1. v \in SpTask
        BY <1>1
      <4>2. QED
        BY <4>1, LooksOn
    <3>4. QED
      BY <3>1, <3>2, <3>3, <2>1, <1>3
  <2>2. CASE ~Over(u)
    BY <2>2 DEF KillPod, Killed, SpTypes, Over
  <2>3. QED
    BY <2>1, <2>2
<1> HIDE DEF todo, marked, flushed
<1>5. [v EXCEPT !.todo = todo, !.flushed = flushed, !.marked = marked] = t
  <2> HIDE DEF v
  <2>1. v \in SpTask
    BY <1>1
  <2>2. QED
    BY <2>1, LooksOn DEF t
<1>6. /\ t \in SpTask /\ Orderly(t) /\ t.op = v.op /\ t.phase = "kill" /\ t.todo = todo
      /\ t.marked = marked /\ t.flushed = flushed
  BY <1>1, <1>2 DEF SpTask, Orderly, SpRest
<1> HIDE DEF t
<1>7. Turns(h, t)
  BY <1>4, <1>5, <1>6, TaskTurns
<1>8. leaving' = IF Over(u) THEN leaving ELSE leaving \cup {u}
  BY DEF KillPod, Over
<1>9. spLog' = [spLog EXCEPT !.late = late, !.crossed = crossing]
  <2>1. CASE Making(u) = {}
    BY <2>1 DEF KillPod, SpTypes
  <2>2. CASE Making(u) # {}
    BY <2>2 DEF KillPod
  <2>3. QED
    BY <2>1, <2>2
<1> HIDE DEF late, crossing
<1>10. spLog' = [ops |-> spLog.ops, faults |-> spLog.faults, version |-> spLog.version,
                 overlapped |-> spLog.overlapped, strayed |-> spLog.strayed,
                 direct |-> spLog.direct, late |-> late, crossed |-> crossing,
                 reused |-> spLog.reused]
  BY <1>9 DEF SpTypes
<1>11. LogIs(spLog.faults, spLog.overlapped, spLog.strayed, spLog.direct, late, crossing,
             spLog.reused)
  BY <1>10 DEF SpTypes, LogIs
<1>12. UNCHANGED <<template, policy, approved, terminal, ended, live>>
  BY DEF KillPod
<1>13. QED
  BY <1>1, <1>3, <1>6, <1>7, <1>8, <1>11, <1>12 DEF todo

\* The sessions are ended, and the handler rests.
LEMMA CommitKillsDoes ==
  ASSUME SpTypes, NEW h \in SpHandler, CommitKills(h)
  PROVE  /\ spTasks[h].phase = "kill" /\ spTasks[h].op = "spread" /\ spTasks[h].todo = {}
         /\ Turns(h, SpRest)
         /\ live' = live \ (spTasks[h].marked \cup spTasks[h].flushed) /\ live' \subseteq live
         /\ UNCHANGED <<template, policy, approved, terminal, leaving, ended, spLog>>
<1>1. spTasks' = [spTasks EXCEPT ![h] = SpRest]
  BY DEF CommitKills, SpFinish
<1>2. Turns(h, SpRest)
  BY <1>1, SpResting, TaskTurns
<1>3. spTasks[h].op = "spread"
  BY DEF CommitKills, SpTypes, SpTask, Orderly
<1>4. QED
  BY <1>2, <1>3 DEF CommitKills, pods

\* A terminal is asked for, with the policy that the person has.
LEMMA BeginMakeDoes ==
  ASSUME SpTypes, NEW h \in SpHandler, NEW u \in SpUser, BeginMake(h, u)
  PROVE  /\ spTasks[h].op = "idle" /\ Making(u) = {}
         /\ leaving \subseteq leaving' /\ leaving' \subseteq leaving \cup {u}
         /\ u \in leaving' => u \in leaving \/ u \in ended
         /\ live' = live \ {u} /\ live' \subseteq live
         /\ \E t \in SpTask :
              /\ Orderly(t) /\ t.op = "make" /\ t.phase = "pod" /\ t.who = u
              /\ t.text = Effective(u) /\ t.todo = {} /\ t.marked = {} /\ t.flushed = {}
              /\ Turns(h, t)
         /\ \E crossing : /\ spLog.crossed \subseteq crossing
                          /\ LogIs(spLog.faults, spLog.overlapped, spLog.strayed, spLog.direct,
                                   spLog.late, crossing, spLog.reused \ {u})
         /\ UNCHANGED <<template, policy, approved, terminal, ended>>
<1> DEFINE t == [op |-> "make", phase |-> "pod", who |-> u, level |-> "none",
                 text |-> Effective(u), todo |-> {}, marked |-> {}, flushed |-> {}]
           crossing == IF \E g \in SpHandler : u \in spTasks[g].marked
                       THEN spLog.crossed \cup {u} ELSE spLog.crossed
<1>1. Effective(u) \in Policy
  BY EffectiveIs
<1>2. /\ t \in SpTask /\ Orderly(t) /\ t.op = "make" /\ t.phase = "pod" /\ t.who = u
      /\ t.text = Effective(u) /\ t.todo = {} /\ t.marked = {} /\ t.flushed = {}
  BY <1>1 DEF SpTask, Orderly, SpRest, Text
<1>3. spTasks' = [spTasks EXCEPT ![h] = t]
  BY FreshMake DEF BeginMake
<1>4. spLog.crossed \subseteq crossing
  OBVIOUS
<1>5. spLog' = [spLog EXCEPT !.ops = @ + 1, !.crossed = crossing,
                             !.reused = @ \ {u}]
  BY DEF BeginMake
<1> HIDE DEF t, crossing
<1>6. Turns(h, t)
  BY <1>2, <1>3, TaskTurns
<1>7. spLog' = [ops |-> spLog.ops + 1, faults |-> spLog.faults, version |-> spLog.version,
                overlapped |-> spLog.overlapped, strayed |-> spLog.strayed,
                direct |-> spLog.direct, late |-> spLog.late, crossed |-> crossing,
                reused |-> spLog.reused \ {u}]
  BY <1>5 DEF SpTypes
<1>8. LogIs(spLog.faults, spLog.overlapped, spLog.strayed, spLog.direct, spLog.late, crossing,
            spLog.reused \ {u})
  BY <1>7 DEF SpTypes, LogIs
<1>9. QED
  BY <1>2, <1>4, <1>6, <1>8 DEF BeginMake

\* The pod is made, or is there.
LEMMA MakePodDoes ==
  ASSUME SpTypes, NEW h \in SpHandler, MakePod(h)
  PROVE  LET v == spTasks[h] IN
         /\ v.phase = "pod" /\ v.op = "make" /\ v.who \in SpUser /\ v.text \in Policy
         /\ terminal' \in [SpUser -> Text]
         /\ \A w \in SpUser \ {v.who} : terminal'[w] = terminal[w]
         /\ terminal[v.who] = NoPolicy => terminal'[v.who] = v.text
         /\ terminal[v.who] # NoPolicy => terminal'[v.who] = terminal[v.who]
         /\ \E t \in SpTask :
              /\ Orderly(t) /\ t.op = "make" /\ t.phase = "row" /\ t.who = v.who
              /\ t.todo = {} /\ t.marked = {} /\ t.flushed = {}
              /\ Turns(h, t)
         /\ \E direct, late, reused :
              /\ spLog.reused \subseteq reused
              /\ v.who \in leaving /\ terminal[v.who] # NoPolicy => v.who \in reused
              /\ \/ direct = spLog.direct /\ late = spLog.late
                 \/ /\ terminal[v.who] = NoPolicy /\ v.text = Effective(v.who)
                    /\ direct = spLog.direct \ {v.who} /\ late = spLog.late \ {v.who}
              /\ LogIs(spLog.faults, spLog.overlapped, spLog.strayed, direct, late,
                       spLog.crossed, reused)
         /\ UNCHANGED <<template, policy, approved, leaving, ended, live>>
<1> DEFINE v == spTasks[h]
<1>1. /\ v \in SpTask /\ v.phase = "pod" /\ v.op = "make" /\ v.who \in SpUser
      /\ v.text \in Policy /\ v.todo = {} /\ v.marked = {} /\ v.flushed = {}
  BY DEF SpTypes, MakePod, SpTask, Orderly
<1> DEFINE t == [op |-> "make", phase |-> "row", who |-> v.who, level |-> v.level,
                 text |-> v.text, todo |-> {}, marked |-> {}, flushed |-> {}]
           fresh == terminal[v.who] = NoPolicy /\ Effective(v.who) = v.text
           direct == IF fresh THEN spLog.direct \ {v.who} ELSE spLog.direct
           late == IF fresh THEN spLog.late \ {v.who} ELSE spLog.late
           reused == IF terminal[v.who] # NoPolicy /\ v.who \in leaving \cup ended
                     THEN spLog.reused \cup {v.who} ELSE spLog.reused
<1>2. /\ t \in SpTask /\ Orderly(t) /\ t.op = "make" /\ t.phase = "row" /\ t.who = v.who
      /\ t.todo = {} /\ t.marked = {} /\ t.flushed = {}
  BY <1>1 DEF SpTask, Orderly, SpRest
<1>3. spTasks' = [spTasks EXCEPT ![h] = t]
  <2>1. spTasks' = [spTasks EXCEPT ![h] = [v EXCEPT !.phase = "row"]]
    BY DEF MakePod, SpTypes
  <2>2. [v EXCEPT !.phase = "row"] = t
    BY <1>1 DEF SpTask
  <2>3. QED
    BY <2>1, <2>2
<1>4. \/ direct = spLog.direct /\ late = spLog.late
      \/ /\ terminal[v.who] = NoPolicy /\ v.text = Effective(v.who)
         /\ direct = spLog.direct \ {v.who} /\ late = spLog.late \ {v.who}
  OBVIOUS
<1>12. /\ spLog.reused \subseteq reused
       /\ v.who \in leaving /\ terminal[v.who] # NoPolicy => v.who \in reused
  OBVIOUS
<1>5. spLog' = [spLog EXCEPT !.direct = direct, !.late = late, !.reused = reused]
  <2>1. CASE terminal[v.who] = NoPolicy
    BY <2>1 DEF MakePod, SpTypes
  <2>2. CASE terminal[v.who] # NoPolicy
    BY <2>2 DEF MakePod, SpTypes
  <2>3. QED
    BY <2>1, <2>2
<1> HIDE DEF t, fresh, direct, late, reused
<1>6. Turns(h, t)
  BY <1>2, <1>3, TaskTurns
<1>7. spLog' = [ops |-> spLog.ops, faults |-> spLog.faults, version |-> spLog.version,
                overlapped |-> spLog.overlapped, strayed |-> spLog.strayed,
                direct |-> direct, late |-> late, crossed |-> spLog.crossed,
                reused |-> reused]
  BY <1>5 DEF SpTypes
<1>8. LogIs(spLog.faults, spLog.overlapped, spLog.strayed, direct, late, spLog.crossed,
            reused)
  BY <1>7 DEF SpTypes, LogIs
<1>9. /\ terminal' \in [SpUser -> Text]
      /\ \A w \in SpUser \ {v.who} : terminal'[w] = terminal[w]
      /\ terminal[v.who] = NoPolicy => terminal'[v.who] = v.text
      /\ terminal[v.who] # NoPolicy => terminal'[v.who] = terminal[v.who]
  BY <1>1 DEF MakePod, SpTypes, Text
<1>10. UNCHANGED <<template, policy, approved, leaving, ended, live>>
  BY DEF MakePod
<1>11. QED
  BY <1>1, <1>2, <1>4, <1>6, <1>8, <1>9, <1>10, <1>12

\* The session's row is written, and the handler rests.
LEMMA StoreSessionDoes ==
  ASSUME SpTypes, NEW h \in SpHandler, StoreSession(h)
  PROVE  LET v == spTasks[h] IN
         /\ v.phase = "row" /\ v.op = "make" /\ v.who \in SpUser /\ ~RowLocked(v.who)
         /\ live' = live \cup {v.who} /\ live' \in SUBSET SpUser
         /\ Turns(h, SpRest)
         /\ \E crossing :
              /\ spLog.crossed \subseteq crossing
              /\ (\E g \in SpHandler : v.who \in spTasks[g].marked) => v.who \in crossing
              /\ LogIs(spLog.faults, spLog.overlapped, spLog.strayed, spLog.direct,
                       spLog.late, crossing, spLog.reused)
         /\ UNCHANGED <<template, policy, approved, terminal, leaving, ended>>
<1> DEFINE v == spTasks[h]
           crossing == IF \E g \in SpHandler : v.who \in spTasks[g].marked
                       THEN spLog.crossed \cup {v.who} ELSE spLog.crossed
<1>1. v.phase = "row" /\ v.op = "make" /\ v.who \in SpUser
  BY DEF SpTypes, StoreSession, SpTask, Orderly
<1>2. spTasks' = [spTasks EXCEPT ![h] = SpRest]
  BY DEF StoreSession, SpFinish
<1>3. Turns(h, SpRest)
  BY <1>2, SpResting, TaskTurns
<1>4. /\ spLog.crossed \subseteq crossing
      /\ (\E g \in SpHandler : v.who \in spTasks[g].marked) => v.who \in crossing
  OBVIOUS
<1>5. spLog' = [spLog EXCEPT !.crossed = crossing]
  BY DEF StoreSession
<1> HIDE DEF crossing
<1>6. spLog' = [ops |-> spLog.ops, faults |-> spLog.faults, version |-> spLog.version,
                overlapped |-> spLog.overlapped, strayed |-> spLog.strayed,
                direct |-> spLog.direct, late |-> spLog.late, crossed |-> crossing,
                reused |-> spLog.reused]
  BY <1>5 DEF SpTypes
<1>7. LogIs(spLog.faults, spLog.overlapped, spLog.strayed, spLog.direct, spLog.late, crossing,
            spLog.reused)
  BY <1>6 DEF SpTypes, LogIs
<1>8. live' = live \cup {v.who} /\ live' \in SUBSET SpUser
  BY <1>1 DEF StoreSession, SpTypes
<1>9. QED
  BY <1>1, <1>3, <1>4, <1>7, <1>8 DEF StoreSession, pods

\* The person ends the session.
LEMMA EndSessionDoes ==
  ASSUME SpTypes, NEW u \in SpUser, EndSession(u)
  PROVE  /\ Making(u) = {}
         /\ leaving' = IF terminal[u] = NoPolicy THEN leaving ELSE leaving \cup {u}
         /\ live' = live \ {u} /\ live' \subseteq live
         /\ UNCHANGED <<template, policy, approved, terminal, ended, spTasks, spLog>>
BY DEF SpTypes, EndSession

\* A fault: one handler stands or falls, and nothing is promised from then on.
LEMMA FaultDoes ==
  ASSUME SpTypes, NEW h \in SpHandler,
         (\E u \in SpUser : KillFails(h, u)) \/ SpDies(h)
  PROVE  /\ \E t \in SpTask :
              /\ Orderly(t) /\ (t.op = "idle" \/ (t.op = spTasks[h].op /\ t.op = "spread"))
              /\ Turns(h, t)
         /\ LogIs(spLog.faults + 1, spLog.overlapped, spLog.strayed, spLog.direct, spLog.late,
                  spLog.crossed, spLog.reused)
         /\ UNCHANGED <<template, policy, approved, terminal, leaving, ended, live>>
<1>1. spLog' = [ops |-> spLog.ops, faults |-> spLog.faults + 1, version |-> spLog.version,
                overlapped |-> spLog.overlapped, strayed |-> spLog.strayed,
                direct |-> spLog.direct, late |-> spLog.late, crossed |-> spLog.crossed,
                reused |-> spLog.reused]
  BY DEF KillFails, SpDies, SpFault, SpTypes
<1>2. LogIs(spLog.faults + 1, spLog.overlapped, spLog.strayed, spLog.direct, spLog.late,
            spLog.crossed, spLog.reused)
  BY <1>1 DEF SpTypes, LogIs
<1>3. UNCHANGED <<template, policy, approved, terminal, leaving, ended, live>>
  BY DEF KillFails, SpDies, pods
<1>4. CASE SpDies(h)
  <2>1. spTasks' = [spTasks EXCEPT ![h] = SpRest]
    BY <1>4 DEF SpDies, SpFinish
  <2>2. Turns(h, SpRest)
    BY <2>1, SpResting, TaskTurns
  <2>3. QED
    BY <2>2, <1>2, <1>3, SpResting
<1>5. ASSUME NEW u \in SpUser, KillFails(h, u) PROVE \E t \in SpTask :
                /\ Orderly(t) /\ t.op = spTasks[h].op /\ t.op = "spread" /\ Turns(h, t)
  <2> DEFINE v == spTasks[h]
             todo == v.todo \ {u}
             t == [op |-> v.op, phase |-> v.phase, who |-> v.who, level |-> v.level,
                   text |-> v.text, todo |-> todo, marked |-> v.marked, flushed |-> v.flushed]
  <2>1. /\ v \in SpTask /\ v.phase = "kill" /\ v.op = "spread" /\ v.text \in Policy
        /\ v.marked \subseteq SpUser \ v.todo
    BY <1>5 DEF SpTypes, KillFails, SpTask, Orderly
  <2>2. t \in SpTask /\ Orderly(t) /\ t.op = v.op
    BY <2>1 DEF SpTask, Orderly, SpRest
  <2>3. [v EXCEPT !.todo = todo] = t
    BY <2>1 DEF SpTask
  <2>4. spTasks' = [spTasks EXCEPT ![h] = [v EXCEPT !.todo = todo]]
    BY <1>5 DEF KillFails, SpTypes
  <2>5. spTasks' = [spTasks EXCEPT ![h] = t]
    BY <2>3, <2>4
  <2> HIDE DEF t
  <2>6. Turns(h, t)
    BY <2>2, <2>5, TaskTurns
  <2>7. QED
    BY <2>1, <2>2, <2>6
<1>6. QED
  BY <1>2, <1>3, <1>4, <1>5

-----------------------------------------------------------------------------
(* The invariant *)

\* The log after a step has its type.
LEMMA LogTyped ==
  ASSUME SpTypes, NEW f \in Nat, NEW b \in BOOLEAN, NEW s, NEW d, NEW l, NEW c, NEW r,
         LogIs(f, b, s, d, l, c, r)
  PROVE  /\ spLog' = [ops |-> spLog'.ops, faults |-> spLog'.faults, version |-> spLog'.version,
                      overlapped |-> spLog'.overlapped, strayed |-> spLog'.strayed,
                      direct |-> spLog'.direct, late |-> spLog'.late, crossed |-> spLog'.crossed,
                      reused |-> spLog'.reused]
         /\ spLog'.ops \in Nat /\ spLog'.faults \in Nat /\ spLog'.version \in 0..MaxVersions
         /\ spLog'.overlapped \in BOOLEAN
BY DEF LogIs

\* The handlers after a step have theirs, and each person has one maker still.
LEMMA TasksTyped ==
  ASSUME SpTypes, OneMaker, NEW h \in SpHandler, NEW t \in SpTask, Turns(h, t), Orderly(t),
         t.op = "make" => \/ spTasks[h].op = "make" /\ spTasks[h].who = t.who
                          \/ Making(t.who) = {}
  PROVE  /\ spTasks' \in [SpHandler -> SpTask]
         /\ \A k \in SpHandler : Orderly(spTasks'[k])
         /\ OneMaker'
<1>1. spTasks' \in [SpHandler -> SpTask] /\ \A k \in SpHandler : Orderly(spTasks'[k])
  BY DEF Turns, SpTypes
<1>2. OneMaker'
  BY DEF Turns, OneMaker, Making
<1>3. QED
  BY <1>1, <1>2

\* At first nobody has a policy or a terminal.
LEMMA SpInitInv == SpInit => SpInv
<1> SUFFICES ASSUME SpInit PROVE SpInv
  OBVIOUS
<1>1. spTasks \in [SpHandler -> SpTask] /\ \A h \in SpHandler : spTasks[h] = SpRest
  BY SpResting DEF SpInit
<1>2. SpTypes
  BY <1>1, SpResting, PolicyAssumption DEF SpInit, SpTypes, Text
<1>3. OneMaker
  BY <1>1, SpResting DEF OneMaker
<1>4. PodsFollow
  BY <1>1, SpResting DEF PodsFollow, Follows, SpInit, Stays
<1>5. Touched(spTasks) = {}
  BY <1>1, SpResting DEF Touched
<1>6. SessionsTell
  BY <1>1, <1>5, SpResting DEF SessionsTell, Stays, SpInit
<1>7. TemplatesFollowed
  BY <1>1, SpResting DEF TemplatesFollowed, SpInit
<1>8. QED
  BY <1>2, <1>3, <1>4, <1>6, <1>7 DEF SpInv

\* A policy is set for one person: he is excused, and strays.
LEMMA SetsOneInv ==
  ASSUME SpInv, NEW u \in SpUser, SetsOne(u)
  PROVE  SpInv'
<1>1. SpTypes /\ OneMaker
  BY DEF SpInv
<1>2. /\ policy' \in [SpUser -> Text] /\ \A v \in SpUser \ {u} : policy'[v] = policy[v]
      /\ UNCHANGED <<template, approved, terminal, leaving, ended, live, spTasks>>
      /\ spLog'.faults = spLog.faults /\ spLog'.overlapped = spLog.overlapped
      /\ spLog'.strayed = spLog.strayed \cup {u} /\ spLog'.direct = spLog.direct \cup {u}
      /\ spLog'.late = spLog.late /\ spLog'.crossed = spLog.crossed /\ spLog'.reused = spLog.reused
  BY DEF SetsOne, LogIs
<1>3. SpTypes' /\ OneMaker'
  <2>1. OneMaker'
    BY <1>1, <1>2 DEF OneMaker
  <2>2. SpTypes'
    BY <1>1, <1>2, LogTyped DEF SetsOne, SpTypes
  <2>3. QED
    BY <2>1, <2>2
<1>4. \A v \in SpUser \ {u} : Effective(v)' = Effective(v)
  BY <1>2 DEF Effective
<1>5. Excused' = Excused \cup {u}
  BY <1>2 DEF Excused
<1>6. ASSUME spLog'.faults = 0 PROVE PodsFollow'
  <2>1. PodsFollow
    BY <1>2, <1>6 DEF SpInv
  <2>2. \A w \in SpUser : Follows(w)'
    BY <2>1, <1>2, <1>4, <1>5 DEF PodsFollow, Follows, Stays
  <2>3. ASSUME NEW h \in SpHandler, spTasks[h].phase = "pod"
        PROVE  (spTasks[h].text = Effective(spTasks[h].who) \/ spTasks[h].who \in Excused)'
    <3>1. PICK w \in SpUser : w = spTasks[h].who /\ spTasks' = spTasks
      BY <2>3, <1>1, <1>2 DEF SpTypes, SpTask, Orderly
    <3>2. spTasks[h].text = Effective(w) \/ w \in Excused
      BY <2>1, <2>3, <3>1 DEF PodsFollow, Follows, Stays
    <3>3. w \notin Excused' => spTasks[h].text = Effective(w)'
      BY <3>1, <3>2, <1>4, <1>5
    <3>4. QED
      BY <3>1, <3>3 DEF Effective
  <2>4. QED
    BY <2>2, <2>3, <1>2 DEF PodsFollow, Follows, Stays
<1>7. ASSUME spLog'.faults = 0 PROVE SessionsTell'
  BY <1>2, <1>7 DEF SpInv, SessionsTell, Stays
<1>8. ASSUME spLog'.faults = 0, ~spLog'.overlapped PROVE TemplatesFollowed'
  BY <1>2, <1>8 DEF SpInv, TemplatesFollowed
<1>9. QED
  BY <1>3, <1>6, <1>7, <1>8 DEF SpInv

\* What holds of the pods and of the sessions, as long as nothing about people changes.
LEMMA PeopleStay ==
  ASSUME SpInv, spLog'.faults = 0, spLog'.faults = spLog.faults,
         spLog'.direct = spLog.direct, spLog'.late = spLog.late,
         spLog'.crossed = spLog.crossed, spLog'.reused = spLog.reused,
         UNCHANGED <<policy, terminal, leaving, ended, live, spTasks>>
  PROVE  PodsFollow' /\ SessionsTell'
<1>1. Excused' = Excused /\ \A u : Effective(u)' = Effective(u)
  BY DEF Excused, Effective
<1>2. PodsFollow'
  BY <1>1 DEF SpInv, PodsFollow, Follows, Stays
<1>3. SessionsTell'
  BY DEF SpInv, SessionsTell, Stays
<1>4. QED
  BY <1>2, <1>3

\* Approvals come and go.
LEMMA TurnApprovalInv ==
  ASSUME SpInv, NEW u \in SpUser, TurnApproval(u)
  PROVE  SpInv'
<1>1. SpTypes /\ OneMaker
  BY DEF SpInv
<1>2. /\ approved' \in SUBSET SpUser
      /\ LogIs(spLog.faults, spLog.overlapped, spLog.strayed, spLog.direct, spLog.late,
               spLog.crossed, spLog.reused)
      /\ UNCHANGED <<template, policy, terminal, leaving, ended, live, spTasks>>
  BY <1>1, TurnApprovalDoes
<1>3. /\ spLog'.faults = spLog.faults /\ spLog'.overlapped = spLog.overlapped
      /\ spLog'.strayed = spLog.strayed /\ spLog'.direct = spLog.direct
      /\ spLog'.late = spLog.late /\ spLog'.crossed = spLog.crossed /\ spLog'.reused = spLog.reused
  BY <1>2 DEF LogIs
<1>4. SpTypes' /\ OneMaker'
  <2>1. SpTypes'
    BY <1>1, <1>2, LogTyped DEF SpTypes
  <2>2. OneMaker'
    BY <1>1, <1>2 DEF OneMaker
  <2>3. QED
    BY <2>1, <2>2
<1>5. ASSUME spLog'.faults = 0 PROVE PodsFollow' /\ SessionsTell'
  BY <1>2, <1>3, <1>5, PeopleStay
<1>6. ASSUME spLog'.faults = 0, ~spLog'.overlapped PROVE TemplatesFollowed'
  BY <1>2, <1>3, <1>6 DEF SpInv, TemplatesFollowed
<1>7. QED
  BY <1>4, <1>5, <1>6 DEF SpInv

\* A template is made: the people at its level stray until it is changed.
LEMMA CreateTemplateInv ==
  ASSUME SpInv, NEW n \in SpLevel, CreateTemplate(n)
  PROVE  SpInv'
<1>1. SpTypes /\ OneMaker
  BY DEF SpInv
<1>2. /\ template' \in [SpLevel -> Text]
      /\ \A m \in SpLevel \ {n} : template'[m] = template[m]
      /\ UNCHANGED <<policy, approved, terminal, leaving, ended, live, spTasks>>
  BY <1>1, CreateTemplateDoes
<1>3. PICK b \in BOOLEAN :
        /\ b = FALSE => spLog.overlapped = FALSE /\ Spreading = {}
        /\ LogIs(spLog.faults, b, spLog.strayed \cup {u \in SpUser : Effective(u).level = n},
                 spLog.direct, spLog.late, spLog.crossed, spLog.reused)
  BY <1>1, CreateTemplateDoes
<1>4. /\ spLog'.faults = spLog.faults /\ spLog'.overlapped = b
      /\ spLog'.strayed = spLog.strayed \cup {u \in SpUser : Effective(u).level = n}
      /\ spLog'.direct = spLog.direct /\ spLog'.late = spLog.late
      /\ spLog'.crossed = spLog.crossed /\ spLog'.reused = spLog.reused
  BY <1>3 DEF LogIs
<1>5. SpTypes' /\ OneMaker'
  <2>1. spLog.faults \in Nat
    BY <1>1 DEF SpTypes
  <2>2. SpTypes'
    BY <1>1, <1>2, <1>3, <2>1, LogTyped DEF SpTypes
  <2>3. OneMaker'
    BY <1>1, <1>2 DEF OneMaker
  <2>4. QED
    BY <2>2, <2>3
<1>6. ASSUME spLog'.faults = 0 PROVE PodsFollow' /\ SessionsTell'
  BY <1>2, <1>4, <1>6, PeopleStay
<1>7. ASSUME spLog'.faults = 0, ~spLog'.overlapped PROVE TemplatesFollowed'
  <2>1. TemplatesFollowed
    BY <1>3, <1>4, <1>7 DEF SpInv
  <2>2. ASSUME NEW u \in SpUser \ spLog'.strayed, policy[u] # NoPolicy
        PROVE  template'[policy[u].level] = template[policy[u].level]
    <3>1. policy[u] \in Policy /\ policy[u].level # n /\ u \notin spLog.strayed
      BY <2>2, <1>1, <1>4, EffectiveIs DEF SpTypes, Text
    <3>2. QED
      BY <3>1, <1>2 DEF Policy
  <2>3. QED
    BY <2>1, <2>2, <1>2, <1>4 DEF TemplatesFollowed
<1>8. QED
  BY <1>5, <1>6, <1>7 DEF SpInv

\* A template goes.
LEMMA DeleteTemplateInv ==
  ASSUME SpInv, NEW n \in SpLevel, DeleteTemplate(n)
  PROVE  SpInv'
<1>1. SpTypes /\ OneMaker
  BY DEF SpInv
<1>2. /\ template' \in [SpLevel -> Text]
      /\ \A m \in SpLevel : template'[m] \in {template[m], NoPolicy}
      /\ LogIs(spLog.faults, spLog.overlapped, spLog.strayed, spLog.direct, spLog.late,
               spLog.crossed, spLog.reused)
      /\ UNCHANGED <<policy, approved, terminal, leaving, ended, live, spTasks>>
  BY <1>1, DeleteTemplateDoes
<1>3. /\ spLog'.faults = spLog.faults /\ spLog'.overlapped = spLog.overlapped
      /\ spLog'.strayed = spLog.strayed /\ spLog'.direct = spLog.direct
      /\ spLog'.late = spLog.late /\ spLog'.crossed = spLog.crossed /\ spLog'.reused = spLog.reused
  BY <1>2 DEF LogIs
<1>4. SpTypes' /\ OneMaker'
  <2>1. SpTypes'
    BY <1>1, <1>2, LogTyped DEF SpTypes
  <2>2. OneMaker'
    BY <1>1, <1>2 DEF OneMaker
  <2>3. QED
    BY <2>1, <2>2
<1>5. ASSUME spLog'.faults = 0 PROVE PodsFollow' /\ SessionsTell'
  BY <1>2, <1>3, <1>5, PeopleStay
<1>6. ASSUME spLog'.faults = 0, ~spLog'.overlapped PROVE TemplatesFollowed'
  <2>1. \A u \in SpUser : policy[u] # NoPolicy => policy[u].level \in SpLevel
    BY <1>1 DEF SpTypes, Text, Policy
  <2>2. QED
    BY <2>1, <1>2, <1>3, <1>6 DEF SpInv, TemplatesFollowed
<1>7. QED
  BY <1>4, <1>5, <1>6 DEF SpInv

\* A template changes: the people at its level may be behind until the handler passes them.
LEMMA ChangesInv ==
  ASSUME SpInv, NEW h \in SpHandler, NEW n \in SpLevel, Changes(h, n)
  PROVE  SpInv'
<1>1. SpTypes /\ OneMaker
  BY DEF SpInv
<1>2. /\ spTasks[h].op = "idle" /\ template' \in [SpLevel -> Text]
      /\ \A m \in SpLevel \ {n} : template'[m] \in {template[m], NoPolicy}
      /\ UNCHANGED <<policy, approved, terminal, leaving, ended, live>>
  BY DEF Changes
<1>3. PICK t \in SpTask :
        /\ Orderly(t) /\ t.op = "spread" /\ t.phase = "spread" /\ t.level = n
        /\ t.todo = {} /\ t.marked = {} /\ t.flushed = {}
        /\ Turns(h, t)
  BY DEF Changes
<1>4. PICK b \in BOOLEAN :
        /\ b = FALSE => spLog.overlapped = FALSE /\ Spreading = {}
        /\ LogIs(spLog.faults, b, spLog.strayed, spLog.direct, spLog.late, spLog.crossed,
                 spLog.reused)
  BY DEF Changes
<1>5. /\ spLog'.faults = spLog.faults /\ spLog'.overlapped = b
      /\ spLog'.strayed = spLog.strayed /\ spLog'.direct = spLog.direct
      /\ spLog'.late = spLog.late /\ spLog'.crossed = spLog.crossed /\ spLog'.reused = spLog.reused
  BY <1>4 DEF LogIs
<1>6. /\ spTasks' \in [SpHandler -> SpTask] /\ \A k \in SpHandler : Orderly(spTasks'[k])
      /\ OneMaker'
  BY <1>1, <1>3, TasksTyped
<1>7. SpTypes'
  <2>1. spLog.faults \in Nat
    BY <1>1 DEF SpTypes
  <2>2. QED
    BY <1>1, <1>2, <1>4, <1>6, <2>1, LogTyped DEF SpTypes
<1>8. /\ spTasks'[h] = t /\ \A k \in SpHandler \ {h} : spTasks'[k] = spTasks[k]
      /\ spTasks[h].phase = "none"
      /\ spTasks[h].todo = {} /\ spTasks[h].marked = {} /\ spTasks[h].flushed = {}
  BY <1>1, <1>2, <1>3 DEF Turns, SpTypes, Orderly
<1>9. /\ ToGo(spTasks') = ToGo(spTasks) /\ Touched(spTasks') = Touched(spTasks)
      /\ BeingMade(spTasks') = BeingMade(spTasks)
  BY <1>2, <1>3, <1>8 DEF ToGo, Touched, BeingMade
<1>10. Excused' = Excused /\ \A u : Effective(u)' = Effective(u)
  BY <1>2, <1>5, <1>9 DEF Excused, Effective
<1>11. ASSUME spLog'.faults = 0 PROVE PodsFollow'
  BY <1>2, <1>3, <1>5, <1>8, <1>10, <1>11 DEF SpInv, PodsFollow, Follows, Stays
<1>12. ASSUME spLog'.faults = 0 PROVE SessionsTell'
  BY <1>2, <1>3, <1>5, <1>8, <1>9, <1>12 DEF SpInv, SessionsTell, Stays
<1>13. ASSUME spLog'.faults = 0, ~spLog'.overlapped PROVE TemplatesFollowed'
  <2>1. TemplatesFollowed /\ \A k \in SpHandler : spTasks[k].op # "spread"
    BY <1>4, <1>5, <1>13 DEF SpInv, Spreading
  <2>2. \A g, k \in SpHandler : spTasks'[g].op = "spread" /\ spTasks'[k].op = "spread" => g = k
    BY <2>1, <1>8
  <2>3. ASSUME NEW u \in SpUser \ spLog'.strayed, policy[u] # NoPolicy, policy[u].level # n
        PROVE  template'[policy[u].level] \in {NoPolicy, policy[u]}
    <3>1. policy[u] \in Policy /\ policy[u].level \in SpLevel
      BY <2>3, <1>1 DEF SpTypes, Text, Policy
    <3>2. \A k \in SpHandler : spTasks[k].phase # "spread"
      BY <2>1, <1>1 DEF SpTypes, SpTask, Orderly
    <3>3. template[policy[u].level] \in {NoPolicy, policy[u]}
      BY <2>1, <2>3, <3>2, <1>5 DEF TemplatesFollowed
    <3>4. QED
      BY <3>1, <3>3, <2>3, <1>2
  <2>4. QED
    BY <2>2, <2>3, <1>2, <1>3, <1>8 DEF TemplatesFollowed
<1>14. QED
  BY <1>6, <1>7, <1>11, <1>12, <1>13 DEF SpInv

\* A handler passes the people: the pods of those it reaches are to go, the others stray.
LEMMA SpreadPoliciesInv ==
  ASSUME SpInv, NEW h \in SpHandler, SpreadPolicies(h)
  PROVE  SpInv'
<1> DEFINE v == spTasks[h]
<1>1. SpTypes /\ OneMaker
  BY DEF SpInv
<1>2. /\ v.phase = "spread" /\ v.op = "spread"
      /\ UNCHANGED <<template, approved, terminal, leaving, ended, live>>
  BY <1>1, SpreadPoliciesDoes
<1>3. PICK who \in SUBSET SpUser, t \in SpTask :
        /\ who \in {AtLevel(v.level), AtLevelOrDefault(v.level)}
        /\ policy' \in [SpUser -> Text]
        /\ \A u \in who \cap approved : policy'[u] = v.text
        /\ \A u \in SpUser : u \notin who \cap approved => policy'[u] = policy[u]
        /\ Orderly(t) /\ t.op = "spread" /\ t.phase = "kill" /\ t.todo = who \cap approved
        /\ t.marked = {} /\ t.flushed = {}
        /\ Turns(h, t)
        /\ LogIs(spLog.faults, spLog.overlapped, Strayed(h, who), spLog.direct,
                 spLog.late, spLog.crossed, spLog.reused)
  BY <1>1, SpreadPoliciesDoes
<1>4. /\ spLog'.faults = spLog.faults /\ spLog'.overlapped = spLog.overlapped
      /\ spLog'.strayed = Strayed(h, who) /\ spLog'.direct = spLog.direct
      /\ spLog'.late = spLog.late /\ spLog'.crossed = spLog.crossed /\ spLog'.reused = spLog.reused
  BY <1>3 DEF LogIs
<1>5. /\ spTasks' \in [SpHandler -> SpTask] /\ \A k \in SpHandler : Orderly(spTasks'[k])
      /\ OneMaker'
  BY <1>1, <1>3, TasksTyped
<1>6. SpTypes'
  <2>1. spLog.faults \in Nat /\ spLog.overlapped \in BOOLEAN
    BY <1>1 DEF SpTypes
  <2>2. QED
    BY <1>1, <1>2, <1>3, <1>5, <2>1, LogTyped DEF SpTypes
<1>7. /\ spTasks'[h] = t /\ \A k \in SpHandler \ {h} : spTasks'[k] = spTasks[k]
      /\ v.todo = {} /\ v.marked = {} /\ v.flushed = {} /\ v.text \in Policy
      /\ v.level \in SpLevel
  BY <1>1, <1>2, <1>3 DEF Turns, SpTypes, Orderly
<1>8. /\ ToGo(spTasks') = ToGo(spTasks) \cup (who \cap approved)
      /\ Touched(spTasks') = Touched(spTasks)
      /\ BeingMade(spTasks') = BeingMade(spTasks)
  BY <1>2, <1>3, <1>7 DEF ToGo, Touched, BeingMade
<1>9. /\ Excused' = Excused \cup (who \cap approved)
      /\ \A u \in SpUser : u \notin who \cap approved => Effective(u)' = Effective(u)
  BY <1>3, <1>4, <1>8 DEF Excused, Effective
<1>10. ASSUME spLog'.faults = 0 PROVE PodsFollow'
  <2>1. PodsFollow
    BY <1>4, <1>10 DEF SpInv
  <2>2. \A w \in SpUser : Follows(w)'
    BY <2>1, <1>2, <1>9 DEF PodsFollow, Follows, Stays
  <2>3. ASSUME NEW k \in SpHandler, spTasks'[k].phase = "pod"
        PROVE  (spTasks[k].text = Effective(spTasks[k].who) \/ spTasks[k].who \in Excused)'
    <3>1. spTasks'[k] = spTasks[k]
      BY <2>3, <1>3, <1>7
    <3>2. PICK w \in SpUser : w = spTasks[k].who
      BY <2>3, <3>1, <1>1 DEF SpTypes, SpTask, Orderly
    <3>3. spTasks[k].text = Effective(w) \/ w \in Excused
      BY <2>1, <2>3, <3>1, <3>2 DEF PodsFollow, Follows, Stays
    <3>4. w \notin Excused' => spTasks[k].text = Effective(w)'
      BY <3>3, <1>9
    <3>5. QED
      BY <3>1, <3>2, <3>4 DEF Effective
  <2>4. QED
    BY <2>2, <2>3 DEF PodsFollow, Follows, Stays
<1>11. ASSUME spLog'.faults = 0 PROVE SessionsTell'
  BY <1>2, <1>3, <1>4, <1>7, <1>8, <1>11 DEF SpInv, SessionsTell, Stays
<1>12. ASSUME spLog'.faults = 0, ~spLog'.overlapped PROVE TemplatesFollowed'
  <2>1. TemplatesFollowed
    BY <1>4, <1>12 DEF SpInv
  <2>2. \A g, k \in SpHandler : spTasks'[g].op = "spread" /\ spTasks'[k].op = "spread" => g = k
    BY <2>1, <1>2, <1>3, <1>7 DEF TemplatesFollowed
  <2>3. ASSUME NEW u \in SpUser \ spLog'.strayed, policy'[u] # NoPolicy
        PROVE  template[policy'[u].level] \in {NoPolicy, policy'[u]}
    <3>1. CASE u \in who
      <4>1. u \in approved /\ template[v.text.level] \in {NoPolicy, v.text}
        BY <2>3, <3>1, <1>4 DEF Strayed
      <4>2. policy'[u] = v.text
        BY <4>1, <3>1, <1>3
      <4>3. QED
        BY <4>1, <4>2
    <3>2. CASE u \notin who
      <4>1. policy'[u] = policy[u] /\ u \notin spLog.strayed
        BY <2>3, <3>2, <1>3, <1>4 DEF Strayed
      <4>2. u \notin AtLevelOrDefault(v.level)
        BY <2>3, <3>2, <1>4 DEF Strayed
      <4>3. policy[u].level # v.level
        BY <4>1, <4>2, <2>3, <1>1, EffectiveIs DEF AtLevelOrDefault
      <4>4. \A k \in SpHandler : spTasks[k].phase = "spread" => k = h
        BY <2>1, <1>1, <1>2 DEF TemplatesFollowed, SpTypes, SpTask, Orderly
      <4>5. QED
        BY <4>1, <4>3, <4>4, <2>1, <2>3 DEF TemplatesFollowed
    <3>3. QED
      BY <3>1, <3>2
  <2>4. QED
    BY <2>2, <2>3, <1>2 DEF TemplatesFollowed
<1>13. QED
  BY <1>5, <1>6, <1>10, <1>11, <1>12 DEF SpInv

\* What a step that leaves templates and policies alone does to the people who follow them.
LEMMA TemplatesStay ==
  ASSUME SpInv, NEW h \in SpHandler, NEW t \in SpTask, Turns(h, t),
         t.phase # "spread", t.op = "spread" => spTasks[h].op = "spread",
         spTasks[h].phase # "spread",
         spLog'.faults = 0, spLog'.faults = spLog.faults,
         ~spLog'.overlapped, spLog'.overlapped = spLog.overlapped,
         spLog'.strayed = spLog.strayed, UNCHANGED <<template, policy>>
  PROVE  TemplatesFollowed'
<1>1. TemplatesFollowed
  BY DEF SpInv
<1>2. spTasks'[h] = t /\ \A k \in SpHandler \ {h} : spTasks'[k] = spTasks[k]
  BY DEF Turns
<1>3. \A g, k \in SpHandler : spTasks'[g].op = "spread" /\ spTasks'[k].op = "spread" => g = k
  BY <1>1, <1>2 DEF TemplatesFollowed
<1>4. ASSUME NEW l, NEW k \in SpHandler, spTasks[k].phase = "spread", spTasks[k].level = l
      PROVE  spTasks'[k].phase = "spread" /\ spTasks'[k].level = l
  BY <1>2, <1>4
<1>5. QED
  BY <1>1, <1>3, <1>4 DEF TemplatesFollowed

\* What it does to the pods that follow their policies, when nobody's excuse goes unless his pod
\* does.
LEMMA PodsStay ==
  ASSUME SpInv, NEW h \in SpHandler, NEW t \in SpTask, Turns(h, t),
         spLog'.faults = 0, spLog'.faults = spLog.faults, UNCHANGED policy,
         Excused \subseteq Excused',
         \A w \in SpUser : Stays(w)' => \/ Stays(w) /\ terminal'[w] = terminal[w]
                                        \/ w \in ended',
         ended \subseteq ended',
         t.phase = "pod" => t.who \in SpUser /\ t.text = Effective(t.who)
  PROVE  PodsFollow'
<1>1. PodsFollow /\ SpTypes
  BY DEF SpInv
<1>2. spTasks'[h] = t /\ \A k \in SpHandler \ {h} : spTasks'[k] = spTasks[k]
  BY DEF Turns
<1>3. \A w \in SpUser : Effective(w)' = Effective(w)
  BY DEF Effective
<1>4. \A w \in SpUser : Follows(w)'
  BY <1>1, <1>3 DEF PodsFollow, Follows, Stays
<1>5. ASSUME NEW k \in SpHandler, spTasks'[k].phase = "pod"
      PROVE  (spTasks[k].text = Effective(spTasks[k].who) \/ spTasks[k].who \in Excused)'
  <2>1. PICK w \in SpUser : /\ w = spTasks'[k].who
                            /\ spTasks'[k].text = Effective(w) \/ w \in Excused
    <3>1. CASE k = h
      BY <3>1, <1>2, <1>5
    <3>2. CASE k # h
      <4>1. spTasks'[k] = spTasks[k]
        BY <3>2, <1>2
      <4>2. spTasks[k].who \in SpUser
        BY <4>1, <1>5, <1>1 DEF SpTypes, SpTask, Orderly
      <4>3. QED
        BY <4>1, <4>2, <1>1, <1>5 DEF PodsFollow, Follows, Stays
    <3>3. QED
      BY <3>1, <3>2
  <2>2. w \notin Excused' => spTasks'[k].text = Effective(w)'
    BY <2>1, <1>3
  <2>3. QED
    BY <2>1, <2>2 DEF Effective
<1>6. QED
  BY <1>4, <1>5 DEF PodsFollow, Follows, Stays

\* A pod goes, or is passed over.
LEMMA KillPodInv ==
  ASSUME SpInv, NEW h \in SpHandler, NEW u \in SpUser, KillPod(h, u)
  PROVE  SpInv'
<1> DEFINE v == spTasks[h]
<1>1. SpTypes /\ OneMaker
  BY DEF SpInv
<1>2. /\ v.phase = "kill" /\ u \in v.todo
      /\ leaving' = IF Over(u) THEN leaving ELSE leaving \cup {u}
      /\ UNCHANGED <<template, policy, approved, terminal, ended, live>>
  BY <1>1, KillPodDoes
<1>3. PICK t \in SpTask :
        /\ Orderly(t) /\ t.op = v.op /\ t.phase = "kill" /\ t.todo = v.todo \ {u}
        /\ Over(u) => t.marked = v.marked /\ t.flushed = v.flushed
        /\ ~Over(u) => t.marked = {u} /\ t.flushed = v.flushed \cup v.marked
        /\ Turns(h, t)
  BY <1>1, KillPodDoes
<1>4. PICK late, crossing :
        /\ Making(u) = {} => late = spLog.late /\ crossing = spLog.crossed
        /\ Making(u) # {} => late = spLog.late \cup {u} /\ crossing = spLog.crossed \cup {u}
        /\ LogIs(spLog.faults, spLog.overlapped, spLog.strayed, spLog.direct, late, crossing,
                 spLog.reused)
  BY <1>1, KillPodDoes
<1>5. /\ spLog'.faults = spLog.faults /\ spLog'.overlapped = spLog.overlapped
      /\ spLog'.strayed = spLog.strayed /\ spLog'.direct = spLog.direct
      /\ spLog'.late = late /\ spLog'.crossed = crossing /\ spLog'.reused = spLog.reused
  BY <1>4 DEF LogIs
<1>6. v.op = "spread" /\ t.op = "spread" /\ v \in SpTask
  BY <1>1, <1>2, <1>3 DEF SpTypes, SpTask, Orderly
<1>7. /\ spTasks' \in [SpHandler -> SpTask] /\ \A k \in SpHandler : Orderly(spTasks'[k])
      /\ OneMaker'
  BY <1>1, <1>3, <1>6, TasksTyped
<1>8. SpTypes'
  <2>1. spLog.faults \in Nat /\ spLog.overlapped \in BOOLEAN
    BY <1>1 DEF SpTypes
  <2>2. leaving' \cup ended' \subseteq {w \in SpUser : terminal'[w] # NoPolicy}
    <3>1. leaving \cup ended \subseteq {w \in SpUser : terminal[w] # NoPolicy}
      BY <1>1 DEF SpTypes
    <3>2. leaving' \subseteq leaving \cup {u} /\ (~Over(u) => terminal[u] # NoPolicy)
      BY <1>2 DEF Over
    <3>3. leaving' \subseteq leaving \/ terminal[u] # NoPolicy
      BY <1>2, <3>2
    <3>4. QED
      BY <1>2, <3>1, <3>2, <3>3
  <2>3. /\ spLog' = [ops |-> spLog'.ops, faults |-> spLog'.faults, version |-> spLog'.version,
                     overlapped |-> spLog'.overlapped, strayed |-> spLog'.strayed,
                     direct |-> spLog'.direct, late |-> spLog'.late, crossed |-> spLog'.crossed,
                     reused |-> spLog'.reused]
        /\ spLog'.ops \in Nat /\ spLog'.faults \in Nat /\ spLog'.version \in 0..MaxVersions
        /\ spLog'.overlapped \in BOOLEAN
    BY <1>1, <1>4, <2>1, LogTyped
  <2>4. QED
    BY <1>1, <1>2, <1>7, <2>2, <2>3 DEF SpTypes
<1>9. spTasks'[h] = t /\ \A k \in SpHandler \ {h} : spTasks'[k] = spTasks[k]
  BY <1>3 DEF Turns
<1>10. /\ ToGo(spTasks) \subseteq ToGo(spTasks') \cup {u}
       /\ Touched(spTasks) \subseteq Touched(spTasks')
       /\ Touched(spTasks') \subseteq Touched(spTasks) \cup {u}
       /\ ~Over(u) => u \in Touched(spTasks')
       /\ Over(u) => Touched(spTasks') = Touched(spTasks)
       /\ BeingMade(spTasks') = BeingMade(spTasks)
  <2>1. ToGo(spTasks) \subseteq ToGo(spTasks') \cup {u}
    BY <1>3, <1>9 DEF ToGo
  <2>2. \A k \in SpHandler : /\ spTasks[k].marked \cup spTasks[k].flushed
                                 \subseteq spTasks'[k].marked \cup spTasks'[k].flushed
                             /\ spTasks'[k].marked \cup spTasks'[k].flushed
                                 \subseteq spTasks[k].marked \cup spTasks[k].flushed \cup {u}
    BY <1>3, <1>9
  <2>3. /\ Touched(spTasks) \subseteq Touched(spTasks')
        /\ Touched(spTasks') \subseteq Touched(spTasks) \cup {u}
    BY <2>2 DEF Touched
  <2>4. /\ ~Over(u) => u \in Touched(spTasks')
        /\ Over(u) => Touched(spTasks') = Touched(spTasks)
    BY <1>3, <1>9 DEF Touched
  <2>5. BeingMade(spTasks') = BeingMade(spTasks)
    BY <1>6, <1>9 DEF BeingMade
  <2>6. QED
    BY <2>1, <2>3, <2>4, <2>5
<1>11. u \in BeingMade(spTasks) <=> Making(u) # {}
  BY DEF BeingMade, Making
<1>12. spLog.crossed \subseteq crossing /\ spLog.late \subseteq late
       /\ (u \in BeingMade(spTasks) => u \in late /\ u \in crossing)
  BY <1>4, <1>11
<1>17. /\ \A w \in SpUser \ {u} : Stays(w)' <=> Stays(w)
       /\ Over(u) => (Stays(u)' <=> Stays(u)) /\ (Stays(u) => u \in ended')
       /\ ~Over(u) => ~Stays(u)'
  BY <1>2 DEF Stays, Over
<1>13. ASSUME spLog'.faults = 0 PROVE PodsFollow'
  <2>1. PodsFollow
    BY <1>5, <1>13 DEF SpInv
  <2>2. \A w \in SpUser \ {u} : w \in Excused => w \in Excused'
    BY <1>5, <1>10, <1>12 DEF Excused
  <2>3. \A w \in SpUser : Effective(w)' = Effective(w)
    BY <1>2 DEF Effective
  <2>4. \A w \in SpUser : Follows(w)'
    BY <2>1, <2>2, <2>3, <1>2, <1>17 DEF PodsFollow, Follows
  <2>5. ASSUME NEW k \in SpHandler, spTasks'[k].phase = "pod"
        PROVE  (spTasks[k].text = Effective(spTasks[k].who) \/ spTasks[k].who \in Excused)'
    <3>1. spTasks'[k] = spTasks[k]
      BY <2>5, <1>3, <1>9
    <3>2. PICK w \in SpUser : w = spTasks[k].who /\ spTasks[k].op = "make"
      BY <2>5, <3>1, <1>1 DEF SpTypes, SpTask, Orderly
    <3>3. spTasks[k].text = Effective(w) \/ w \in Excused
      BY <2>1, <2>5, <3>1, <3>2 DEF PodsFollow, Follows, Stays
    <3>4. w = u => w \in Excused'
      BY <3>2, <1>5, <1>12 DEF BeingMade, Excused
    <3>5. w \notin Excused' => spTasks[k].text = Effective(w)'
      BY <3>3, <3>4, <2>2, <2>3
    <3>6. QED
      BY <3>1, <3>2, <3>5 DEF Effective
  <2>6. QED
    BY <2>4, <2>5 DEF PodsFollow, Follows, Stays
<1>14. ASSUME spLog'.faults = 0 PROVE SessionsTell'
  <2>1. SessionsTell
    BY <1>5, <1>14 DEF SpInv
  <2>2. \A w \in SpUser :
          \/ w \in live <=> Stays(w)'
          \/ w \in live \cap spLog.reused
          \/ w \in BeingMade(spTasks') \cup spLog'.crossed \cup Touched(spTasks')
    BY <2>1, <1>2, <1>5, <1>10, <1>12, <1>17 DEF SessionsTell
  <2>3. \A w \in Touched(spTasks') :
          ~Stays(w)' \/ w \in BeingMade(spTasks') \cup spLog'.crossed
    BY <2>1, <1>2, <1>5, <1>10, <1>12, <1>17 DEF SessionsTell, Touched
  <2>4. ASSUME NEW k \in SpHandler, spTasks'[k].phase = "row"
        PROVE  (Stays(spTasks[k].who) \/ spTasks[k].who \in spLog.reused \cup spLog.crossed)'
    <3>1. spTasks'[k] = spTasks[k]
      BY <2>4, <1>3, <1>9
    <3>2. PICK w \in SpUser : w = spTasks[k].who /\ spTasks[k].op = "make"
      BY <2>4, <3>1, <1>1 DEF SpTypes, SpTask, Orderly
    <3>3. w = u => w \in crossing
      BY <3>2, <1>12 DEF BeingMade
    <3>4. Stays(w) \/ w \in spLog.reused \cup spLog.crossed
      BY <2>1, <2>4, <3>1, <3>2 DEF SessionsTell
    <3>5. Stays(w)' \/ w \in spLog'.reused \cup spLog'.crossed
      BY <3>3, <3>4, <1>5, <1>12, <1>17
    <3>6. QED
      BY <3>1, <3>2, <3>5 DEF Stays
  <2>5. QED
    BY <2>2, <2>3, <2>4, <1>2, <1>5 DEF SessionsTell
<1>15. ASSUME spLog'.faults = 0, ~spLog'.overlapped PROVE TemplatesFollowed'
  BY <1>2, <1>3, <1>5, <1>6, <1>15, TemplatesStay
<1>16. QED
  BY <1>7, <1>8, <1>13, <1>14, <1>15 DEF SpInv

\* The sessions of those whose pods went are ended.
LEMMA CommitKillsInv ==
  ASSUME SpInv, NEW h \in SpHandler, CommitKills(h)
  PROVE  SpInv'
<1> DEFINE v == spTasks[h]
<1>1. SpTypes /\ OneMaker
  BY DEF SpInv
<1>2. /\ v.phase = "kill" /\ v.op = "spread" /\ v.todo = {} /\ Turns(h, SpRest)
      /\ live' = live \ (v.marked \cup v.flushed) /\ live' \subseteq live
      /\ UNCHANGED <<template, policy, approved, terminal, leaving, ended, spLog>>
  BY <1>1, CommitKillsDoes
<1>3. /\ spTasks' \in [SpHandler -> SpTask] /\ \A k \in SpHandler : Orderly(spTasks'[k])
      /\ OneMaker'
  BY <1>1, <1>2, SpResting, TasksTyped
<1>4. SpTypes'
  BY <1>1, <1>2, <1>3 DEF SpTypes
<1>5. spTasks'[h] = SpRest /\ \A k \in SpHandler \ {h} : spTasks'[k] = spTasks[k]
  BY <1>2 DEF Turns
<1>6. /\ ToGo(spTasks') = ToGo(spTasks) /\ Touched(spTasks') \subseteq Touched(spTasks)
      /\ BeingMade(spTasks') = BeingMade(spTasks)
      /\ \A w \in Touched(spTasks) : w \in v.marked \cup v.flushed \cup Touched(spTasks')
      /\ \A w \in SpUser : w \in v.marked \cup v.flushed => w \in Touched(spTasks)
  BY <1>2, <1>5, SpResting DEF ToGo, Touched, BeingMade
<1>7. ASSUME spLog'.faults = 0 PROVE PodsFollow'
  <2>1. Excused' = Excused
    BY <1>2, <1>6 DEF Excused
  <2>2. QED
    BY <2>1, <1>2, <1>7, SpResting, PodsStay DEF Stays
<1>8. ASSUME spLog'.faults = 0 PROVE SessionsTell'
  <2>1. SessionsTell
    BY <1>2, <1>8 DEF SpInv
  <2>2. ASSUME NEW w \in SpUser
        PROVE  \/ w \in live' <=> Stays(w)
               \/ w \in live' \cap spLog.reused
               \/ w \in BeingMade(spTasks) \cup spLog.crossed \cup Touched(spTasks')
    <3>1. CASE w \in v.marked \cup v.flushed
      BY <3>1, <2>1, <1>2, <1>6 DEF SessionsTell
    <3>2. CASE w \notin v.marked \cup v.flushed
      BY <3>2, <2>1, <1>2, <1>6 DEF SessionsTell
    <3>3. QED
      BY <3>1, <3>2
  <2>3. \A k \in SpHandler : spTasks'[k].phase = "row" => spTasks'[k] = spTasks[k]
    BY <1>5, SpResting
  <2>4. QED
    BY <2>1, <2>2, <2>3, <1>2, <1>6 DEF SessionsTell, Stays
<1>9. ASSUME spLog'.faults = 0, ~spLog'.overlapped PROVE TemplatesFollowed'
  BY <1>2, <1>9, SpResting, TemplatesStay
<1>10. QED
  BY <1>3, <1>4, <1>7, <1>8, <1>9 DEF SpInv

\* A terminal is asked for.
LEMMA BeginMakeInv ==
  ASSUME SpInv, NEW h \in SpHandler, NEW u \in SpUser, BeginMake(h, u)
  PROVE  SpInv'
<1> DEFINE v == spTasks[h]
<1>1. SpTypes /\ OneMaker
  BY DEF SpInv
<1>2. /\ v.op = "idle" /\ Making(u) = {} /\ live' = live \ {u} /\ live' \subseteq live
      /\ leaving \subseteq leaving' /\ leaving' \subseteq leaving \cup {u}
      /\ u \in leaving' => u \in leaving \/ u \in ended
      /\ UNCHANGED <<template, policy, approved, terminal, ended>>
  BY <1>1, BeginMakeDoes
<1>3. PICK t \in SpTask :
        /\ Orderly(t) /\ t.op = "make" /\ t.phase = "pod" /\ t.who = u
        /\ t.text = Effective(u) /\ t.todo = {} /\ t.marked = {} /\ t.flushed = {}
        /\ Turns(h, t)
  BY <1>1, BeginMakeDoes
<1>4. PICK crossing :
        /\ spLog.crossed \subseteq crossing
        /\ LogIs(spLog.faults, spLog.overlapped, spLog.strayed, spLog.direct, spLog.late,
                 crossing, spLog.reused \ {u})
  BY <1>1, BeginMakeDoes
<1>5. /\ spLog'.faults = spLog.faults /\ spLog'.overlapped = spLog.overlapped
      /\ spLog'.strayed = spLog.strayed /\ spLog'.direct = spLog.direct
      /\ spLog'.late = spLog.late /\ spLog'.crossed = crossing /\ spLog'.reused = spLog.reused \ {u}
  BY <1>4 DEF LogIs
<1>6. /\ spTasks' \in [SpHandler -> SpTask] /\ \A k \in SpHandler : Orderly(spTasks'[k])
      /\ OneMaker'
  BY <1>1, <1>2, <1>3, TasksTyped
<1>7. SpTypes'
  <2>1. spLog.faults \in Nat /\ spLog.overlapped \in BOOLEAN
    BY <1>1 DEF SpTypes
  <2>2. QED
    BY <1>1, <1>2, <1>4, <1>6, <2>1, LogTyped DEF SpTypes
<1>8. /\ spTasks'[h] = t /\ \A k \in SpHandler \ {h} : spTasks'[k] = spTasks[k]
      /\ v.phase = "none" /\ v.todo = {} /\ v.marked = {} /\ v.flushed = {}
  BY <1>1, <1>2, <1>3 DEF Turns, SpTypes, Orderly
<1>9. /\ ToGo(spTasks') = ToGo(spTasks) /\ Touched(spTasks') = Touched(spTasks)
      /\ BeingMade(spTasks') = BeingMade(spTasks) \cup {u}
  BY <1>2, <1>3, <1>8 DEF ToGo, Touched, BeingMade
<1>10. ASSUME spLog'.faults = 0 PROVE PodsFollow'
  <2>1. Excused' = Excused
    BY <1>5, <1>9 DEF Excused
  <2>2. \A w \in SpUser : Stays(w)' => Stays(w) /\ terminal'[w] = terminal[w]
    BY <1>2 DEF Stays
  <2>3. QED
    BY <2>1, <2>2, <1>2, <1>3, <1>5, <1>10, PodsStay
<1>11. ASSUME spLog'.faults = 0 PROVE SessionsTell'
  <2>1. SessionsTell
    BY <1>5, <1>11 DEF SpInv
  <2>2. \A k \in SpHandler : spTasks'[k].phase = "row" => spTasks'[k] = spTasks[k]
    BY <1>3, <1>8
  <2>3. \A w \in SpUser \ {u} : Stays(w)' <=> Stays(w)
    BY <1>2 DEF Stays
  <2>4. ASSUME NEW k \in SpHandler, spTasks'[k].phase = "row"
        PROVE  (Stays(spTasks[k].who) \/ spTasks[k].who \in spLog.reused \cup spLog.crossed)'
    <3>1. k # h /\ spTasks'[k] = spTasks[k]
      BY <2>4, <1>3, <1>8
    <3>2. PICK w \in SpUser : w = spTasks[k].who /\ spTasks[k].op = "make"
      BY <2>4, <3>1, <1>1 DEF SpTypes, SpTask, Orderly
    <3>3. w # u
      BY <3>2, <1>2 DEF Making
    <3>4. Stays(w) \/ w \in spLog.reused \cup spLog.crossed
      BY <2>1, <2>4, <3>1, <3>2 DEF SessionsTell
    <3>5. Stays(w)' \/ w \in spLog'.reused \cup spLog'.crossed
      BY <3>3, <3>4, <2>3, <1>4, <1>5
    <3>6. QED
      BY <3>1, <3>2, <3>5 DEF Stays
  <2>5. \A w \in SpUser :
          \/ w \in live' <=> Stays(w)'
          \/ w \in live' \cap spLog'.reused
          \/ w \in BeingMade(spTasks') \cup spLog'.crossed \cup Touched(spTasks')
    BY <2>1, <2>3, <1>2, <1>4, <1>5, <1>9 DEF SessionsTell
  <2>6. \A w \in Touched(spTasks') : ~Stays(w)' \/ w \in BeingMade(spTasks') \cup spLog'.crossed
    BY <2>1, <2>3, <1>4, <1>5, <1>9 DEF SessionsTell, Touched
  <2>7. QED
    BY <2>4, <2>5, <2>6 DEF SessionsTell
<1>12. ASSUME spLog'.faults = 0, ~spLog'.overlapped PROVE TemplatesFollowed'
  BY <1>2, <1>3, <1>5, <1>8, <1>12, TemplatesStay
<1>13. QED
  BY <1>6, <1>7, <1>10, <1>11, <1>12 DEF SpInv

\* The pod is made with the policy that was read, or is there.
LEMMA MakePodInv ==
  ASSUME SpInv, NEW h \in SpHandler, MakePod(h)
  PROVE  SpInv'
<1> DEFINE v == spTasks[h]
<1>1. SpTypes /\ OneMaker
  BY DEF SpInv
<1>2. PICK x \in SpUser : x = v.who
  BY <1>1, MakePodDoes
<1>3. /\ v.phase = "pod" /\ v.op = "make" /\ v.text \in Policy
      /\ terminal' \in [SpUser -> Text]
      /\ \A w \in SpUser \ {x} : terminal'[w] = terminal[w]
      /\ terminal[x] = NoPolicy => terminal'[x] = v.text
      /\ terminal[x] # NoPolicy => terminal'[x] = terminal[x]
      /\ UNCHANGED <<template, policy, approved, leaving, ended, live>>
  BY <1>1, <1>2, MakePodDoes
<1>4. PICK t \in SpTask :
        /\ Orderly(t) /\ t.op = "make" /\ t.phase = "row" /\ t.who = x
        /\ t.todo = {} /\ t.marked = {} /\ t.flushed = {}
        /\ Turns(h, t)
  BY <1>1, <1>2, MakePodDoes
<1>5. PICK direct, late, reused :
        /\ spLog.reused \subseteq reused
        /\ x \in leaving /\ terminal[x] # NoPolicy => x \in reused
        /\ \/ direct = spLog.direct /\ late = spLog.late
           \/ /\ terminal[x] = NoPolicy /\ v.text = Effective(x)
              /\ direct = spLog.direct \ {x} /\ late = spLog.late \ {x}
        /\ LogIs(spLog.faults, spLog.overlapped, spLog.strayed, direct, late, spLog.crossed,
                 reused)
  BY <1>1, <1>2, MakePodDoes
<1>6. /\ spLog'.faults = spLog.faults /\ spLog'.overlapped = spLog.overlapped
      /\ spLog'.strayed = spLog.strayed /\ spLog'.direct = direct
      /\ spLog'.late = late /\ spLog'.crossed = spLog.crossed /\ spLog'.reused = reused
  BY <1>5 DEF LogIs
<1>7. /\ spTasks' \in [SpHandler -> SpTask] /\ \A k \in SpHandler : Orderly(spTasks'[k])
      /\ OneMaker'
  BY <1>1, <1>2, <1>3, <1>4, TasksTyped
<1>8. SpTypes'
  <2>1. spLog.faults \in Nat /\ spLog.overlapped \in BOOLEAN
    BY <1>1 DEF SpTypes
  <2>2. QED
    BY <1>1, <1>3, <1>5, <1>7, <2>1, LogTyped DEF SpTypes
<1>9. /\ spTasks'[h] = t /\ \A k \in SpHandler \ {h} : spTasks'[k] = spTasks[k]
      /\ v.todo = {} /\ v.marked = {} /\ v.flushed = {}
  BY <1>1, <1>3, <1>4 DEF Turns, SpTypes, Orderly
<1>10. /\ ToGo(spTasks') = ToGo(spTasks) /\ Touched(spTasks') = Touched(spTasks)
       /\ BeingMade(spTasks') = BeingMade(spTasks) /\ x \in BeingMade(spTasks)
  BY <1>2, <1>3, <1>4, <1>9 DEF ToGo, Touched, BeingMade
<1>11. ASSUME spLog'.faults = 0 PROVE PodsFollow'
  <2>1. PodsFollow
    BY <1>6, <1>11 DEF SpInv
  <2>2. \A w \in SpUser : Effective(w)' = Effective(w)
    BY <1>3 DEF Effective
  <2>3. \A w \in SpUser \ {x} : w \in Excused => w \in Excused'
    BY <1>5, <1>6, <1>10 DEF Excused
  <2>4. v.text = Effective(x) \/ x \in Excused
    BY <2>1, <1>2, <1>3 DEF PodsFollow, Follows, Stays
  <2>5. Follows(x)'
    <3>1. CASE terminal[x] = NoPolicy
      <4>1. v.text # Effective(x) => x \in Excused'
        BY <2>4, <1>5, <1>6, <1>10 DEF Excused
      <4>2. QED
        BY <4>1, <3>1, <2>2, <1>3 DEF Follows
    <3>2. CASE terminal[x] # NoPolicy
      <4>1. Excused' = Excused
        BY <3>2, <1>5, <1>6, <1>10 DEF Excused
      <4>2. QED
        BY <4>1, <3>2, <2>1, <2>2, <1>3 DEF PodsFollow, Follows, Stays
    <3>3. QED
      BY <3>1, <3>2
  <2>6. \A w \in SpUser : Follows(w)'
    BY <2>1, <2>2, <2>3, <2>5, <1>3 DEF PodsFollow, Follows, Stays
  <2>7. ASSUME NEW k \in SpHandler, spTasks'[k].phase = "pod"
        PROVE  (spTasks[k].text = Effective(spTasks[k].who) \/ spTasks[k].who \in Excused)'
    <3>1. k # h /\ spTasks'[k] = spTasks[k]
      BY <2>7, <1>4, <1>9
    <3>2. PICK w \in SpUser : w = spTasks[k].who /\ spTasks[k].op = "make"
      BY <2>7, <3>1, <1>1 DEF SpTypes, SpTask, Orderly
    <3>3. w # x
      BY <3>1, <3>2, <1>1, <1>2, <1>3 DEF OneMaker
    <3>4. spTasks[k].text = Effective(w) \/ w \in Excused
      BY <2>1, <2>7, <3>1, <3>2 DEF PodsFollow, Follows, Stays
    <3>5. w \notin Excused' => spTasks[k].text = Effective(w)'
      BY <3>3, <3>4, <2>2, <2>3
    <3>6. QED
      BY <3>1, <3>2, <3>5 DEF Effective
  <2>8. QED
    BY <2>6, <2>7 DEF PodsFollow, Follows, Stays
<1>12. ASSUME spLog'.faults = 0 PROVE SessionsTell'
  <2>1. SessionsTell
    BY <1>6, <1>12 DEF SpInv
  <2>2. (Stays(x)' \/ x \in reused) /\ \A w \in SpUser \ {x} : Stays(w)' <=> Stays(w)
    BY <1>1, <1>3, <1>5, NotNone DEF Stays, SpTypes
  <2>3. \A w \in SpUser :
          \/ w \in live <=> Stays(w)'
          \/ w \in live \cap reused
          \/ w \in BeingMade(spTasks) \cup spLog.crossed \cup Touched(spTasks)
    BY <2>1, <2>2, <1>3, <1>5, <1>10 DEF SessionsTell
  <2>4. \A w \in Touched(spTasks) :
          ~Stays(w)' \/ w \in BeingMade(spTasks) \cup spLog.crossed
    BY <2>1, <2>2, <1>3, <1>10 DEF SessionsTell, Touched
  <2>5. ASSUME NEW k \in SpHandler, spTasks'[k].phase = "row"
        PROVE  (Stays(spTasks[k].who) \/ spTasks[k].who \in spLog.reused \cup spLog.crossed)'
    <3>1. CASE spTasks'[k].who = x
      BY <3>1, <2>2, <1>6 DEF Stays
    <3>2. CASE spTasks'[k].who # x
      <4>1. spTasks'[k] = spTasks[k]
        BY <3>2, <1>4, <1>9
      <4>2. spTasks[k].who \in SpUser
        BY <2>5, <4>1, <1>1 DEF SpTypes, SpTask, Orderly
      <4>3. QED
        BY <2>1, <2>5, <3>2, <4>1, <4>2, <1>3, <1>5, <1>6 DEF SessionsTell, Stays
    <3>3. QED
      BY <3>1, <3>2
  <2>6. QED
    BY <2>3, <2>4, <2>5, <1>3, <1>6, <1>10 DEF SessionsTell
<1>13. ASSUME spLog'.faults = 0, ~spLog'.overlapped PROVE TemplatesFollowed'
  BY <1>3, <1>4, <1>6, <1>13, TemplatesStay
<1>14. QED
  BY <1>7, <1>8, <1>11, <1>12, <1>13 DEF SpInv

\* The session is stored.
LEMMA StoreSessionInv ==
  ASSUME SpInv, NEW h \in SpHandler, StoreSession(h)
  PROVE  SpInv'
<1> DEFINE v == spTasks[h]
<1>1. SpTypes /\ OneMaker
  BY DEF SpInv
<1>2. PICK x \in SpUser : x = v.who
  BY <1>1, StoreSessionDoes
<1>3. /\ v.phase = "row" /\ v.op = "make" /\ ~RowLocked(x)
      /\ live' = live \cup {x} /\ live' \in SUBSET SpUser /\ Turns(h, SpRest)
      /\ UNCHANGED <<template, policy, approved, terminal, leaving, ended>>
  BY <1>1, <1>2, StoreSessionDoes
<1>4. PICK crossing :
        /\ spLog.crossed \subseteq crossing
        /\ (\E g \in SpHandler : x \in spTasks[g].marked) => x \in crossing
        /\ LogIs(spLog.faults, spLog.overlapped, spLog.strayed, spLog.direct, spLog.late,
                 crossing, spLog.reused)
  BY <1>1, <1>2, StoreSessionDoes
<1>5. /\ spLog'.faults = spLog.faults /\ spLog'.overlapped = spLog.overlapped
      /\ spLog'.strayed = spLog.strayed /\ spLog'.direct = spLog.direct
      /\ spLog'.late = spLog.late /\ spLog'.crossed = crossing /\ spLog'.reused = spLog.reused
  BY <1>4 DEF LogIs
<1>6. /\ spTasks' \in [SpHandler -> SpTask] /\ \A k \in SpHandler : Orderly(spTasks'[k])
      /\ OneMaker'
  BY <1>1, <1>3, SpResting, TasksTyped
<1>7. SpTypes'
  <2>1. spLog.faults \in Nat /\ spLog.overlapped \in BOOLEAN
    BY <1>1 DEF SpTypes
  <2>2. QED
    BY <1>1, <1>3, <1>4, <1>6, <2>1, LogTyped DEF SpTypes
<1>8. /\ spTasks'[h] = SpRest /\ \A k \in SpHandler \ {h} : spTasks'[k] = spTasks[k]
      /\ v.todo = {} /\ v.marked = {} /\ v.flushed = {}
  BY <1>1, <1>3 DEF Turns, SpTypes, Orderly
<1>9. /\ ToGo(spTasks') = ToGo(spTasks) /\ Touched(spTasks') = Touched(spTasks)
      /\ \A w \in SpUser \ {x} : w \in BeingMade(spTasks) <=> w \in BeingMade(spTasks')
  BY <1>2, <1>3, <1>8, SpResting DEF ToGo, Touched, BeingMade
<1>10. ASSUME spLog'.faults = 0 PROVE PodsFollow'
  <2>1. Excused' = Excused
    BY <1>5, <1>9 DEF Excused
  <2>2. QED
    BY <2>1, <1>3, <1>5, <1>10, SpResting, PodsStay DEF Stays
<1>11. ASSUME spLog'.faults = 0 PROVE SessionsTell'
  <2>1. SessionsTell
    BY <1>5, <1>11 DEF SpInv
  <2>2. Stays(x) \/ x \in spLog.reused \cup crossing
    BY <2>1, <1>2, <1>3, <1>4 DEF SessionsTell, Stays
  <2>3. x \in Touched(spTasks) => x \in crossing
    BY <1>3, <1>4 DEF Touched, RowLocked
  <2>4. \A w \in SpUser :
          \/ w \in live' <=> Stays(w)
          \/ w \in live' \cap spLog.reused
          \/ w \in BeingMade(spTasks') \cup crossing \cup Touched(spTasks)
    BY <2>1, <2>2, <1>3, <1>4, <1>9 DEF SessionsTell, Stays
  <2>5. \A w \in Touched(spTasks) :
          ~Stays(w) \/ w \in BeingMade(spTasks') \cup crossing
    BY <2>1, <2>3, <1>4, <1>9 DEF SessionsTell, Stays, Touched
  <2>6. \A k \in SpHandler : spTasks'[k].phase = "row" => spTasks'[k] = spTasks[k]
    BY <1>8, SpResting
  <2>7. QED
    BY <2>1, <2>4, <2>5, <2>6, <1>3, <1>4, <1>5, <1>9 DEF SessionsTell, Stays
<1>12. ASSUME spLog'.faults = 0, ~spLog'.overlapped PROVE TemplatesFollowed'
  BY <1>3, <1>5, <1>12, SpResting, TemplatesStay
<1>13. QED
  BY <1>6, <1>7, <1>10, <1>11, <1>12 DEF SpInv

\* The person ends the session, and the pod is to go.
LEMMA EndSessionInv ==
  ASSUME SpInv, NEW u \in SpUser, EndSession(u)
  PROVE  SpInv'
<1>1. SpTypes /\ OneMaker
  BY DEF SpInv
<1>2. /\ Making(u) = {}
      /\ leaving' = IF terminal[u] = NoPolicy THEN leaving ELSE leaving \cup {u}
      /\ live' = live \ {u} /\ live' \subseteq live
      /\ UNCHANGED <<template, policy, approved, terminal, ended, spTasks, spLog>>
  BY <1>1, EndSessionDoes
<1>3. SpTypes' /\ OneMaker'
  BY <1>1, <1>2 DEF SpTypes, OneMaker
<1>4. Excused' = Excused /\ \A w \in SpUser : Effective(w)' = Effective(w)
  BY <1>2 DEF Excused, Effective
<1>9. ~Stays(u)' /\ \A w \in SpUser \ {u} : Stays(w)' <=> Stays(w)
  BY <1>2 DEF Stays
<1>5. ASSUME spLog'.faults = 0 PROVE PodsFollow'
  <2>1. PodsFollow
    BY <1>2, <1>5 DEF SpInv
  <2>2. \A w \in SpUser : Follows(w)'
    BY <2>1, <1>2, <1>4, <1>9 DEF PodsFollow, Follows
  <2>3. \A k \in SpHandler : Effective(spTasks[k].who)' = Effective(spTasks[k].who)
    BY <1>2 DEF Effective
  <2>4. QED
    BY <2>1, <2>2, <2>3, <1>2, <1>4 DEF PodsFollow, Follows, Stays
<1>6. ASSUME spLog'.faults = 0 PROVE SessionsTell'
  <2>1. SessionsTell
    BY <1>2, <1>6 DEF SpInv
  <2>2. \A w \in Touched(spTasks) :
          ~Stays(w)' \/ w \in BeingMade(spTasks) \cup spLog.crossed
    BY <2>1, <1>2, <1>9 DEF SessionsTell, Touched
  <2>3. ASSUME NEW k \in SpHandler, spTasks[k].phase = "row"
        PROVE  (Stays(spTasks[k].who) \/ spTasks[k].who \in spLog.reused \cup spLog.crossed)'
    <3>1. spTasks[k].who \in SpUser /\ spTasks[k].op = "make"
      BY <2>3, <1>1 DEF SpTypes, SpTask, Orderly
    <3>2. spTasks[k].who # u
      BY <3>1, <1>2 DEF Making
    <3>3. QED
      BY <3>1, <3>2, <2>1, <2>3, <1>2 DEF SessionsTell, Stays
  <2>4. QED
    BY <2>1, <2>2, <2>3, <1>2, <1>9 DEF SessionsTell
<1>7. ASSUME spLog'.faults = 0, ~spLog'.overlapped PROVE TemplatesFollowed'
  BY <1>2, <1>7 DEF SpInv, TemplatesFollowed
<1>8. QED
  BY <1>3, <1>5, <1>6, <1>7 DEF SpInv

\* A pod that is over, or is gone, follows nothing and is none that stays.
LEMMA PodEndsInv ==
  ASSUME SpInv, NEW u \in SpUser, PodFinishes(u) \/ PodGoes(u)
  PROVE  SpInv'
<1>1. SpTypes /\ OneMaker
  BY DEF SpInv
<1>2. UNCHANGED <<template, policy, approved, live, spTasks, spLog>>
  BY DEF PodFinishes, PodGoes
<1>3. /\ terminal' \in [SpUser -> Text]
      /\ leaving' \cup ended' \subseteq {w \in SpUser : terminal'[w] # NoPolicy}
  BY <1>1 DEF PodFinishes, PodGoes, SpTypes, Text
<1>4. \A w \in SpUser : /\ Stays(w)' <=> Stays(w)
                        /\ Stays(w) => terminal'[w] = terminal[w] /\ (w \in ended => w \in ended')
  BY <1>1 DEF PodFinishes, PodGoes, SpTypes, Stays
<1>5. SpTypes' /\ OneMaker'
  BY <1>1, <1>2, <1>3 DEF SpTypes, OneMaker
<1>6. Excused' = Excused /\ \A w : Effective(w)' = Effective(w)
  BY <1>2 DEF Excused, Effective
<1>7. ASSUME spLog'.faults = 0 PROVE PodsFollow'
  <2>1. PodsFollow
    BY <1>2, <1>7 DEF SpInv
  <2>2. \A w \in SpUser : Follows(w)'
    BY <2>1, <1>4, <1>6 DEF PodsFollow, Follows
  <2>3. \A k \in SpHandler : Effective(spTasks[k].who)' = Effective(spTasks[k].who)
    BY <1>2 DEF Effective
  <2>4. QED
    BY <2>1, <2>2, <2>3, <1>2, <1>6 DEF PodsFollow
<1>8. ASSUME spLog'.faults = 0 PROVE SessionsTell'
  <2>1. SessionsTell
    BY <1>2, <1>8 DEF SpInv
  <2>2. ASSUME NEW k \in SpHandler, spTasks[k].phase = "row"
        PROVE  (Stays(spTasks[k].who) \/ spTasks[k].who \in spLog.reused \cup spLog.crossed)'
    <3>1. PICK w \in SpUser : w = spTasks[k].who
      BY <2>2, <1>1 DEF SpTypes, SpTask, Orderly
    <3>2. Stays(w)' \/ w \in spLog.reused \cup spLog.crossed
      BY <2>1, <2>2, <3>1, <1>4 DEF SessionsTell
    <3>3. QED
      BY <3>1, <3>2, <1>2 DEF Stays
  <2>3. \A w \in Touched(spTasks) : ~Stays(w)' \/ w \in BeingMade(spTasks) \cup spLog.crossed
    BY <2>1, <1>4 DEF SessionsTell, Touched
  <2>4. QED
    BY <2>1, <2>2, <2>3, <1>2, <1>4 DEF SessionsTell
<1>9. ASSUME spLog'.faults = 0, ~spLog'.overlapped PROVE TemplatesFollowed'
  BY <1>2, <1>9 DEF SpInv, TemplatesFollowed
<1>10. QED
  BY <1>5, <1>7, <1>8, <1>9 DEF SpInv

\* After a fault only the types are promised, and one maker.
LEMMA FaultInv ==
  ASSUME SpInv, NEW h \in SpHandler, (\E u \in SpUser : KillFails(h, u)) \/ SpDies(h)
  PROVE  SpInv'
<1>1. SpTypes /\ OneMaker
  BY DEF SpInv
<1>2. /\ LogIs(spLog.faults + 1, spLog.overlapped, spLog.strayed, spLog.direct, spLog.late,
               spLog.crossed, spLog.reused)
      /\ UNCHANGED <<template, policy, approved, terminal, leaving, ended, live>>
  BY <1>1, FaultDoes
<1>3. PICK t \in SpTask :
        /\ Orderly(t) /\ (t.op = "idle" \/ (t.op = spTasks[h].op /\ t.op = "spread"))
        /\ Turns(h, t)
  BY <1>1, FaultDoes
<1>4. /\ spTasks' \in [SpHandler -> SpTask] /\ \A k \in SpHandler : Orderly(spTasks'[k])
      /\ OneMaker'
  BY <1>1, <1>3, TasksTyped
<1>5. spLog.faults \in Nat /\ spLog.overlapped \in BOOLEAN
  BY <1>1 DEF SpTypes
<1>6. SpTypes'
  <2>1. spLog.faults + 1 \in Nat
    BY <1>5
  <2>2. QED
    BY <1>1, <1>2, <1>4, <1>5, <2>1, LogTyped DEF SpTypes
<1>7. spLog'.faults # 0
  BY <1>2, <1>5 DEF LogIs
<1>8. QED
  BY <1>4, <1>6, <1>7 DEF SpInv

\* The inductive invariant of the security policies.
LEMMA SpInvHolds == SpSpec => []SpInv
<1>1. SpInit => SpInv
  BY SpInitInv
<1>2. SpInv /\ [SpNext]_spVars => SpInv'
  <2> SUFFICES ASSUME SpInv, [SpNext]_spVars PROVE SpInv'
    OBVIOUS
  <2>1. ASSUME NEW u \in SpUser,
               \/ SetPolicy(u) \/ TurnApproval(u) \/ EndSession(u)
               \/ PodFinishes(u) \/ PodGoes(u)
               \/ \E n \in SpLevel : ApplyTemplate(u, n)
        PROVE  SpInv'
    <3>1. SpTypes
      BY DEF SpInv
    <3>2. CASE SetPolicy(u)
      BY <3>1, <3>2, SetPolicyDoes, SetsOneInv
    <3>3. ASSUME NEW n \in SpLevel, ApplyTemplate(u, n) PROVE SpInv'
      BY <3>1, <3>3, ApplyTemplateDoes, SetsOneInv
    <3>4. QED
      BY <2>1, <3>2, <3>3, TurnApprovalInv, EndSessionInv, PodEndsInv
  <2>2. ASSUME NEW n \in SpLevel, CreateTemplate(n) \/ DeleteTemplate(n) PROVE SpInv'
    BY <2>2, CreateTemplateInv, DeleteTemplateInv
  <2>3. ASSUME NEW h \in SpHandler, NEW n \in SpLevel, RewriteTemplate(h, n) PROVE SpInv'
    BY <2>3, RewriteTemplateDoes, ChangesInv DEF SpInv
  <2>4. ASSUME NEW h \in SpHandler, NEW n \in SpLevel, NEW new \in SpLevel,
               RenameTemplate(h, n, new)
        PROVE  SpInv'
    BY <2>4, RenameTemplateDoes, ChangesInv DEF SpInv
  <2>5. ASSUME NEW h \in SpHandler, SpreadPolicies(h) \/ CommitKills(h) PROVE SpInv'
    BY <2>5, SpreadPoliciesInv, CommitKillsInv
  <2>6. ASSUME NEW h \in SpHandler, NEW u \in SpUser, KillPod(h, u) \/ BeginMake(h, u)
        PROVE  SpInv'
    BY <2>6, KillPodInv, BeginMakeInv
  <2>7. ASSUME NEW h \in SpHandler, MakePod(h) \/ StoreSession(h) PROVE SpInv'
    BY <2>7, MakePodInv, StoreSessionInv
  <2>8. ASSUME NEW h \in SpHandler, (\E u \in SpUser : KillFails(h, u)) \/ SpDies(h)
        PROVE  SpInv'
    BY <2>8, FaultInv
  <2>9. CASE UNCHANGED spVars
    BY <2>9 DEF spVars, pods, SpInv, SpTypes, OneMaker, PodsFollow, Follows, SessionsTell, Stays,
                TemplatesFollowed, Excused, Effective
  <2>10. QED
    BY <2>1, <2>2, <2>3, <2>4, <2>5, <2>6, <2>7, <2>8, <2>9 DEF SpNext
<1>3. QED
  BY <1>1, <1>2, PTL DEF SpSpec

\* Templates, policies, pods and sessions have their types, for any number of people, templates
\* and handlers.
THEOREM PoliciesTypeCorrect == SpSpec => []SpTypeOK
<1>1. SpInv => SpTypeOK
  <2> SUFFICES ASSUME SpInv PROVE SpTypeOK
    OBVIOUS
  <2>1. ASSUME NEW h \in SpHandler
        PROVE  LET t == spTasks[h] IN
               /\ t.op \in {"idle", "spread", "make"} /\ (t.op = "idle" <=> t = SpRest)
               /\ t.todo \subseteq SpUser /\ t.marked \subseteq SpUser \ t.todo
               /\ t.op = "make" => t.text \in Policy /\ t.who \in SpUser
    <3>1. spTasks[h] \in SpTask /\ Orderly(spTasks[h])
      BY DEF SpInv, SpTypes
    <3>2. QED
      BY <3>1 DEF SpTask, Orderly
  <2>2. QED
    BY <2>1 DEF SpInv, SpTypes, SpTypeOK, Text
<1>2. QED
  BY <1>1, SpInvHolds, PTL

\* A changed template reaches the people at its level and their pods, and the sessions tell which
\* pods there are, for any number of people, templates and replicas (update_custom_template,
\* _terminate_user_pods, create_session).
THEOREM PoliciesAreSpread == SpSpec => []PoliciesSpread
<1>1. SpInv => PoliciesSpread
  <2> SUFFICES ASSUME SpInv PROVE PoliciesSpread
    OBVIOUS
  <2>1. SpTypes /\ spLog.faults \in Nat
    BY DEF SpInv, SpTypes
  <2>2. PodsFollowPolicies
    <3>1. CASE spLog.faults = 0
      BY <3>1 DEF SpInv, PodsFollow, Follows, Excused, ToGo, PodsFollowPolicies
    <3>2. CASE spLog.faults # 0
      BY <3>2, <2>1 DEF PodsFollowPolicies
    <3>3. QED
      BY <3>1, <3>2
  <2>3. PeopleFollowTemplates
    <3>1. CASE spLog.faults = 0 /\ ~spLog.overlapped /\ Spreading = {}
      <4>1. TemplatesFollowed
        BY <3>1 DEF SpInv
      <4>2. \A h \in SpHandler : spTasks[h].phase # "spread"
        BY <3>1, <2>1 DEF Spreading, SpTypes, SpTask, Orderly
      <4>3. approved \subseteq SpUser
        BY <2>1 DEF SpTypes
      <4>4. QED
        BY <4>1, <4>2, <4>3 DEF TemplatesFollowed, PeopleFollowTemplates
    <3>2. CASE ~(spLog.faults = 0 /\ ~spLog.overlapped /\ Spreading = {})
      BY <3>2, <2>1 DEF PeopleFollowTemplates
    <3>3. QED
      BY <3>1, <3>2
  <2>4. SessionsTellPods
    <3>1. CASE spLog.faults = 0
      <4>1. SessionsTell
        BY <3>1 DEF SpInv
      <4>2. \A u \in SpUser : u \in BeingMade(spTasks) => Making(u) # {}
        BY DEF BeingMade, Making
      <4>3. QED
        BY <4>1, <4>2 DEF SessionsTell, Stays, Touched, SessionsTellPods
    <3>2. CASE spLog.faults # 0
      BY <3>2, <2>1 DEF SessionsTellPods
    <3>3. QED
      BY <3>1, <3>2
  <2>5. QED
    BY <2>2, <2>3, <2>4 DEF PoliciesSpread
<1>2. QED
  BY <1>1, SpInvHolds, PTL

-----------------------------------------------------------------------------
(* The components together *)

\* A behaviour in which one component takes steps and the others rest is a behaviour of each, so
\* what is proved of a component holds in it.
THEOREM PartsOfSignOn == AllSpec => Spec /\ AcSpec /\ MsSpec /\ SpSpec
<1>1. AllInit => Init /\ AcInit /\ MsInit /\ SpInit
  BY DEF AllInit
<1>2. [AllNext]_allVars => [Next]_vars
  <2>1. UNCHANGED allVars => UNCHANGED vars
    BY DEF allVars
  <2>2. AllNext => Next \/ UNCHANGED vars
    BY Zenon DEF AllNext, Only
  <2>3. QED
    BY <2>1, <2>2
<1>3. [AllNext]_allVars => [AcNext]_acVars
  <2>1. UNCHANGED allVars => UNCHANGED acVars
    BY DEF allVars
  <2>2. AllNext => AcNext \/ UNCHANGED acVars
    BY Zenon DEF AllNext, Only
  <2>3. QED
    BY <2>1, <2>2
<1>4. [AllNext]_allVars => [MsNext]_msVars
  <2>1. UNCHANGED allVars => UNCHANGED msVars
    BY DEF allVars
  <2>2. AllNext => MsNext \/ UNCHANGED msVars
    BY Zenon DEF AllNext, Only
  <2>3. QED
    BY <2>1, <2>2
<1>5. [AllNext]_allVars => [SpNext]_spVars
  <2>1. UNCHANGED allVars => UNCHANGED spVars
    BY DEF allVars
  <2>2. AllNext => SpNext \/ UNCHANGED spVars
    BY Zenon DEF AllNext, Only
  <2>3. QED
    BY <2>1, <2>2
<1>6. QED
  BY <1>1, <1>2, <1>3, <1>4, <1>5, PTL DEF AllSpec, Spec, AcSpec, MsSpec, SpSpec

\* Every variable of every component keeps its type.
THEOREM SignOnTypesCorrect == AllSpec => []TypesOK
<1>1. TypeOK /\ AcTypeOK /\ MsTypeOK /\ SpTypeOK => TypesOK
  BY DEF TypesOK
<1>2. QED
  BY <1>1, PartsOfSignOn, JwtTypeCorrect, AccountsTypeCorrect, MessagesTypeCorrect,
    PoliciesTypeCorrect, PTL
=============================================================================

------------------------- MODULE CertificateProofs -------------------------
(***************************************************************************)
(* Proofs about the certificate manager, for any keys, intervals and       *)
(* faults.                                                                 *)
(***************************************************************************)
EXTENDS Certificate, FiniteSetTheorems, SequenceTheorems, TLAPS

----------------------------------------------------------------------------
(* What the theorems rest on: an attempt is made only while the            *)
(* certificate is due, the key on disk is the one in hand once it has been *)
(* written, and the authority knows no account but the saved one.          *)

AttemptIsDue == pc \in Attempt => needsCertificate(cert)
KeyIsInHand == pc = "writeCert" => key = hand.key
PairIsWritten == pc = "reload" => key = cert.key
AccountIsSaved ==
    /\ subscribers \subseteq {account}
    /\ pc \in {"register", "order"} => account \in Keys

Inv == TypeOK /\ MismatchIsNoticed /\ AttemptIsDue /\ KeyIsInHand /\ PairIsWritten /\ AccountIsSaved

\* What is counted of a sequence of ages is a sequence of ages.
LEMMA CountedType ==
    ASSUME NEW ages \in Seq(Nat)
    PROVE  Counted(ages) \in Seq(Nat)
<1> DEFINE Old == {i \in 1 .. Len(ages) : ages[i] >= Hour}
<1>1. Len(ages) \in Nat /\ Allowance \in Nat
  BY CertificateAssumption
<1>2. IsFiniteSet(1 .. Len(ages))
  BY <1>1, FS_Interval
<1>3. Cardinality(Old) \in Nat
  BY <1>2, FS_Subset, FS_CardinalityType
<1> DEFINE old == Cardinality(Old)
           spent == Len(ages) - Allowance - 1
           first == IF old > spent THEN old ELSE spent
<1>4. first \in Nat
  <2> HIDE DEF Old
  <2> QED BY <1>1, <1>3
<1>5. Counted(ages) = SubSeq(ages, first + 1, Len(ages))
  BY DEF Counted
<1> HIDE DEF first
<1>6. SubSeq(ages, first + 1, Len(ages)) \in Seq(Nat)
  BY <1>1, <1>4
<1> QED
  BY <1>5, <1>6

\* A certificate that is due stays due as it grows older.
LEMMA DueStaysDue ==
    ASSUME NEW c \in Certificates
    PROVE  /\ Older(c) \in Certificates
           /\ Older(c).key = c.key
           /\ needsCertificate(c) => needsCertificate(Older(c))
<1>1. Lifetime \in Nat /\ RenewBefore \in Nat
  BY CertificateAssumption
<1> QED
  BY <1>1 DEF Certificates, Older, needsCertificate

\* New finds what is left.
LEMMA NewIsNew ==
    ASSUME NEW S, NEW used, S \ used # {}
    PROVE  New(S, used) \in S \ used
<1>1. \E x \in S : x \notin used
  OBVIOUS
<1> QED
  BY <1>1 DEF New

----------------------------------------------------------------------------
\* The initial states satisfy the invariant: the installer writes a matching
\* pair.
LEMMA InvInit == Init => Inv
<1> SUFFICES ASSUME Init PROVE Inv
  OBVIOUS
<1>1. Lifetime \in Nat
  BY CertificateAssumption
<1>a. Keys \ {} # {} /\ Challenges \ {} # {}
  BY CertificateAssumption
<1>b. New(Keys, {}) \in Keys /\ New(Challenges, {}) \in Challenges
  BY <1>a, NewIsNew
<1>2. cert \in Certificates
  BY <1>1, <1>b DEF Init, Certificates
<1>3. TypeOK
  BY <1>2, <1>b DEF Init, TypeOK
<1> QED
  BY <1>2, <1>3 DEF Init, Inv, MismatchIsNoticed, AttemptIsDue, KeyIsInHand, PairIsWritten,
     AccountIsSaved, Attempt

\* Every step of the manager, the authority, time and the host keeps it.
LEMMA InvNext == Inv /\ [Next]_vars => Inv'
<1> SUFFICES ASSUME Inv, [Next]_vars PROVE Inv'
  OBVIOUS
<1> DEFINE Parts == /\ MismatchIsNoticed /\ AttemptIsDue /\ KeyIsInHand
                    /\ PairIsWritten /\ AccountIsSaved
<1>0. TypeOK /\ Parts
  BY DEF Inv
<1>a. failures \in Seq(Nat)
  BY <1>0 DEF TypeOK
<1>b. Absent \notin Keys /\ Absent \notin Certificates
  BY CertificateAssumption
<1>c. CheckInterval \in Nat /\ RetryInterval \in Nat /\ Lifetime \in Nat
  BY CertificateAssumption
<1>1. CASE UNCHANGED vars
  <2>1. TypeOK'
    BY <1>0, <1>1 DEF TypeOK, vars, files, authority
  <2> QED
    BY <1>0, <1>1, <2>1 DEF Inv, MismatchIsNoticed, AttemptIsDue, KeyIsInHand, PairIsWritten,
       AccountIsSaved, vars, files, authority
<1>2. CASE Wake
  BY <1>0, <1>b, <1>c, <1>2 DEF Wake, Goto, files, authority, Inv, TypeOK, MismatchIsNoticed, AttemptIsDue,
     KeyIsInHand, PairIsWritten, AccountIsSaved, needsCertificate, Attempt
<1>3. CASE Ensure
  BY <1>0, <1>b, <1>c, <1>3 DEF Ensure, Goto, Sleep, files, authority, Inv, TypeOK, MismatchIsNoticed,
     AttemptIsDue, KeyIsInHand, PairIsWritten, AccountIsSaved, needsCertificate, Attempt
<1>4. CASE accountKey
  <2>1. account = Absent => subscribers = {}
    BY <1>0, <1>b DEF TypeOK, AccountIsSaved
  <2>a. Keys \ subscribers # {} => New(Keys, subscribers) \in Keys
    BY NewIsNew
  <2>2. account' \in Keys \cup {Absent} /\ AccountIsSaved'
    BY <1>0, <1>b, <1>c, <1>4, <2>1, <2>a DEF accountKey, Goto, Fail, Sleep, authority, TypeOK, AccountIsSaved
  <2> QED
    BY <1>0, <1>b, <1>c, <1>4, <2>2 DEF accountKey, Goto, Fail, Sleep, files, authority, Inv, TypeOK,
     MismatchIsNoticed, AttemptIsDue, KeyIsInHand, PairIsWritten, AccountIsSaved,
     needsCertificate, Attempt
<1>5. CASE Register
  BY <1>0, <1>b, <1>c, <1>5 DEF Register, Goto, Fail, Sleep, files, Inv, TypeOK,
     MismatchIsNoticed, AttemptIsDue, KeyIsInHand, PairIsWritten, AccountIsSaved,
     needsCertificate, Attempt
<1>6. CASE AuthorizeOrder
  <2> DEFINE Set == tokens \cup {challenge}
  <2>1. Challenges \ Set # {} => New(Challenges, Set) \in Challenges
    BY NewIsNew
  <2>2. challenge' \in Challenges
    BY <1>0, <1>6, <2>1 DEF AuthorizeOrder, TypeOK
  <2> QED
    BY <2>2, <1>0, <1>b, <1>c, <1>6 DEF AuthorizeOrder, Goto, Fail, Sleep, files, Inv, TypeOK,
     MismatchIsNoticed, AttemptIsDue, KeyIsInHand, PairIsWritten, AccountIsSaved,
     needsCertificate, Attempt
<1>7. CASE present
  BY <1>0, <1>b, <1>c, <1>7 DEF present, Goto, files, authority, Inv, TypeOK,
     MismatchIsNoticed, AttemptIsDue, KeyIsInHand, PairIsWritten, AccountIsSaved,
     needsCertificate, Attempt
<1>8. CASE Accept
  BY <1>0, <1>b, <1>c, <1>8 DEF Accept, Goto, Fail, Sleep, files, Inv, TypeOK,
     MismatchIsNoticed, AttemptIsDue, KeyIsInHand, PairIsWritten, AccountIsSaved,
     needsCertificate, Attempt
<1>9. CASE Validate
  <2>1. failures' \in Seq(Nat)
    <3>1. Append(failures, 0) \in Seq(Nat)
      BY <1>a
    <3>2. Counted(Append(failures, 0)) \in Seq(Nat)
      BY <3>1, CountedType
    <3>3. failures' = failures \/ failures' = Counted(Append(failures, 0))
      BY <1>9 DEF Validate
    <3> QED
      BY <1>a, <3>2, <3>3
  <2>2. TypeOK'
    BY <1>0, <1>b, <1>c, <1>9, <2>1 DEF Validate, files, TypeOK
  <2> QED
    BY <1>0, <1>b, <1>c, <1>9, <2>2 DEF Validate, files, Inv, MismatchIsNoticed, AttemptIsDue,
       KeyIsInHand, PairIsWritten, AccountIsSaved
<1>10. CASE WaitAuthorization
  BY <1>0, <1>b, <1>c, <1>10 DEF WaitAuthorization, Goto, Fail, Sleep, files, authority, Inv, TypeOK,
     MismatchIsNoticed, AttemptIsDue, KeyIsInHand, PairIsWritten, AccountIsSaved,
     needsCertificate, Attempt
<1>11. CASE WaitOrder
  BY <1>0, <1>b, <1>c, <1>11 DEF WaitOrder, Goto, Fail, Sleep, files, authority, Inv, TypeOK,
     MismatchIsNoticed, AttemptIsDue, KeyIsInHand, PairIsWritten, AccountIsSaved,
     needsCertificate, Attempt
<1>12. CASE CreateOrderCert
  <2>1. \A k \in Keys : Issued(k) \in Certificates /\ Issued(k).key = k
    BY <1>c DEF Issued, Certificates
  <2>a. Keys \ InUse # {} => New(Keys, InUse) \in Keys
    BY NewIsNew
  <2>2. hand' \in Certificates \cup {Absent}
    BY <1>0, <1>b, <1>c, <1>12, <2>1, <2>a DEF CreateOrderCert, TypeOK
  <2>3. pc' = "writeKey" => hand' # Absent
    BY <1>0, <1>b, <1>c, <1>12, <2>1, <2>a DEF CreateOrderCert, TypeOK, Goto
  <2> QED
    BY <1>0, <1>b, <1>c, <1>12, <2>2, <2>3 DEF CreateOrderCert, Goto, files, authority, Inv, TypeOK,
       MismatchIsNoticed, AttemptIsDue, KeyIsInHand, PairIsWritten, AccountIsSaved,
       needsCertificate, Attempt
<1>13. CASE collect
  BY <1>0, <1>b, <1>c, <1>13 DEF collect, Goto, Fail, Sleep, files, authority, Inv, TypeOK,
     MismatchIsNoticed, AttemptIsDue, KeyIsInHand, PairIsWritten, AccountIsSaved,
     needsCertificate, Attempt
\* The certificate is due while the key is written, and is the key's own as
\* soon as it is written itself.
<1>14. CASE write
  <2>1. hand = Absent \/ hand.key \in Keys
    BY <1>0 DEF TypeOK, Certificates
  <2> QED
    BY <1>0, <1>b, <1>c, <1>14, <2>1 DEF write, Goto, Fail, Sleep, authority, Inv, TypeOK,
       MismatchIsNoticed, AttemptIsDue, KeyIsInHand, PairIsWritten, AccountIsSaved,
       needsCertificate, Attempt
<1>15. CASE Reload
  BY <1>0, <1>b, <1>c, <1>15 DEF Reload, Fail, Sleep, files, authority, Inv, TypeOK,
     MismatchIsNoticed, AttemptIsDue, KeyIsInHand, PairIsWritten, AccountIsSaved,
     needsCertificate, Attempt
<1>16. CASE Restart
  <2>1. /\ tokens' = {} /\ hand' = Absent /\ failures' \in Seq(Nat)
        /\ check' \in {"none", "pending", "abandoned", "valid", "invalid"}
        /\ UNCHANGED <<challenge, subscribers>>
    <3>1. failures' \in Seq(Nat)
      BY <1>16 DEF Restart, NewLife
    <3>2. check' \in {"none", "pending", "abandoned", "valid", "invalid"}
      BY <1>0, <1>16 DEF Restart, NewLife, TypeOK
    <3> QED
      BY <1>16, <3>1, <3>2 DEF Restart, NewLife
  <2>2. TypeOK'
    BY <1>0, <1>b, <1>16, <2>1 DEF Restart, files, TypeOK
  <2> QED
    BY <1>0, <1>b, <1>16, <2>1, <2>2 DEF Restart, files, Inv, MismatchIsNoticed, AttemptIsDue,
       KeyIsInHand, PairIsWritten, AccountIsSaved, needsCertificate, Attempt
<1>17. CASE Reboot
  <2>1. /\ tokens' = {} /\ hand' = Absent /\ failures' \in Seq(Nat)
        /\ check' \in {"none", "pending", "abandoned", "valid", "invalid"}
        /\ UNCHANGED <<challenge, subscribers>>
    <3>1. failures' \in Seq(Nat)
      BY <1>17 DEF Reboot, NewLife
    <3>2. check' \in {"none", "pending", "abandoned", "valid", "invalid"}
      BY <1>0, <1>17 DEF Reboot, NewLife, TypeOK
    <3> QED
      BY <1>17, <3>1, <3>2 DEF Reboot, NewLife
  <2>2. TypeOK'
    BY <1>0, <1>b, <1>17, <2>1 DEF Reboot, files, TypeOK
  <2> QED
    BY <1>0, <1>b, <1>17, <2>1, <2>2 DEF Reboot, files, Inv, MismatchIsNoticed, AttemptIsDue,
       KeyIsInHand, PairIsWritten, AccountIsSaved, needsCertificate, Attempt
\* Time makes no certificate less due.
<1>18. CASE Tick
  <2>1. failures' \in Seq(Nat)
    <3> DEFINE older == [i \in DOMAIN failures |-> failures[i] + 1]
    <3>1. /\ Len(failures) \in Nat
          /\ DOMAIN failures = 1 .. Len(failures)
          /\ \A i \in 1 .. Len(failures) : failures[i] \in Nat
      BY <1>a
    <3>2. older \in Seq(Nat)
      BY <3>1, IsASeq
    <3>3. Counted(older) \in Seq(Nat)
      BY <3>2, CountedType
    <3> QED
      BY <1>18, <3>3 DEF Tick
  <2>2. /\ cert' \in Certificates
        /\ cert'.key = cert.key
        /\ needsCertificate(cert) => needsCertificate(cert')
    BY <1>0, <1>18, DueStaysDue DEF Tick, TypeOK
  <2>3. served' \in Certificates \cup {Absent}
    BY <1>0, <1>18, DueStaysDue DEF Tick, TypeOK, Older
  <2>4. wait' \in Nat
    BY <1>0, <1>18 DEF Tick, TypeOK
  <2>5. TypeOK'
    BY <1>0, <1>18, <2>1, <2>2, <2>3, <2>4 DEF Tick, TypeOK
  <2> QED
    BY <1>0, <1>18, <2>2, <2>5 DEF Tick, Inv, MismatchIsNoticed, AttemptIsDue, KeyIsInHand,
       PairIsWritten, AccountIsSaved, Attempt
<1>19. CASE Recover
  <2>1. TypeOK'
    BY <1>0, <1>19 DEF Recover, TypeOK, files, authority
  <2> QED
    BY <1>0, <1>19, <2>1 DEF Recover, Inv, MismatchIsNoticed, AttemptIsDue, KeyIsInHand,
       PairIsWritten, AccountIsSaved, files, authority
<1> QED
  BY <1>1, <1>2, <1>3, <1>4, <1>5, <1>6, <1>7, <1>8, <1>9, <1>10, <1>11, <1>12, <1>13, <1>14,
     <1>15, <1>16, <1>17, <1>18, <1>19 DEF Next, Run, obtain

\* The invariant holds in every reachable state.
LEMMA InvAlways == Spec => []Inv
  BY InvInit, InvNext, PTL DEF Spec

\* The variables keep their types, and what write is given is a certificate.
THEOREM CertificateTypeCorrect == Spec => []TypeOK
<1>1. Inv => TypeOK
  BY DEF Inv
<1> QED
  BY <1>1, InvAlways, PTL

\* Whatever fails, and wherever the service or the host is stopped, a key that
\* is not the certificate's own lies beside a certificate that is due for
\* replacement, so the manager does not take the pair for a good one.
THEOREM MismatchIsNoticedAlways == Spec => []MismatchIsNoticed
<1>1. Inv => MismatchIsNoticed
  BY DEF Inv
<1> QED
  BY <1>1, InvAlways, PTL

\* However often the service is restarted, and whether or not its key could be
\* saved, the authority sees one subscriber.
THEOREM OneSubscriberAlways == Spec => []OneSubscriber
<1>1. Inv => OneSubscriber
  BY DEF Inv, AccountIsSaved, OneSubscriber
<1> QED
  BY <1>1, InvAlways, PTL

----------------------------------------------------------------------------
(* The tokens: there is at most the one of the current challenge, and only *)
(* while satisfy waits for it.                                             *)

TokenIsTheChallenges == tokens \subseteq {challenge}
TokenInv == TokensAreForgotten /\ TokenIsTheChallenges

\* Every way out of satisfy forgets the token, and a new challenge is set only
\* when there is none.
LEMMA TokenInvNext == TokenInv /\ [Next]_vars => TokenInv'
<1> SUFFICES ASSUME TokenInv, [Next]_vars PROVE TokenInv'
  OBVIOUS
<1> USE DEF TokenInv, TokensAreForgotten, TokenIsTheChallenges
<1>1. CASE UNCHANGED vars
  BY <1>1 DEF vars, authority
<1>2. CASE Wake
  BY <1>2 DEF Wake, Goto, authority
<1>3. CASE Ensure
  BY <1>3 DEF Ensure, Goto, Sleep, authority
<1>4. CASE accountKey
  BY <1>4 DEF accountKey, Goto, Fail, Sleep, authority
<1>5. CASE Register
  BY <1>5 DEF Register, Goto, Fail, Sleep, authority
<1>6. CASE AuthorizeOrder
  BY <1>6 DEF AuthorizeOrder, Goto, Fail, Sleep, authority
<1>7. CASE present
  BY <1>7 DEF present, Goto, authority
<1>8. CASE Accept
  BY <1>8 DEF Accept, Goto, Fail, Sleep, authority
<1>9. CASE Validate
  BY <1>9 DEF Validate, authority
<1>10. CASE WaitAuthorization
  BY <1>10 DEF WaitAuthorization, Goto, Fail, Sleep, authority
<1>11. CASE WaitOrder
  BY <1>11 DEF WaitOrder, Goto, Fail, Sleep, authority
<1>12. CASE CreateOrderCert
  BY <1>12 DEF CreateOrderCert, Goto, authority
<1>13. CASE collect
  BY <1>13 DEF collect, Goto, Fail, Sleep, authority
<1>14. CASE write
  BY <1>14 DEF write, Goto, Fail, Sleep, authority
<1>15. CASE Reload
  BY <1>15 DEF Reload, Fail, Sleep, authority
<1>16. CASE Restart
  BY <1>16 DEF Restart, NewLife, authority
<1>17. CASE Reboot
  BY <1>17 DEF Reboot, NewLife, authority
<1>18. CASE Tick
  BY <1>18 DEF Tick, authority
<1>19. CASE Recover
  BY <1>19 DEF Recover, authority
<1> QED
  BY <1>1, <1>2, <1>3, <1>4, <1>5, <1>6, <1>7, <1>8, <1>9, <1>10, <1>11, <1>12, <1>13, <1>14, <1>15, <1>16,
     <1>17, <1>18, <1>19
     DEF Next, Run, obtain

\* Between attempts no token can be read out of a running dokkup, whatever
\* failed in the attempt (satisfy's deferred forget).
THEOREM TokensAreForgottenAlways == Spec => []TokensAreForgotten
<1>1. Init => TokenInv
  BY DEF Init, TokenInv, TokensAreForgotten, TokenIsTheChallenges
<1>2. TokenInv => TokensAreForgotten
  BY DEF TokenInv
<1> QED
  BY <1>1, <1>2, TokenInvNext, PTL DEF Spec

----------------------------------------------------------------------------
(* The failures: each is a retryInterval older than the one after it, and  *)
(* no validation can fail again before the last failure is as old.         *)

Apart(ages) ==
    \A i \in 1 .. Len(ages) :
        ages[i] >= (Len(ages) - i) * RetryInterval + ages[Len(ages)]

\* The last failure, if there is one, is at least d old.
Since(d) == Len(failures) > 0 => failures[Len(failures)] >= d

NextIsLater ==
    /\ check = "pending" => Since(RetryInterval)
    /\ check = "pending" => pc = "poll" \/ (pc = "asleep" /\ wait = RetryInterval)
    /\ pc = "asleep" => Since(RetryInterval - wait)
    /\ pc = "poll" => check = "invalid" \/ Since(RetryInterval)
    /\ pc \notin {"asleep", "poll"} => Since(RetryInterval)

SpacingInv == FailuresAreSpaced /\ Apart(failures) /\ NextIsLater

\* Failures that are apart leave no more within the hour than are allowed, and
\* dropping the oldest keeps the rest apart.
LEMMA CountedIsSpaced ==
    ASSUME NEW ages \in Seq(Nat), Apart(ages)
    PROVE  /\ Len(Counted(ages)) <= Allowance
           /\ Apart(Counted(ages))
           /\ Len(Counted(ages)) > 0 =>
                Len(ages) > 0 /\ Counted(ages)[Len(Counted(ages))] = ages[Len(ages)]
<1> DEFINE n == Len(ages)
           Old == {i \in 1 .. n : ages[i] >= Hour}
           old == Cardinality(Old)
           spent == n - Allowance - 1
           first == IF old > spent THEN old ELSE spent
           kept == SubSeq(ages, first + 1, n)
<1>1. n \in Nat /\ Allowance \in Nat /\ Hour \in Nat /\ RetryInterval \in Nat
  BY CertificateAssumption
<1>2. IsFiniteSet(1 .. n) /\ Cardinality(1 .. n) = n
  <2> HIDE DEF n
  <2> QED
    BY <1>1, FS_Interval
<1>3. IsFiniteSet(Old) /\ old \in Nat /\ old <= n
  BY <1>2, FS_Subset, FS_CardinalityType
<1>4. Counted(ages) = kept
  BY DEF Counted
<1> HIDE DEF Old, old
<1>5. first \in Nat /\ first <= n /\ first >= old
  BY <1>1, <1>3
<1> HIDE DEF first
<1>6. /\ Len(kept) = n - first
      /\ \A i \in 1 .. n - first : kept[i] = ages[first + i]
  BY <1>1, <1>5
\* One more than the allowance would reach back over the hour, and be among
\* those that were dropped.
<1>7. n - first <= Allowance
  <2> SUFFICES ASSUME n - first > Allowance PROVE FALSE
    BY <1>1, <1>5
  <2>1. \A i \in 1 .. first + 1 : i \in Old
    <3> SUFFICES ASSUME NEW i \in 1 .. first + 1 PROVE ages[i] >= Hour /\ i \in 1 .. n
      BY DEF Old
    <3>1. i \in 1 .. n /\ n - i >= Allowance /\ ages[i] \in Nat /\ ages[n] \in Nat
      BY <1>1, <1>5
    <3>2. ages[i] >= (n - i) * RetryInterval + ages[n]
      BY <3>1 DEF Apart
    <3>3. (n - i) * RetryInterval >= Allowance * RetryInterval
      <4> DEFINE more == n - i - Allowance
      <4>1. more \in Nat /\ n - i = Allowance + more
        BY <1>1, <3>1
      <4>2. (n - i) * RetryInterval = Allowance * RetryInterval + more * RetryInterval
        BY <1>1, <4>1
      <4>3. more * RetryInterval \in Nat /\ Allowance * RetryInterval \in Nat
        BY <1>1, <4>1
      <4> QED
        BY <1>1, <4>2, <4>3
    <3>4. (n - i) * RetryInterval \in Int /\ Allowance * RetryInterval \in Int
      BY <1>1
    <3>5. (n - i) * RetryInterval >= Hour
      <4>1. \A x, y \in Int : x >= y /\ Hour <= y => x >= Hour
        BY <1>1
      <4> QED
        BY <3>3, <3>4, <4>1, RetryAssumption, Zenon
    <3> QED
      BY <1>1, <3>1, <3>2, <3>4, <3>5
  <2>2. IsFiniteSet(1 .. first + 1) /\ Cardinality(1 .. first + 1) = first + 1
    BY <1>5, FS_Interval
  <2>3. Cardinality(1 .. first + 1) <= Cardinality(Old)
    BY <1>3, <2>1, FS_Subset
  <2> QED
    BY <1>3, <1>5, <2>2, <2>3 DEF old
<1>8. Apart(kept)
  <2> SUFFICES ASSUME NEW i \in 1 .. n - first
      PROVE  kept[i] >= (n - first - i) * RetryInterval + kept[n - first]
    BY <1>6 DEF Apart
  <2>1. ages[first + i] >= (n - (first + i)) * RetryInterval + ages[n]
    BY <1>1, <1>5 DEF Apart
  <2>2. n - (first + i) = n - first - i /\ kept[i] = ages[first + i] /\ kept[n - first] = ages[n]
    BY <1>1, <1>5, <1>6
  <2> QED
    BY <2>1, <2>2
<1>9. Len(kept) > 0 => n > 0 /\ kept[Len(kept)] = ages[n]
  <2> SUFFICES ASSUME n - first > 0 PROVE n > 0 /\ kept[n - first] = ages[n]
    BY <1>6
  <2>1. n - first \in 1 .. n - first /\ first + (n - first) = n
    BY <1>1, <1>5
  <2>2. kept[n - first] = ages[n]
    <3> HIDE DEF kept
    <3> QED
      BY <1>6, <2>1
  <2> QED
    BY <1>1, <1>5, <2>2
<1> QED
  BY <1>4, <1>6, <1>7, <1>8, <1>9

\* A validation fails only when the last failure is a retryInterval old, and
\* what is appended and grows older stays apart.
LEMMA SpacingInvNext == Inv /\ SpacingInv /\ [Next]_vars => SpacingInv'
<1> SUFFICES ASSUME Inv, SpacingInv, [Next]_vars PROVE SpacingInv'
  OBVIOUS
<1>0. FailuresAreSpaced /\ Apart(failures) /\ NextIsLater
  BY DEF SpacingInv
<1>a. /\ failures \in Seq(Nat) /\ Len(failures) \in Nat /\ wait \in Nat
      /\ \A i \in 1 .. Len(failures) : failures[i] \in Nat
  BY DEF Inv, TypeOK
<1>b. /\ RetryInterval \in Nat \ {0} /\ CheckInterval \in Nat \ {0} /\ Allowance \in Nat
  BY CertificateAssumption
<1>c. Len(failures) > 0 => failures[Len(failures)] \in Nat
  BY <1>a
\* Where no failure is added and none grows older, only the next one counts.
<1>d. UNCHANGED failures /\ NextIsLater' => SpacingInv'
  BY <1>0 DEF SpacingInv, FailuresAreSpaced, Apart
<1>1. CASE UNCHANGED vars
  BY <1>0, <1>1, <1>d DEF vars, authority, NextIsLater, Since
<1>2. CASE Wake
  <2>1. NextIsLater'
    BY <1>0, <1>b, <1>c, <1>a, <1>2 DEF Wake, Goto, authority, NextIsLater, Since
  <2> QED
    BY <1>2, <1>d, <2>1 DEF Wake, authority
<1>3. CASE Ensure
  <2>1. NextIsLater'
    BY <1>0, <1>b, <1>c, <1>a, <1>3 DEF Ensure, Goto, Sleep, authority, NextIsLater, Since
  <2> QED
    BY <1>3, <1>d, <2>1 DEF Ensure, authority
<1>4. CASE accountKey
  <2>1. NextIsLater'
    BY <1>0, <1>b, <1>c, <1>a, <1>4 DEF accountKey, Goto, Fail, Sleep, authority, NextIsLater, Since
  <2> QED
    BY <1>4, <1>d, <2>1 DEF accountKey, authority
<1>5. CASE Register
  <2>1. NextIsLater'
    BY <1>0, <1>b, <1>c, <1>a, <1>5 DEF Register, Goto, Fail, Sleep, authority, NextIsLater, Since
  <2> QED
    BY <1>5, <1>d, <2>1 DEF Register, authority
<1>6. CASE AuthorizeOrder
  <2>1. NextIsLater'
    BY <1>0, <1>b, <1>c, <1>a, <1>6
       DEF AuthorizeOrder, Looking, Goto, Fail, Sleep, authority, NextIsLater, Since
  <2> QED
    BY <1>6, <1>d, <2>1 DEF AuthorizeOrder, authority
<1>7. CASE present
  <2>1. NextIsLater'
    BY <1>0, <1>b, <1>c, <1>a, <1>7 DEF present, Goto, authority, NextIsLater, Since
  <2> QED
    BY <1>7, <1>d, <2>1 DEF present, authority
<1>8. CASE Accept
  <2>1. NextIsLater'
    BY <1>0, <1>a, <1>b, <1>c, <1>8 DEF Accept, Goto, Fail, Sleep, NextIsLater, Since
  <2> QED
    BY <1>8, <1>d, <2>1 DEF Accept, authority
<1>9. CASE WaitAuthorization
  <2>1. NextIsLater'
    BY <1>0, <1>b, <1>c, <1>a, <1>9 DEF WaitAuthorization, Goto, Fail, Sleep, authority, NextIsLater, Since
  <2> QED
    BY <1>9, <1>d, <2>1 DEF WaitAuthorization, authority
<1>10. CASE WaitOrder
  <2>1. NextIsLater'
    BY <1>0, <1>b, <1>c, <1>a, <1>10 DEF WaitOrder, Goto, Fail, Sleep, authority, NextIsLater, Since
  <2> QED
    BY <1>10, <1>d, <2>1 DEF WaitOrder, authority
<1>11. CASE CreateOrderCert
  <2>1. NextIsLater'
    BY <1>0, <1>b, <1>c, <1>a, <1>11 DEF CreateOrderCert, Goto, authority, NextIsLater, Since
  <2> QED
    BY <1>11, <1>d, <2>1 DEF CreateOrderCert, authority
<1>12. CASE collect
  <2>1. NextIsLater'
    BY <1>0, <1>b, <1>c, <1>a, <1>12 DEF collect, Goto, Fail, Sleep, authority, NextIsLater, Since
  <2> QED
    BY <1>12, <1>d, <2>1 DEF collect, authority
<1>13. CASE write
  <2>1. NextIsLater'
    BY <1>0, <1>b, <1>c, <1>a, <1>13 DEF write, Goto, Fail, Sleep, authority, NextIsLater, Since
  <2> QED
    BY <1>13, <1>d, <2>1 DEF write, authority
<1>14. CASE Reload
  <2>1. NextIsLater'
    BY <1>0, <1>b, <1>c, <1>a, <1>14 DEF Reload, Fail, Sleep, authority, NextIsLater, Since
  <2> QED
    BY <1>14, <1>d, <2>1 DEF Reload, authority
<1>15. CASE Recover
  <2>1. NextIsLater'
    BY <1>0, <1>b, <1>c, <1>a, <1>15 DEF Recover, authority, NextIsLater, Since
  <2> QED
    BY <1>15, <1>d, <2>1 DEF Recover, authority
\* The authority looks, and may count a failure.
<1>16. CASE Validate
  <2>1. CASE check = "pending" /\ check' = "invalid" /\ failures' = Counted(Append(failures, 0))
    <3> DEFINE ages == Append(failures, 0)
    <3>1. /\ ages \in Seq(Nat) /\ Len(ages) = Len(failures) + 1
          /\ ages[Len(ages)] = 0
          /\ \A i \in 1 .. Len(failures) : ages[i] = failures[i]
      BY <1>a
    <3>2. Since(RetryInterval)
      BY <1>0, <2>1 DEF NextIsLater
    <3>3. Apart(ages)
      <4> SUFFICES ASSUME NEW i \in 1 .. Len(ages)
          PROVE  ages[i] >= (Len(ages) - i) * RetryInterval + ages[Len(ages)]
        BY DEF Apart
      <4> SUFFICES ages[i] >= (Len(failures) + 1 - i) * RetryInterval
        <5> HIDE DEF ages
        <5>1. (Len(failures) + 1 - i) * RetryInterval \in Int
          BY <1>a, <1>b, <3>1
        <5>2. (Len(failures) + 1 - i) * RetryInterval + 0 = (Len(failures) + 1 - i) * RetryInterval
          BY <5>1
        <5>3. (Len(ages) - i) * RetryInterval + ages[Len(ages)] = (Len(failures) + 1 - i) * RetryInterval + 0
          <6>1. Len(ages) = Len(failures) + 1 /\ ages[Len(ages)] = 0
            BY <3>1
          <6> QED
            BY <6>1
        <5> QED
          BY <5>2, <5>3, Zenon
      <4>1. CASE i = Len(failures) + 1
        BY <1>a, <1>b, <3>1, <4>1
      <4>2. CASE i \in 1 .. Len(failures)
        <5> DEFINE k == Len(failures) - i
        <5>1. k \in Int /\ Len(failures) + 1 - i = k + 1
          BY <1>a
        <5>2. failures[i] >= k * RetryInterval + failures[Len(failures)]
          BY <1>0, <4>2 DEF Apart
        <5>3. failures[Len(failures)] >= RetryInterval
          BY <1>a, <3>2, <4>2 DEF Since
        <5>4. failures[i] \in Nat /\ failures[Len(failures)] \in Nat /\ ages[i] = failures[i]
          BY <1>a, <3>1, <4>2
        <5> HIDE DEF k, ages
        <5>5. (k + 1) * RetryInterval = k * RetryInterval + RetryInterval /\ k * RetryInterval \in Int
          BY <1>b, <5>1
        <5>6. \A x \in Int, a, l \in Nat : a >= x + l /\ l >= RetryInterval => a >= x + RetryInterval
          BY <1>b
        <5>7. failures[i] >= k * RetryInterval + RetryInterval
          BY <5>2, <5>3, <5>4, <5>5, <5>6, Zenon
        <5> QED
          BY <5>1, <5>4, <5>5, <5>7, Zenon
      <4> QED
        BY <1>a, <3>1, <4>1, <4>2
    <3>4. /\ Len(failures') <= Allowance /\ Apart(failures')
          /\ Len(failures') > 0 => failures'[Len(failures')] = 0
      BY <2>1, <3>1, <3>3, CountedIsSpaced
    <3>5. NextIsLater'
      BY <1>0, <1>b, <1>16, <2>1, <3>4 DEF Validate, NextIsLater, Since
    <3> QED
      BY <3>4, <3>5 DEF SpacingInv, FailuresAreSpaced
  <2>2. CASE UNCHANGED failures
    <3>1. NextIsLater'
      BY <1>0, <1>16, <2>2 DEF Validate, Looking, NextIsLater, Since
    <3> QED
      BY <1>d, <2>2, <3>1
  <2> QED
    BY <1>16, <2>1, <2>2 DEF Validate
\* A new life counts from nothing.
<1>17. CASE Restart \/ Reboot
  <2>1. failures' = <<>> /\ check' # "pending"
    BY <1>17 DEF Restart, Reboot, NewLife
  <2>2. Len(failures') = 0
    BY <2>1
  <2> QED
    BY <1>b, <2>1, <2>2 DEF SpacingInv, FailuresAreSpaced, Apart, NextIsLater, Since
\* Every failure grows older by as much as is slept.
<1>18. CASE Tick
  <2> DEFINE ages == [i \in DOMAIN failures |-> failures[i] + 1]
  <2>1. ages \in Seq(Nat) /\ Len(ages) = Len(failures)
    <3>1. DOMAIN failures = 1 .. Len(failures)
      BY <1>a
    <3> QED
      BY <1>a, <3>1, IsASeq
  <2>2. \A i \in 1 .. Len(failures) : ages[i] = failures[i] + 1
    BY <1>a
  <2>3. Apart(ages)
    <3> HIDE DEF ages
    <3> SUFFICES ASSUME NEW i \in 1 .. Len(failures)
        PROVE  ages[i] >= (Len(failures) - i) * RetryInterval + ages[Len(failures)]
      BY <2>1, Zenon DEF Apart
    <3>1. failures[i] >= (Len(failures) - i) * RetryInterval + failures[Len(failures)]
      BY <1>0 DEF Apart
    <3>2. (Len(failures) - i) * RetryInterval \in Int
      BY <1>a, <1>b
    <3>3. /\ failures[i] \in Nat /\ ages[i] = failures[i] + 1
          /\ failures[Len(failures)] \in Nat /\ ages[Len(failures)] = failures[Len(failures)] + 1
      BY <1>a, <2>2
    <3>4. \A x \in Int, a, l \in Nat : a >= x + l => a + 1 >= x + (l + 1)
      OBVIOUS
    <3> QED
      BY <3>1, <3>2, <3>3, <3>4, Zenon
  <2>4. /\ Len(failures') <= Allowance /\ Apart(failures')
        /\ Len(failures') > 0 =>
             Len(failures) > 0 /\ failures'[Len(failures')] = failures[Len(failures)] + 1
    <3>1. failures' = Counted(ages)
      BY <1>18 DEF Tick
    <3> HIDE DEF ages
    <3>2. /\ Len(failures') <= Allowance /\ Apart(failures')
          /\ Len(failures') > 0 =>
               Len(failures) > 0 /\ failures'[Len(failures')] = ages[Len(failures)]
      BY <2>1, <2>3, <3>1, CountedIsSpaced
    <3> QED
      BY <1>a, <2>2, <3>2
  <2>5. NextIsLater'
    BY <1>0, <1>a, <1>b, <1>c, <1>18, <2>4 DEF Tick, Looking, NextIsLater, Since
  <2> QED
    BY <2>4, <2>5 DEF SpacingInv, FailuresAreSpaced
<1> QED
  BY <1>1, <1>2, <1>3, <1>4, <1>5, <1>6, <1>7, <1>8, <1>9, <1>10, <1>11, <1>12, <1>13, <1>14, <1>15, <1>16,
     <1>17, <1>18
     DEF Next, Run, obtain

\* However many attempts fail in one life of the service, no hour sees more
\* failed validations than the authority allows: Run sleeps retryInterval after
\* each, and an attempt that gave up polling waits for the verdict.
THEOREM FailuresAreSpacedAlways == Spec => []FailuresAreSpaced
<1>1. Init => SpacingInv
  <2> SUFFICES ASSUME Init PROVE SpacingInv
    OBVIOUS
  <2>1. Len(failures) = 0 /\ check = "none" /\ pc = "ensure"
    BY DEF Init
  <2>2. Allowance \in Nat
    BY CertificateAssumption
  <2> QED
    BY <2>1, <2>2 DEF SpacingInv, FailuresAreSpaced, Apart, NextIsLater, Since
<1>2. SpacingInv => FailuresAreSpaced
  BY DEF SpacingInv
<1> QED
  BY <1>1, <1>2, InvAlways, SpacingInvNext, PTL DEF Spec

----------------------------------------------------------------------------
(* Renewal, where nothing fails: every challenge is met, so that no        *)
(* attempt ends early; what is on disk is what is served, but for the      *)
(* moment before the reload; and a sleep never lasts to the end of a       *)
(* certificate, because a look found it not yet due, or just issued.       *)

ChallengeIsMet ==
    /\ check \in {"none", "pending", "valid"}
    /\ check = "pending" => pc = "poll"
    /\ pc = "poll" => check # "none"
    /\ pc \in {"accept", "poll"} => challenge \in tokens
    /\ pc # "collect"

RenewalIsServed ==
    /\ served # Absent
    /\ pc # "reload" => served = cert
    /\ pc \in {"writeKey", "writeCert"} => hand.left = Lifetime
    /\ pc = "reload" => cert.left = Lifetime

SleepIsShort ==
    pc = "asleep" =>
        /\ wait <= CheckInterval
        /\ cert.good => cert.left + CheckInterval >= RenewBefore + wait

InTime == ~outage /\ ChallengeIsMet /\ RenewalIsServed /\ SleepIsShort /\ ServedNeverExpires

\* Every step keeps it: none of them fails.
LEMMA InTimeNext == Inv /\ InTime /\ [Next]_vars => InTime'
<1> SUFFICES ASSUME Inv, InTime, [Next]_vars PROVE InTime'
  OBVIOUS
<1>a. TypeOK /\ PairIsWritten
  BY DEF Inv
<1>b. /\ CheckInterval \in Nat /\ RenewBefore \in Nat /\ Lifetime \in Nat
      /\ CheckInterval < RenewBefore /\ RenewBefore <= Lifetime
  BY CertificateAssumption, RenewAssumption
<1>c. cert.left \in 0 .. Lifetime /\ wait \in Nat
  BY <1>a DEF TypeOK, Certificates
<1>d. ~outage /\ (\A call : ~MayFail(call))
  BY DEF InTime, MayFail
<1>e. served # Absent /\ served \in Certificates /\ Absent \notin Certificates
  BY <1>a, CertificateAssumption DEF InTime, RenewalIsServed, TypeOK
<1> USE DEF InTime, ChallengeIsMet, RenewalIsServed, SleepIsShort, ServedNeverExpires
<1>1. CASE UNCHANGED vars
  BY <1>1 DEF vars, files, authority
<1>2. CASE Wake
  BY <1>2 DEF Wake, Goto, files, authority
<1>3. CASE Ensure
  <2>1. CASE needsCertificate(cert)
    BY <1>3, <2>1 DEF Ensure, Goto, files, authority
  <2>2. CASE ~needsCertificate(cert)
    BY <1>3, <2>2, <1>b, <1>c DEF Ensure, Sleep, needsCertificate, files, authority
  <2> QED
    BY <2>1, <2>2
<1>4. CASE accountKey
  BY <1>4, <1>d DEF accountKey, Goto, authority
<1>5. CASE Register
  BY <1>5, <1>d DEF Register, Goto, files
<1>6. CASE AuthorizeOrder
  BY <1>6, <1>d DEF AuthorizeOrder, Looking, Goto, files
<1>7. CASE present
  BY <1>7 DEF present, Goto, files, authority
<1>8. CASE Accept
  BY <1>8, <1>d DEF Accept, Goto, files
\* The authority finds the token and nginx before it.
<1>9. CASE Validate
  BY <1>9, <1>d DEF Validate, Looking, files
<1>10. CASE WaitAuthorization
  BY <1>10, <1>d DEF WaitAuthorization, Goto, files, authority
<1>11. CASE WaitOrder
  BY <1>11, <1>d DEF WaitOrder, Goto, files, authority
<1>12. CASE CreateOrderCert
  BY <1>12, <1>d DEF CreateOrderCert, Issued, Goto, files, authority
<1>13. CASE collect
  BY <1>13 DEF collect
<1>14. CASE write
  BY <1>14, <1>d DEF write, Goto, authority
\* The renewal reaches nginx, with its whole life before it.
<1>15. CASE Reload
  <2>1. /\ pc = "reload" /\ pc' = "asleep" /\ wait' = CheckInterval
        /\ served' = cert /\ cert' = cert
        /\ UNCHANGED <<check, challenge, outage>>
    BY <1>15, <1>a, <1>d DEF Reload, Sleep, PairIsWritten, files, authority
  <2>2. cert.left = Lifetime /\ cert # Absent
    BY <1>15, <1>a, <1>e DEF Reload, TypeOK
  <2>3. SleepIsShort' /\ ServedNeverExpires'
    BY <1>b, <1>c, <2>1, <2>2
  <2> QED
    BY <2>1, <2>2, <2>3
<1>16. CASE Restart \/ Reboot \/ Recover
  BY <1>16, <1>d DEF Restart, Reboot, Recover
<1>17. CASE Tick
  <2>1. /\ served = cert /\ pc = "asleep" /\ pc' = pc /\ wait > 0 /\ wait' = wait - 1
        /\ cert' = Older(cert) /\ served' = cert' /\ UNCHANGED <<check, challenge, tokens, outage>>
    BY <1>17 DEF Tick
  <2>2. cert # Absent /\ cert \in Certificates
    BY <1>a, <1>e, <2>1
  <2>3. /\ cert' \in Certificates /\ cert'.good = cert.good
        /\ cert'.left = IF cert.left = 0 THEN 0 ELSE cert.left - 1
    BY <1>b, <1>c, <2>1, <2>2 DEF Older, Certificates
  <2>4. cert.good => cert.left + CheckInterval >= RenewBefore + wait
    BY <2>1
  <2>5. SleepIsShort'
    BY <1>b, <1>c, <2>1, <2>3, <2>4
  <2>6. cert.good => cert'.left > 0
    BY <1>b, <1>c, <2>1, <2>3, <2>4
  <2> QED
    BY <1>e, <2>1, <2>3, <2>5, <2>6
<1> QED
  BY <1>1, <1>2, <1>3, <1>4, <1>5, <1>6, <1>7, <1>8, <1>9, <1>10, <1>11, <1>12, <1>13, <1>14,
     <1>15, <1>16, <1>17 DEF Next, Run, obtain

\* Where nothing fails, a trusted certificate that nginx serves never runs
\* out: Ensure comes by between the day it is due and its last, and what it
\* obtains is served by the end of the attempt.
THEOREM RenewedInTimeAlways == Spec => RenewedInTime
<1>1. Init /\ ~outage => InTime
  <2> SUFFICES ASSUME Init, ~outage PROVE InTime
    OBVIOUS
  <2>1. cert # Absent
    BY InvInit, CertificateAssumption DEF Inv, TypeOK
  <2>2. /\ pc = "ensure" /\ check = "none" /\ served = cert /\ ~cert.good
    BY DEF Init
  <2> QED
    BY <2>1, <2>2 DEF InTime, ChallengeIsMet, RenewalIsServed, SleepIsShort, ServedNeverExpires
<1>2. InTime => ServedNeverExpires
  BY DEF InTime
<1> QED
  BY <1>1, <1>2, InvAlways, InTimeNext, PTL DEF Spec, RenewedInTime
=============================================================================

------------------------- MODULE PasscodeScreen_proofs -------------------------
(* Proofs about PasscodeScreen, for any passcodes and bounds.              *)
EXTENDS PasscodeScreen, TLAPS

(* No count, of the screen or of a verification that is out, is ahead of   *)
(* the wrong attempts since the screen was last usable.                    *)
CountsWrong ==
    /\ retryCount <= wrong
    /\ \A i \in DOMAIN asked : asked[i].retryCount <= wrong

PasscodeInv == PasscodeTypeOK /\ CountsWrong /\ SuspendedAfterThree

USE DEF fields, attempts

LEMMA InitTypeCorrect == PasscodeInit => PasscodeTypeOK
<1>1. <<>> \in Seq(Verification)
  OBVIOUS
<1>2. PasscodeInit => /\ isSettingPasscode \in BOOLEAN
                      /\ isVerifyingPasscode \in BOOLEAN
                      /\ isSuspended \in BOOLEAN /\ left \in BOOLEAN
  BY Zenon DEF PasscodeInit
<1>3. QED
  BY <1>1, <1>2 DEF PasscodeInit, PasscodeTypeOK

(* Every variable keeps its type in every step.                            *)
LEMMA StepTypeCorrect ==
    PasscodeTypeOK /\ [PasscodeNext]_passcodeVars => PasscodeTypeOK'
<1> SUFFICES ASSUME PasscodeTypeOK, [PasscodeNext]_passcodeVars
             PROVE  PasscodeTypeOK'
  OBVIOUS
<1> USE DEF PasscodeTypeOK
<1>a. ASSUME asked # <<>>
      PROVE  /\ Head(asked) \in Verification
             /\ Tail(asked) \in Seq(Verification)
  BY <1>a
<1>1. CASE DeletePasscode
  BY <1>1 DEF DeletePasscode
<1>2. CASE DeleteMnemonics
  BY <1>2 DEF DeleteMnemonics
<1>3. CASE GetPasscode
  <2>1. isSettingPasscode' \in BOOLEAN
    BY <1>3 DEF GetPasscode
  <2>2. QED
    BY <1>3, <2>1 DEF GetPasscode
<1>4. CASE Saved
  BY <1>4 DEF Saved
<1>5. CASE Right
  BY <1>5, <1>a DEF Right
<1>6. CASE Wrong
  <2>1. Head(asked).retryCount \in Nat
    BY <1>6, <1>a DEF Wrong, Verification
  <2>2. retryCount' \in Nat /\ timers' \in Nat /\ wrong' \in Nat
    BY <1>6, <2>1 DEF Wrong
  <2>3. isSuspended' \in BOOLEAN
    <3>1. isSuspended' = TRUE \/ isSuspended' = isSuspended
      BY <1>6 DEF Wrong
    <3>2. QED
      BY <3>1
  <2>4. /\ asked' \in Seq(Verification)
        /\ passcode' \in Codes \cup {None}
        /\ UNCHANGED <<stored, effect, tempPasscode, isSettingPasscode,
                       isVerifyingPasscode, saving, leaving, left>>
    BY <1>6, <1>a DEF Wrong
  <2>5. QED
    BY <2>2, <2>3, <2>4
<1>7. CASE Timeout
  <2>1. isSuspended' \in BOOLEAN
    BY <1>7, Zenon DEF Timeout
  <2>2. timers' \in Nat /\ retryCount' \in Nat /\ wrong' \in Nat
    BY <1>7 DEF Timeout
  <2>3. UNCHANGED <<stored, effect, fields, saving, asked, leaving, left>>
    BY <1>7 DEF Timeout
  <2>4. QED
    BY <2>1, <2>2, <2>3
<1>8. CASE HandlePasscodeChange
  BY <1>8 DEF HandlePasscodeChange
<1>9. CASE FirstEntry
  BY <1>9 DEF FirstEntry
<1>10. CASE SecondEntry
  BY <1>10 DEF SecondEntry
<1>11. CASE Mismatch
  BY <1>11 DEF Mismatch
<1>12. CASE HandleVerifyPasscode
  <2>1. passcode \in Codes
    BY <1>12 DEF HandleVerifyPasscode, Confirmed
  <2>2. [passcode |-> passcode, retryCount |-> retryCount,
         answer |-> stored] \in Verification
    BY <2>1 DEF Verification
  <2>3. asked' \in Seq(Verification)
    BY <1>12, <2>2 DEF HandleVerifyPasscode
  <2>4. QED
    BY <1>12, <2>3 DEF HandleVerifyPasscode
<1>13. CASE UNCHANGED passcodeVars
  BY <1>13 DEF passcodeVars
<1>14. CASE Leave
  <2>1. left' \in BOOLEAN
    <3>1. left' = left \/ left' = TRUE
      BY <1>14, Zenon DEF Leave
    <3>2. QED
      BY <3>1
  <2>2. leaving' \in Nat
    BY <1>14 DEF Leave
  <2>3. UNCHANGED <<stored, effect, fields, saving, asked, attempts>>
    BY <1>14 DEF Leave
  <2>4. QED
    BY <2>1, <2>2, <2>3
<1>15. QED
  BY <1>1, <1>2, <1>3, <1>4, <1>5, <1>6, <1>7, <1>8, <1>9, <1>10, <1>11,
     <1>12, <1>13, <1>14 DEF PasscodeNext, Device

(* Type correctness of the screen.                                         *)
THEOREM PasscodeTypeCorrect == PasscodeSpec => []PasscodeTypeOK
  BY InitTypeCorrect, StepTypeCorrect, PTL DEF PasscodeSpec

(* Only Wrong, Timeout and HandleVerifyPasscode touch the attempts.        *)
LEMMA StepCountsWrong ==
    PasscodeInv /\ [PasscodeNext]_passcodeVars =>
       CountsWrong' /\ SuspendedAfterThree'
<1> SUFFICES ASSUME PasscodeInv, [PasscodeNext]_passcodeVars
             PROVE  CountsWrong' /\ SuspendedAfterThree'
  OBVIOUS
<1> USE DEF PasscodeInv, PasscodeTypeOK, CountsWrong, SuspendedAfterThree
<1>1. CASE Wrong
  <2>1. /\ Head(asked) = asked[1] /\ 1 \in DOMAIN asked
        /\ Head(asked) \in Verification
    BY <1>1 DEF Wrong
  <2>2. /\ Head(asked).retryCount \in Nat
        /\ Head(asked).retryCount <= wrong
    BY <2>1 DEF Verification
  <2>3. /\ retryCount' = Head(asked).retryCount + 1
        /\ wrong' = wrong + 1 /\ asked' = Tail(asked)
        /\ isSuspended' => isSuspended \/ Head(asked).retryCount >= 2
    BY <1>1 DEF Wrong
  <2>4. retryCount' <= wrong' /\ SuspendedAfterThree'
    BY <2>2, <2>3
  <2>5. ASSUME NEW i \in DOMAIN asked'  PROVE  asked'[i].retryCount <= wrong'
    <3>1. /\ i + 1 \in DOMAIN asked
          /\ asked'[i] = asked[i + 1]
      BY <2>1, <2>3, <1>1 DEF Wrong
    <3>2. asked[i + 1] \in Verification
      BY <3>1
    <3>3. asked[i + 1].retryCount \in Nat
      BY <3>2 DEF Verification
    <3>4. QED
      BY <2>3, <3>1, <3>3
  <2>6. QED
    BY <2>4, <2>5
<1>2. CASE Timeout
  <2>1. wrong' = IF isSuspended THEN 0 ELSE wrong
    BY <1>2 DEF Timeout
  <2>2. /\ isSuspended => asked' = <<>>
        /\ asked' = asked /\ retryCount' = 0 /\ ~ isSuspended'
    BY <1>2 DEF Timeout
  <2>3. QED
    BY <2>1, <2>2
<1>3. CASE HandleVerifyPasscode
  <2>1. CASE UNCHANGED asked
    BY <1>3, <2>1 DEF HandleVerifyPasscode
  <2>2. CASE asked' = Append(asked, [passcode |-> passcode,
                         retryCount |-> retryCount, answer |-> stored])
    <3>1. ASSUME NEW i \in DOMAIN asked'
          PROVE  asked'[i].retryCount <= wrong
      <4>1. CASE i \in DOMAIN asked
        BY <2>2, <4>1
      <4>2. CASE i = Len(asked) + 1
        BY <2>2, <4>2
      <4>3. QED
        BY <2>2, <4>1, <4>2
    <3>2. QED
      BY <1>3, <3>1 DEF HandleVerifyPasscode
  <2>3. QED
    BY <1>3, <2>1, <2>2 DEF HandleVerifyPasscode
<1>4. CASE Right
  <2>1. asked # <<>> /\ asked' = Tail(asked) /\ UNCHANGED attempts
    BY <1>4 DEF Right
  <2>2. ASSUME NEW i \in DOMAIN asked'  PROVE  asked'[i].retryCount <= wrong
    <3>1. i + 1 \in DOMAIN asked /\ asked'[i] = asked[i + 1]
      BY <2>1
    <3>2. QED
      BY <3>1
  <2>3. QED
    BY <2>1, <2>2
<1>5. CASE UNCHANGED <<attempts, asked>>
  BY <1>5
<1>6. QED
  BY <1>1, <1>2, <1>3, <1>4, <1>5
     DEF PasscodeNext, Device, DeletePasscode, DeleteMnemonics, GetPasscode,
         Saved, Leave, HandlePasscodeChange, FirstEntry, SecondEntry, Mismatch,
         passcodeVars

(* A Passcode screen is suspended only after three wrong attempts since it *)
(* was last usable: stale counts can make it more, never fewer.            *)
THEOREM NeverSuspendedEarly == PasscodeSpec => []SuspendedAfterThree
<1>1. PasscodeInit => PasscodeInv
  BY InitTypeCorrect
     DEF PasscodeInit, PasscodeInv, CountsWrong, SuspendedAfterThree
<1>2. PasscodeInv /\ [PasscodeNext]_passcodeVars => PasscodeInv'
  BY StepTypeCorrect, StepCountsWrong DEF PasscodeInv
<1>3. PasscodeInv => SuspendedAfterThree
  BY DEF PasscodeInv
<1>4. QED
  BY <1>1, <1>2, <1>3, PTL DEF PasscodeSpec

-----------------------------------------------------------------------------
(* Verifications are asked of a usable screen, so each takes at most the   *)
(* third attempt; the one that takes it sets the timeout of its own        *)
(* suspension, and every timeout that fires also lifts it.                 *)
LEMMA StepTimed ==
    PasscodeTypeOK /\ SuspensionIsTimed /\ [PasscodeNext]_passcodeVars
        => SuspensionIsTimed'
<1> SUFFICES ASSUME PasscodeTypeOK, SuspensionIsTimed,
                    [PasscodeNext]_passcodeVars
             PROVE  SuspensionIsTimed'
  OBVIOUS
<1> USE DEF PasscodeTypeOK, SuspensionIsTimed
<1>a. ASSUME asked # <<>>, asked' = Tail(asked)
      PROVE  /\ Head(asked) \in Verification /\ Head(asked).retryCount <= 2
             /\ \A i \in DOMAIN asked' : asked'[i].retryCount <= 2
  <2>1. Head(asked) = asked[1] /\ 1 \in DOMAIN asked
        /\ Head(asked) \in Verification
    BY <1>a
  <2>2. \A i \in DOMAIN asked' : i + 1 \in DOMAIN asked
                                 /\ asked'[i] = asked[i + 1]
    BY <1>a
  <2>3. QED
    BY <2>1, <2>2
<1>1. CASE Wrong
  <2>1. PICK r : r = Head(asked)
    OBVIOUS
  <2>2. /\ r.retryCount \in Nat /\ r.retryCount <= 2
        /\ \A i \in DOMAIN asked' : asked'[i].retryCount <= 2
    BY <1>1, <1>a, <2>1 DEF Wrong, Verification
  <2>3. /\ retryCount' = r.retryCount + 1
        /\ r.retryCount >= 2 => isSuspended' /\ timers' = timers + 1
        /\ r.retryCount < 2 => UNCHANGED <<isSuspended, timers>>
    BY <1>1, <2>1, <2>2 DEF Wrong
  <2>4. QED
    BY <2>2, <2>3
<1>2. CASE Timeout
  <2>1. retryCount' = 0 /\ ~ isSuspended' /\ asked' = asked
    BY <1>2 DEF Timeout
  <2>2. QED
    BY <2>1
<1>3. CASE HandleVerifyPasscode
  <2>1. ~ isSuspended /\ UNCHANGED attempts
    BY <1>3 DEF HandleVerifyPasscode, Confirmed, Shown
  <2>2. ASSUME NEW i \in DOMAIN asked'  PROVE asked'[i].retryCount <= 2
    <3>1. CASE UNCHANGED asked
      BY <3>1
    <3>2. CASE asked' = Append(asked, [passcode |-> passcode,
                           retryCount |-> retryCount, answer |-> stored])
      <4>1. CASE i \in DOMAIN asked
        BY <3>2, <4>1
      <4>2. CASE i = Len(asked) + 1
        BY <2>1, <3>2, <4>2
      <4>3. QED
        BY <3>2, <4>1, <4>2
    <3>3. QED
      BY <1>3, <3>1, <3>2 DEF HandleVerifyPasscode
  <2>3. QED
    BY <2>1, <2>2
<1>4. CASE Right
  BY <1>4, <1>a DEF Right
<1>5. CASE UNCHANGED <<attempts, asked>>
  BY <1>5
<1>6. QED
  BY <1>1, <1>2, <1>3, <1>4, <1>5
     DEF PasscodeNext, Device, DeletePasscode, DeleteMnemonics, GetPasscode,
         Saved, Leave, HandlePasscodeChange, FirstEntry, SecondEntry, Mismatch,
         passcodeVars

(* No suspension lacks the timeout that ends it, and no alert numbers an   *)
(* attempt beyond three, however many verifications are out with the count *)
(* of one render.                                                          *)
THEOREM SuspensionsAreTimed == PasscodeSpec => []SuspensionIsTimed
<1>1. PasscodeInit => SuspensionIsTimed
  BY DEF PasscodeInit, SuspensionIsTimed
<1>2. QED
  BY <1>1, InitTypeCorrect, StepTypeCorrect, StepTimed, PTL DEF PasscodeSpec
=============================================================================

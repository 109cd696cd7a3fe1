---------------------------- MODULE PasscodeScreen ----------------------------
(***************************************************************************)
(* One Passcode screen (src/src/screens/Passcode.Screen.tsx) from its      *)
(* mount until it navigates: setting a passcode, or verifying the stored   *)
(* one with three attempts and a suspension.                               *)
(*                                                                         *)
(* The Confirm button is never disabled.  handleVerifyPasscode awaits the  *)
(* Keychain and then uses the passcode and the retryCount of the render    *)
(* that created it, so several may be out with the same values.            *)
(***************************************************************************)
EXTENDS Naturals, Sequences

CONSTANTS
    Codes,      \* passcodes of 6 digits
    None,       \* no passcode: '' in a field, null in the Keychain
    MaxAsked,   \* bound on the verifications out at one time
    MaxWrong,   \* bound on the wrong attempts between two suspensions
    MaxTimers   \* bound on the timeouts that are set

ASSUME PasscodeAssumption ==
    /\ None \notin Codes
    /\ MaxAsked \in Nat /\ MaxWrong \in Nat /\ MaxTimers \in Nat

VARIABLES
    stored,              \* userPasscode in the Keychain
    effect,              \* the call checkPasscode is at, "done" or "failed"
    passcode,            \* what is typed
    tempPasscode,
    isSettingPasscode,
    isVerifyingPasscode,
    saving,              \* setSecret calls that are out
    asked,               \* the verifications that are out, oldest first
    retryCount,
    isSuspended,
    timers,              \* timeouts that will lift a suspension
    wrong,               \* history: wrong attempts since a suspension ended
    leaving,             \* the right verifications that are not over yet
    left                 \* the screen has navigated

fields == <<passcode, tempPasscode, isSettingPasscode, isVerifyingPasscode>>
attempts == <<retryCount, isSuspended, timers, wrong>>
passcodeVars ==
    <<stored, effect, fields, saving, asked, attempts, leaving, left>>

Verification == [passcode: Codes, retryCount: Nat, answer: Codes \cup {None}]

PasscodeTypeOK ==
    /\ stored \in Codes \cup {None}
    /\ effect \in {"deletePasscode", "deleteMnemonics", "get", "done",
                   "failed"}
    /\ passcode \in Codes \cup {None} /\ tempPasscode \in Codes \cup {None}
    /\ isSettingPasscode \in BOOLEAN /\ isVerifyingPasscode \in BOOLEAN
    /\ saving \in Nat /\ leaving \in Nat
    /\ asked \in Seq(Verification)
    /\ retryCount \in Nat /\ timers \in Nat /\ wrong \in Nat
    /\ isSuspended \in BOOLEAN /\ left \in BOOLEAN

(* An earlier session may have left a passcode.  The effect runs at once:  *)
(* its first call deletes it or is rejected, before any later call reads.  *)
PasscodeInit ==
    /\ \/ effect = "deletePasscode" /\ stored = None
       \/ effect = "failed" /\ stored \in Codes \cup {None}
    /\ passcode = None /\ tempPasscode = None
    /\ isSettingPasscode = FALSE /\ isVerifyingPasscode = FALSE
    /\ saving = 0 /\ asked = <<>>
    /\ retryCount = 0 /\ isSuspended = FALSE /\ timers = 0
    /\ wrong = 0 /\ leaving = 0 /\ left = FALSE

-----------------------------------------------------------------------------
(* checkPasscode, after each of its awaits.                                *)

DeletePasscode ==
    /\ effect = "deletePasscode"
    /\ effect' \in {"deleteMnemonics", "failed"}
    /\ UNCHANGED <<stored, fields, saving, asked, attempts, leaving, left>>

DeleteMnemonics ==
    /\ effect = "deleteMnemonics"
    /\ effect' \in {"get", "failed"}
    /\ UNCHANGED <<stored, fields, saving, asked, attempts, leaving, left>>

\* Mutation: isSettingPasscode is set to the answer, not to its negation.
GetPasscodeRaw ==
    /\ effect = "get"
    /\ effect' = "done" /\ isSettingPasscode' = stored
    /\ UNCHANGED <<stored, passcode, tempPasscode, isVerifyingPasscode, saving,
                   asked, attempts, leaving, left>>

GetPasscode ==
    /\ effect = "get"
    /\ \/ effect' = "done" /\ isSettingPasscode' = (stored = None)
       \/ effect' = "failed" /\ UNCHANGED isSettingPasscode
    /\ UNCHANGED <<stored, passcode, tempPasscode, isVerifyingPasscode, saving,
                   asked, attempts, leaving, left>>

-----------------------------------------------------------------------------
(* The field and the Confirm button; a suspended screen shows neither.     *)
Shown == ~ left /\ ~ isSuspended

HandlePasscodeChange ==
    /\ Shown
    /\ passcode' \in Codes
    /\ UNCHANGED <<stored, effect, tempPasscode, isSettingPasscode,
                   isVerifyingPasscode, saving, asked, attempts, leaving,
                   left>>

(* Confirm does nothing unless 6 digits are typed.                         *)
Confirmed == Shown /\ passcode # None

FirstEntry ==
    /\ Confirmed /\ isSettingPasscode /\ ~ isVerifyingPasscode
    /\ tempPasscode' = passcode
    /\ isVerifyingPasscode' = TRUE
    /\ passcode' = None
    /\ UNCHANGED <<stored, effect, isSettingPasscode, saving, asked, attempts,
                   leaving, left>>

(* The same passcode again: it is saved, and then the screen is replaced.  *)
(* Until then Confirm saves it again.                                      *)
SecondEntry ==
    /\ Confirmed /\ isSettingPasscode /\ isVerifyingPasscode
    /\ passcode = tempPasscode
    /\ saving < MaxAsked
    /\ \/ stored' = passcode /\ saving' = saving + 1
       \/ UNCHANGED <<stored, saving>>
    /\ UNCHANGED <<effect, fields, asked, attempts, leaving, left>>

Saved ==
    /\ saving > 0
    /\ saving' = saving - 1
    /\ left' = TRUE
    /\ UNCHANGED <<stored, effect, fields, asked, attempts, leaving>>

Mismatch ==
    /\ Confirmed /\ isSettingPasscode /\ isVerifyingPasscode
    /\ passcode # tempPasscode
    /\ isVerifyingPasscode' = FALSE
    /\ passcode' = None /\ tempPasscode' = None
    /\ UNCHANGED <<stored, effect, isSettingPasscode, saving, asked, attempts,
                   leaving, left>>

HandleVerifyPasscode ==
    /\ Confirmed /\ ~ isSettingPasscode
    /\ Len(asked) + leaving < MaxAsked /\ wrong + Len(asked) < MaxWrong
    /\ timers + Len(asked) < MaxTimers
    /\ \/ asked' = Append(asked, [passcode |-> passcode,
                                  retryCount |-> retryCount,
                                  answer |-> stored])
       \/ UNCHANGED asked
    /\ UNCHANGED <<stored, effect, fields, saving, attempts, leaving, left>>

(* A right verification reads the phrase and imports its wallet, which is  *)
(* WalletSession's; until then the screen can be used.                     *)
Right ==
    /\ asked # <<>>
    /\ Head(asked).passcode = Head(asked).answer
    /\ asked' = Tail(asked)
    /\ leaving' = leaving + 1
    /\ UNCHANGED <<stored, effect, fields, saving, attempts, left>>

(* Then the screen is replaced, or stays where a call was rejected.        *)
Leave ==
    /\ leaving > 0
    /\ leaving' = leaving - 1
    /\ left' \in {left, TRUE}
    /\ UNCHANGED <<stored, effect, fields, saving, asked, attempts>>

(* The count is of the render of the tap; the third wrong attempt suspends *)
(* the screen and sets a timeout.                                          *)
Wrong ==
    /\ asked # <<>>
    /\ LET verification == Head(asked)
       IN  /\ verification.passcode # verification.answer
           /\ retryCount' = verification.retryCount + 1
           /\ IF verification.retryCount >= 2
              THEN isSuspended' = TRUE /\ timers' = timers + 1
              ELSE UNCHANGED <<isSuspended, timers>>
    /\ wrong' = wrong + 1
    /\ asked' = Tail(asked)
    /\ passcode' = None
    /\ UNCHANGED <<stored, effect, tempPasscode, isSettingPasscode,
                   isVerifyingPasscode, saving, leaving, left>>

\* Mutation: the timeout leaves the count.
TimeoutKeepingCount ==
    /\ timers > 0
    /\ isSuspended => asked = <<>>
    /\ timers' = timers - 1
    /\ isSuspended' = FALSE
    /\ wrong' = IF isSuspended THEN 0 ELSE wrong
    /\ UNCHANGED <<stored, effect, fields, saving, asked, retryCount, leaving,
                   left>>

\* Mutation: the timeout only resets the count.
TimeoutKeepingScreen ==
    /\ timers > 0
    /\ isSuspended => asked = <<>>
    /\ timers' = timers - 1
    /\ retryCount' = 0
    /\ UNCHANGED <<stored, effect, fields, saving, asked, isSuspended, wrong,
                   leaving, left>>

(* 120 seconds later.  What was asked before the suspension has been       *)
(* answered by then.                                                       *)
Timeout ==
    /\ timers > 0
    /\ isSuspended => asked = <<>>
    /\ timers' = timers - 1
    /\ retryCount' = 0
    /\ isSuspended' = FALSE
    /\ wrong' = IF isSuspended THEN 0 ELSE wrong
    /\ UNCHANGED <<stored, effect, fields, saving, asked, leaving, left>>

Device ==
    DeletePasscode \/ DeleteMnemonics \/ GetPasscode \/ Saved \/ Right \/ Leave
    \/ Wrong

PasscodeNext ==
    \/ Device \/ Timeout
    \/ HandlePasscodeChange \/ FirstEntry \/ SecondEntry \/ Mismatch
    \/ HandleVerifyPasscode

PasscodeSpec == PasscodeInit /\ [][PasscodeNext]_passcodeVars

(* The Keychain answers and timeouts come.                                 *)
PasscodeFairSpec ==
    PasscodeSpec /\ WF_passcodeVars(Device) /\ WF_passcodeVars(Timeout)

-----------------------------------------------------------------------------
(* A screen is not suspended before three wrong attempts since it was      *)
(* last usable, whatever attempts overlap and whichever timeouts are left  *)
(* of an earlier suspension.                                               *)
SuspendedAfterThree == isSuspended => wrong >= 3

(* A suspended screen has a timeout that will lift its suspension, and no  *)
(* attempt is ever counted as one beyond the third of line 72: neither the *)
(* screen, while it is usable, nor a verification that is out has a count  *)
(* above two, stale as it may be.                                          *)
SuspensionIsTimed ==
    /\ isSuspended => timers > 0
    /\ ~ isSuspended => retryCount <= 2
    /\ \A i \in DOMAIN asked : asked[i].retryCount <= 2

(* "Try again in 2 minutes" (line 113): every suspension ends.             *)
SuspensionEnds == isSuspended ~> ~ isSuspended

(* "Attempt ... out of 3" (line 72): at most three wrong attempts are      *)
(* answered before the screen is suspended.                                *)
ThreeAttempts == wrong > 3 => isSuspended

=============================================================================

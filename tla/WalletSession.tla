---------------------------- MODULE WalletSession ----------------------------
(***************************************************************************)
(* How a wallet comes into the app and stays in it: createWallets and      *)
(* importWallets of WalletContext.tsx over BlockchainFetcher.createWallets *)
(* and SecretsManager, and the screens that call them, on the stack of     *)
(* Navigation.tsx.                                                         *)
(*                                                                         *)
(* No screen disables its button while its handler runs, so handlers       *)
(* overlap; each is a task that runs from one await to the next.  The      *)
(* Keychain (external) executes its calls in the order they are made and   *)
(* answers in that order.  A call takes effect here when it is made: only  *)
(* later calls can tell, and a call that a restart loses leaves no trace   *)
(* in the memory the restart erases.                                       *)
(*                                                                         *)
(* The stack is that of React Navigation 6 (external): replace and goBack  *)
(* act on the focused screen, also when a handler whose own screen is gone *)
(* calls them.  A wallet is named by the phrase all its keys derive from.  *)
(***************************************************************************)
EXTENDS Naturals, Sequences

CONSTANTS
    Phrases,      \* recovery phrases
    Generated,    \* the phrase generateMnemonics returns, always the same
    Code,         \* the passcode the user sets
    None,         \* null, or a wallet that is not set
    Tasks,        \* bound: handlers that run at the same time
    MaxDepth,     \* bound on the screens of the stack
    MaxFaults,    \* bound on the Keychain calls that are rejected
    MaxRestarts   \* bound on the restarts

ASSUME SessionAssumption ==
    /\ Generated \in Phrases /\ Code \notin Phrases
    /\ None \notin Phrases \cup {Code} \cup Tasks
    /\ MaxDepth \in Nat /\ MaxFaults \in Nat /\ MaxRestarts \in Nat

VARIABLES
    keychain,       \* the secrets
    wallets,        \* ethereumWallet, veChainWallet, solanaWallet
    chainToWallet,  \* the wallets getHistory and signTransaction look in
    stack,          \* the screens, the focused one last
    task,           \* the handlers that are running
    waiting,        \* the tasks that wait for the Keychain, in its order
    faults,         \* Keychain calls rejected so far
    restarts,       \* restarts so far
    torn,           \* history: a fault or a restart cut a task short
    overtaken       \* history: the wallets are those of an import that was
                    \* registering while another task wrote its secrets

sessionVars == <<keychain, wallets, chainToWallet, stack, task, waiting,
                 faults, restarts, torn, overtaken>>

Optional == Phrases \cup {None}

Keychain == [userPasscode: {Code, None}, mnemonics: Optional,
             seed: Optional, solanaSeed: Optional]

(* check is the task of the effect of a Passcode screen, setting its       *)
(* isSettingPasscode; read is what the effect of a Mnemonics screen was    *)
(* answered last, words what is on it.                                     *)
Screen ==
    [name: {"Initial", "ImportWallet", "MnemonicsConfirmation",
            "WalletDashboard", "WalletSettings"}]
    \cup [name: {"Passcode"}, check: Tasks \cup {None}, setting: BOOLEAN]
    \cup [name: {"Mnemonics"}, previousScreen: {"Initial", "settings"},
          read: Optional, words: Optional]

(* The awaits of a task: calls of the Keychain, and the request of         *)
(* registerWallet.                                                         *)
Sets == {"seed", "solanaSeed", "mnemonics"}
KeychainCalls == Sets \cup {"setUserPasscode", "deleteUserPasscode",
    "deleteMnemonics", "getUserPasscode", "getMnemonics"}

Kinds == {"check", "setPasscode", "verify", "create", "import"}

Task ==
    [kind: {"none"}]
    \cup [kind: Kinds,
          at: KeychainCalls \cup {"register"}, phrase: Optional,
          ok: BOOLEAN, answer: Optional \cup {Code}]

Running(t) == task[t].kind # "none"
Idle == [kind |-> "none"]

(* t is storing the secrets of a wallet, or has yet to set the wallet.     *)
Writing(t) == Running(t) /\ task[t].at \in Sets \cup {"register"}

SessionTypeOK ==
    /\ keychain \in Keychain
    /\ wallets \in Optional /\ chainToWallet \in Optional
    /\ stack \in Seq(Screen) /\ stack # <<>>
    /\ task \in [Tasks -> Task]
    /\ waiting \in Seq(Tasks)
    /\ faults \in 0 .. MaxFaults /\ restarts \in 0 .. MaxRestarts
    /\ torn \in BOOLEAN /\ overtaken \in BOOLEAN

-----------------------------------------------------------------------------
(* The Keychain.                                                           *)

\* Mutation: a Solana key that is stored already is kept.
AfterKeepingKey(call, phrase) ==
    [keychain EXCEPT
        !.seed = IF call = "seed" THEN phrase ELSE @,
        !.solanaSeed = IF call = "solanaSeed" /\ @ = None THEN phrase ELSE @,
        !.mnemonics = CASE call = "mnemonics" -> phrase
                        [] call = "deleteMnemonics" -> None
                        [] OTHER -> @,
        !.userPasscode = CASE call = "setUserPasscode" -> Code
                           [] call = "deleteUserPasscode" -> None
                           [] OTHER -> @]

\* Mutation: a phrase that is stored already is kept.
AfterKeepingPhrase(call, phrase) ==
    [keychain EXCEPT
        !.seed = IF call = "seed" THEN phrase ELSE @,
        !.solanaSeed = IF call = "solanaSeed" THEN phrase ELSE @,
        !.mnemonics = CASE call = "mnemonics" /\ @ = None -> phrase
                        [] call = "deleteMnemonics" -> None
                        [] OTHER -> @,
        !.userPasscode = CASE call = "setUserPasscode" -> Code
                           [] call = "deleteUserPasscode" -> None
                           [] OTHER -> @]

(* The secrets after a call.                                               *)
After(call, phrase) ==
    [keychain EXCEPT
        !.seed = IF call = "seed" THEN phrase ELSE @,
        !.solanaSeed = IF call = "solanaSeed" THEN phrase ELSE @,
        !.mnemonics = CASE call = "mnemonics" -> phrase
                        [] call = "deleteMnemonics" -> None
                        [] OTHER -> @,
        !.userPasscode = CASE call = "setUserPasscode" -> Code
                           [] call = "deleteUserPasscode" -> None
                           [] OTHER -> @]

Answer(call) ==
    CASE call = "getUserPasscode" -> keychain.userPasscode
      [] call = "getMnemonics" -> keychain.mnemonics
      [] OTHER -> None

(* With the tasks that are running, task t makes a call, and waits for the *)
(* answer behind those in queue.                                           *)
Call(tasks, t, queue, kind, call, phrase) ==
    /\ waiting' = Append(queue, t)
    /\ \E ok \in {b \in BOOLEAN : b \/ faults < MaxFaults} :
          /\ keychain' = IF ok THEN After(call, phrase) ELSE keychain
          /\ task' = [tasks EXCEPT ![t] =
                [kind |-> kind, at |-> call, phrase |-> phrase, ok |-> ok,
                 answer |-> IF ok THEN Answer(call) ELSE None]]
          /\ faults' = IF ok THEN faults ELSE faults + 1

Await(t, queue, kind, call, phrase) ==
    Call(task, t, queue, kind, call, phrase)

(* It is answered at t's await, and goes on.                               *)
Answered(t, call) ==
    /\ Running(t) /\ task[t].at = call /\ task[t].ok
    /\ waiting # <<>> /\ Head(waiting) = t

(* The rejection leaves the handler: nothing catches it.                   *)
Rejected(t) ==
    /\ Running(t) /\ ~ task[t].ok
    /\ waiting # <<>> /\ Head(waiting) = t
    /\ waiting' = Tail(waiting)
    /\ task' = [task EXCEPT ![t] = Idle]
    /\ torn' = (torn \/ Writing(t))
    /\ UNCHANGED <<keychain, wallets, chainToWallet, stack, faults,
                   restarts, overtaken>>

Ends(t) ==
    /\ waiting' = Tail(waiting)
    /\ task' = [task EXCEPT ![t] = Idle]
    /\ UNCHANGED <<keychain, faults>>

-----------------------------------------------------------------------------
(* The stack.                                                              *)
Focused == stack[Len(stack)]
OnTop(name) == Focused.name = name

Plain(name) == [name |-> name]

Replace(screen) == stack' = [stack EXCEPT ![Len(stack)] = screen]

(* navigate goes back to the last screen of that name, or pushes one.      *)
Navigate(screen) ==
    LET same == {i \in DOMAIN stack : stack[i].name = screen.name}
    IN  IF same = {}
        THEN /\ Len(stack) < MaxDepth
             /\ stack' = Append(stack, screen)
        ELSE \E i \in same :
                /\ \A j \in same : j <= i
                /\ stack' = SubSeq(stack, 1, i)

(* goBack and pop, which do nothing on the last screen.                    *)
Pop ==
    /\ Len(stack) > 1
    /\ stack' = SubSeq(stack, 1, Len(stack) - 1)

(* A Passcode screen comes up, and its effect is task t: it deletes the    *)
(* passcode and the phrase, then asks whether there is a passcode.         *)
PasscodeScreen(t) == [name |-> "Passcode", check |-> t, setting |-> FALSE]

Check(t, queue) == Await(t, queue, "check", "deleteUserPasscode", None)

(* The effect reads the phrase when the screen comes up.                   *)
MnemonicsScreen(previousScreen, mnemonics) ==
    [name |-> "Mnemonics", previousScreen |-> previousScreen,
     read |-> mnemonics, words |-> None]

SessionInit ==
    \E t \in Tasks :
        /\ keychain = [s \in {"userPasscode", "mnemonics", "seed",
                              "solanaSeed"} |-> None]
        /\ wallets = None /\ chainToWallet = None
        /\ stack = <<PasscodeScreen(t)>>
        /\ task = [u \in Tasks |-> IF u = t
              THEN [kind |-> "check", at |-> "deleteUserPasscode",
                    phrase |-> None, ok |-> TRUE, answer |-> None]
              ELSE Idle]
        /\ waiting = <<t>>
        /\ faults = 0 /\ restarts = 0
        /\ torn = FALSE /\ overtaken = FALSE

-----------------------------------------------------------------------------
(* The Passcode screen.  Its retries are in PasscodeScreen.               *)

CheckDeletes(t) ==
    /\ Answered(t, "deleteUserPasscode")
    /\ Await(t, Tail(waiting), "check", "deleteMnemonics", None)
    /\ UNCHANGED <<wallets, chainToWallet, stack, restarts, torn, overtaken>>

CheckAsks(t) ==
    /\ Answered(t, "deleteMnemonics")
    /\ Await(t, Tail(waiting), "check", "getUserPasscode", None)
    /\ UNCHANGED <<wallets, chainToWallet, stack, restarts, torn, overtaken>>

\* Mutation: isSettingPasscode is set to the answer, not to its negation.
CheckEndsRaw(t) ==
    /\ task[t].kind = "check"
    /\ Answered(t, "getUserPasscode")
    /\ IF OnTop("Passcode") /\ Focused.check = t
       THEN Replace([Focused EXCEPT !.check = None,
                                    !.setting = task[t].answer])
       ELSE UNCHANGED stack
    /\ Ends(t)
    /\ UNCHANGED <<wallets, chainToWallet, restarts, torn, overtaken>>

(* setIsSettingPasscode, of a screen that may be gone.                     *)
CheckEnds(t) ==
    /\ task[t].kind = "check"
    /\ Answered(t, "getUserPasscode")
    /\ IF OnTop("Passcode") /\ Focused.check = t
       THEN Replace([Focused EXCEPT !.check = None,
                                    !.setting = task[t].answer = None])
       ELSE UNCHANGED stack
    /\ Ends(t)
    /\ UNCHANGED <<wallets, chainToWallet, restarts, torn, overtaken>>

(* The user has entered the same passcode twice.                           *)
HandleSetPasscode(t) ==
    /\ ~ Running(t)
    /\ OnTop("Passcode") /\ Focused.setting
    /\ Await(t, waiting, "setPasscode", "setUserPasscode", None)
    /\ UNCHANGED <<wallets, chainToWallet, stack, restarts, torn, overtaken>>

PasscodeSet(t) ==
    /\ Answered(t, "setUserPasscode")
    /\ Replace(Plain("Initial"))
    /\ Ends(t)
    /\ UNCHANGED <<wallets, chainToWallet, restarts, torn, overtaken>>

(* isSettingPasscode is false until the effect is answered.                *)
HandleVerifyPasscode(t) ==
    /\ ~ Running(t)
    /\ OnTop("Passcode") /\ ~ Focused.setting
    /\ Await(t, waiting, "verify", "getUserPasscode", None)
    /\ UNCHANGED <<wallets, chainToWallet, stack, restarts, torn, overtaken>>

PasscodeRight(t) ==
    /\ task[t].kind = "verify"
    /\ Answered(t, "getUserPasscode")
    /\ task[t].answer = Code
    /\ Await(t, Tail(waiting), "verify", "getMnemonics", None)
    /\ UNCHANGED <<wallets, chainToWallet, stack, restarts, torn, overtaken>>

PasscodeWrong(t) ==
    /\ task[t].kind = "verify"
    /\ Answered(t, "getUserPasscode")
    /\ Ends(t)
    /\ UNCHANGED <<wallets, chainToWallet, stack, restarts, torn, overtaken>>

NoMnemonics(t) ==
    /\ Answered(t, "getMnemonics") /\ task[t].answer = None
    /\ Replace(Plain("Initial"))
    /\ Ends(t)
    /\ UNCHANGED <<wallets, chainToWallet, restarts, torn, overtaken>>

(* importWallets(mnemonics): from here on the task is an import.           *)
ImportStored(t) ==
    /\ task[t].kind = "verify"
    /\ Answered(t, "getMnemonics") /\ task[t].answer \in Phrases
    /\ Await(t, Tail(waiting), "verify", "seed", task[t].answer)
    /\ UNCHANGED <<wallets, chainToWallet, stack, restarts, torn, overtaken>>

-----------------------------------------------------------------------------
(* createWallets and importWallets.                                        *)

\* Mutation: handleCreateWallet does not await createWallets.
HandleCreateWalletUnawaited(t) ==
    /\ ~ Running(t)
    /\ OnTop("Initial")
    /\ Replace(MnemonicsScreen("Initial", keychain.mnemonics))
    /\ Await(t, waiting, "create", "seed", Generated)
    /\ UNCHANGED <<wallets, chainToWallet, restarts, torn, overtaken>>

HandleCreateWallet(t) ==
    /\ ~ Running(t)
    /\ OnTop("Initial")
    /\ Await(t, waiting, "create", "seed", Generated)
    /\ UNCHANGED <<wallets, chainToWallet, stack, restarts, torn, overtaken>>

HandleImportWallet ==
    /\ OnTop("Initial")
    /\ Navigate(Plain("ImportWallet"))
    /\ UNCHANGED <<keychain, wallets, chainToWallet, task, waiting, faults,
                   restarts, torn, overtaken>>

(* Any phrase the user typed: nothing checks it.                           *)
ImportAndStoreWallets(t) ==
    /\ ~ Running(t)
    /\ OnTop("ImportWallet")
    /\ \E phrase \in Phrases : Await(t, waiting, "import", "seed", phrase)
    /\ UNCHANGED <<wallets, chainToWallet, stack, restarts, torn, overtaken>>

(* BlockchainFetcher.createWallets stores the key of Solana.               *)
SeedSet(t) ==
    /\ Answered(t, "seed")
    /\ Await(t, Tail(waiting), task[t].kind, "solanaSeed", task[t].phrase)
    /\ UNCHANGED <<wallets, chainToWallet, stack, restarts, torn, overtaken>>

SolanaSeedSet(t) ==
    /\ Answered(t, "solanaSeed")
    /\ Await(t, Tail(waiting), task[t].kind, "mnemonics", task[t].phrase)
    /\ UNCHANGED <<wallets, chainToWallet, stack, restarts, torn, overtaken>>

\* Mutation: createWallets keeps a wallet the context has.
CreateEndsOnce(t) ==
    /\ task[t].kind = "create"
    /\ Answered(t, "mnemonics")
    /\ wallets' = IF wallets = None THEN task[t].phrase ELSE wallets
    /\ chainToWallet' = task[t].phrase
    /\ Replace(MnemonicsScreen("Initial", keychain.mnemonics))
    /\ Ends(t)
    /\ overtaken' = FALSE
    /\ UNCHANGED <<restarts, torn>>

(* createWallets does not wait for registerWallet.                         *)
CreateEnds(t) ==
    /\ task[t].kind = "create"
    /\ Answered(t, "mnemonics")
    /\ wallets' = task[t].phrase
    /\ chainToWallet' = task[t].phrase
    /\ Replace(MnemonicsScreen("Initial", keychain.mnemonics))
    /\ Ends(t)
    /\ overtaken' = FALSE
    /\ UNCHANGED <<restarts, torn>>

(* importWallets waits for it.                                             *)
ImportRegisters(t) ==
    /\ task[t].kind \in {"import", "verify"}
    /\ Answered(t, "mnemonics")
    /\ task' = [task EXCEPT ![t].at = "register"]
    /\ waiting' = Tail(waiting)
    /\ UNCHANGED <<keychain, wallets, chainToWallet, stack, faults,
                   restarts, torn, overtaken>>

(* Whatever the server answered, or the error, registerWallet returns.     *)
Registered(t) ==
    /\ Running(t) /\ task[t].at = "register"
    /\ wallets' = task[t].phrase
    /\ overtaken' = (keychain.seed # task[t].phrase)
    /\ UNCHANGED <<chainToWallet, restarts, torn>>

ImportEnds(t) ==
    /\ Registered(t)
    /\ task[t].kind = "import"
    /\ Replace(PasscodeScreen(t))
    /\ Check(t, waiting)

VerifyEnds(t) ==
    /\ Registered(t)
    /\ task[t].kind = "verify"
    /\ Replace(Plain("WalletDashboard"))
    /\ task' = [task EXCEPT ![t] = Idle]
    /\ UNCHANGED <<keychain, waiting, faults>>

-----------------------------------------------------------------------------
(* The Mnemonics, MnemonicsConfirmation and WalletSettings screens.        *)

(* The effect of Mnemonics sets the words, an array that is new each time, *)
(* so the effect runs again: it reads the phrase for as long as the screen *)
(* is up, until it finds none and throws.                                  *)
Words ==
    /\ OnTop("Mnemonics") /\ Focused.read # None
    /\ Replace([Focused EXCEPT !.words = Focused.read,
                         !.read = keychain.mnemonics])
    /\ UNCHANGED <<keychain, wallets, chainToWallet, task, waiting, faults,
                   restarts, torn, overtaken>>

HandleMnemonicsNavigation ==
    /\ OnTop("Mnemonics")
    /\ IF Focused.previousScreen = "Initial"
       THEN Replace(Plain("MnemonicsConfirmation"))
       ELSE Pop
    /\ UNCHANGED <<keychain, wallets, chainToWallet, task, waiting, faults,
                   restarts, torn, overtaken>>

(* Whatever words were selected: the comparison is commented out.          *)
HandleContinue ==
    /\ OnTop("MnemonicsConfirmation")
    /\ Replace(Plain("WalletDashboard"))
    /\ UNCHANGED <<keychain, wallets, chainToWallet, task, waiting, faults,
                   restarts, torn, overtaken>>

OpenSettings ==
    /\ OnTop("WalletDashboard")
    /\ Navigate(Plain("WalletSettings"))
    /\ UNCHANGED <<keychain, wallets, chainToWallet, task, waiting, faults,
                   restarts, torn, overtaken>>

HandleBackup ==
    /\ OnTop("WalletSettings")
    /\ Navigate(MnemonicsScreen("settings", keychain.mnemonics))
    /\ UNCHANGED <<keychain, wallets, chainToWallet, task, waiting, faults,
                   restarts, torn, overtaken>>

(* goBack, from a button of the screen, the gesture or Android.            *)
GoBack ==
    /\ Pop
    /\ UNCHANGED <<keychain, wallets, chainToWallet, task, waiting, faults,
                   restarts, torn, overtaken>>

(* The app is killed and started again: only the Keychain is left.         *)
Restart(t) ==
    /\ restarts < MaxRestarts
    /\ restarts' = restarts + 1
    /\ wallets' = None /\ chainToWallet' = None
    /\ stack' = <<PasscodeScreen(t)>>
    /\ torn' = (torn \/ \E u \in Tasks : Writing(u))
    /\ overtaken' = FALSE
    /\ Call([u \in Tasks |-> Idle], t, <<>>, "check", "deleteUserPasscode",
            None)

Answers(t) ==
    \/ CheckDeletes(t) \/ CheckAsks(t) \/ CheckEnds(t) \/ PasscodeSet(t)
    \/ PasscodeRight(t) \/ PasscodeWrong(t) \/ NoMnemonics(t)
    \/ ImportStored(t) \/ SeedSet(t) \/ SolanaSeedSet(t) \/ CreateEnds(t)
    \/ ImportRegisters(t) \/ ImportEnds(t) \/ VerifyEnds(t) \/ Rejected(t)

User ==
    \/ \E t \in Tasks : \/ HandleSetPasscode(t) \/ HandleVerifyPasscode(t)
                        \/ HandleCreateWallet(t) \/ ImportAndStoreWallets(t)
    \/ HandleImportWallet \/ HandleMnemonicsNavigation \/ HandleContinue
    \/ OpenSettings \/ HandleBackup \/ GoBack

SessionNext ==
    \/ \E t \in Tasks : Answers(t) \/ Restart(t)
    \/ Words
    \/ User

SessionSpec == SessionInit /\ [][SessionNext]_sessionVars

-----------------------------------------------------------------------------
(* The three secrets are of one phrase whenever nobody is writing them     *)
(* (SetSecret calls of overlapping createWallets and importWallets keep    *)
(* their order, so the last task to begin wins all three), unless a        *)
(* rejected call or a restart cut a task between two of them.  The phrase  *)
(* alone may also be gone: every Passcode screen deletes it.               *)
SecretsOfOnePhrase ==
    ~ torn /\ (\A t \in Tasks : Running(t) => task[t].at \notin Sets) =>
       /\ keychain.seed = keychain.solanaSeed
       /\ keychain.mnemonics \in {keychain.seed, None}

(* The screens of a wallet only come up once the context has one, and the  *)
(* chainToWallet their handlers look in too, unless a rejected call let a  *)
(* Passcode screen verify an old passcode: importWallets does not set      *)
(* chainToWallet.                                                          *)
WalletScreensHaveWallet ==
    \A i \in DOMAIN stack :
        stack[i].name \in {"Mnemonics", "MnemonicsConfirmation",
                          "WalletDashboard", "WalletSettings"} =>
           /\ wallets # None
           /\ chainToWallet = None => faults > 0

(* Nobody is setting a wallet, and the last one set is not that of an      *)
(* import answered after another task had stored its secrets.              *)
Settled ==
    ~ torn /\ ~ overtaken /\ \A t \in Tasks : ~ Writing(t)

(* Settled, the wallet the screens show is the one whose Solana key is     *)
(* stored for signTransaction.                                             *)
WalletOfStoredKey ==
    Settled /\ wallets # None => wallets = keychain.solanaSeed

(* Settled, the phrase that Mnemonics has the user write down is that of   *)
(* the wallet.                                                             *)
ShownPhraseIsWallet ==
    Settled /\ OnTop("Mnemonics") /\ Focused.words # None =>
       Focused.words = wallets

(* The calls a handler of that kind waits for, one after the other.        *)
CallsOf(kind) ==
    CASE kind = "check" ->
             {"deleteUserPasscode", "deleteMnemonics", "getUserPasscode"}
      [] kind = "setPasscode" -> {"setUserPasscode"}
      [] kind = "verify" ->
             {"getUserPasscode", "getMnemonics", "register"} \cup Sets
      [] kind = "create" -> Sets
      [] kind = "import" -> Sets \cup {"register"}

(* However handlers overlap and whatever a restart throws away, each that  *)
(* runs waits for a call its code goes on from, is in the Keychain's queue *)
(* once unless it waits for the server, and nobody else is in the queue:   *)
(* no answer reaches a handler that is gone, none is left without one.     *)
NoHandlerIsForgotten ==
    /\ \A t \in Tasks : Running(t) =>
          /\ task[t].at \in CallsOf(task[t].kind)
          /\ task[t].at = "getMnemonics" => task[t].answer \in Optional
          /\ task[t].at # "register" => \E i \in DOMAIN waiting : waiting[i] = t
    /\ \A i \in DOMAIN waiting :
          /\ Running(waiting[i]) /\ task[waiting[i]].at # "register"
          /\ \A j \in DOMAIN waiting : waiting[i] = waiting[j] => i = j
=============================================================================

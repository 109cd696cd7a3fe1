------------------------- MODULE WalletSession_proofs -------------------------
(* Proofs about WalletSession, for any phrases, tasks and bounds.          *)
EXTENDS WalletSession, TLAPS

(* A task that stores the secrets of a wallet has its phrase.              *)
WritersHavePhrase ==
    \A t \in Tasks : Writing(t) => task[t].phrase \in Phrases

(* Nothing is pushed on a Passcode screen, and it only sets a passcode     *)
(* once its effect has ended.                                              *)
PasscodeOnTop ==
    /\ \A i \in DOMAIN stack : i < Len(stack) => stack[i].name # "Passcode"
    /\ OnTop("Passcode") /\ Focused.setting => Focused.check = None

(* Without a fault no Passcode screen finds a passcode to verify.          *)
NothingToVerify ==
    faults = 0 =>
       /\ OnTop("Passcode") /\ ~ Focused.setting =>
             keychain.userPasscode = None
       /\ \A t \in Tasks : task[t].kind = "verify" =>
             task[t].at = "getUserPasscode" /\ task[t].answer = None

SessionInv ==
    /\ SessionTypeOK
    /\ WritersHavePhrase
    /\ PasscodeOnTop
    /\ NothingToVerify
    /\ WalletScreensHaveWallet

-----------------------------------------------------------------------------
(* Calls of the Keychain.                                                  *)

LEMMA AfterType ==
    ASSUME keychain \in Keychain, NEW call \in KeychainCalls,
           NEW phrase \in Optional
    PROVE  /\ After(call, phrase) \in Keychain
           /\ After(call, phrase).userPasscode =
                 CASE call = "setUserPasscode" -> Code
                   [] call = "deleteUserPasscode" -> None
                   [] OTHER -> keychain.userPasscode
<1>1. /\ keychain.userPasscode \in {Code, None}
      /\ keychain.mnemonics \in Optional
      /\ keychain.seed \in Optional /\ keychain.solanaSeed \in Optional
  BY DEF Keychain
<1> DEFINE code == CASE call = "setUserPasscode" -> Code
                     [] call = "deleteUserPasscode" -> None
                     [] OTHER -> keychain.userPasscode
           mnemonics == CASE call = "mnemonics" -> phrase
                          [] call = "deleteMnemonics" -> None
                          [] OTHER -> keychain.mnemonics
           seed == IF call = "seed" THEN phrase ELSE keychain.seed
           solana == IF call = "solanaSeed" THEN phrase
                     ELSE keychain.solanaSeed
<1>2. code \in {Code, None}
  BY <1>1
<1>3. mnemonics \in Optional
  BY <1>1 DEF Optional
<1>4. seed \in Optional /\ solana \in Optional
  BY <1>1
<1>5. After(call, phrase) =
        [keychain EXCEPT !.seed = seed, !.solanaSeed = solana,
                         !.mnemonics = mnemonics, !.userPasscode = code]
  BY DEF After
<1> HIDE DEF code, mnemonics, seed, solana
<1>6. After(call, phrase) = [userPasscode |-> code, mnemonics |-> mnemonics,
                             seed |-> seed, solanaSeed |-> solana]
  BY <1>5 DEF Keychain
<1>7. /\ After(call, phrase) \in Keychain
      /\ After(call, phrase).userPasscode = code
  BY <1>2, <1>3, <1>4, <1>6 DEF Keychain
<1>8. QED
  BY <1>7 DEF code

(* What a call changes and what it leaves.                                 *)
LEMMA CallFacts ==
    ASSUME SessionTypeOK, NEW tasks \in [Tasks -> Task], NEW t \in Tasks,
           NEW queue \in Seq(Tasks), NEW kind \in Kinds,
           NEW call \in KeychainCalls, NEW phrase \in Optional,
           Call(tasks, t, queue, kind, call, phrase)
    PROVE  /\ keychain' \in Keychain /\ task' \in [Tasks -> Task]
           /\ waiting' \in Seq(Tasks) /\ faults' \in 0 .. MaxFaults
           /\ \A u \in Tasks : u # t => task'[u] = tasks[u]
           /\ task'[t].kind = kind /\ task'[t].at = call
           /\ task'[t].phrase = phrase
           /\ faults' = 0 => faults = 0
           /\ call \notin {"setUserPasscode", "deleteUserPasscode"} =>
                 keychain'.userPasscode = keychain.userPasscode
           /\ faults' = 0 /\ call = "deleteUserPasscode" =>
                 keychain'.userPasscode = None
           /\ faults' = 0 /\ call = "getUserPasscode" =>
                 task'[t].answer = keychain.userPasscode
<1>1. keychain \in Keychain /\ faults \in 0 .. MaxFaults /\ MaxFaults \in Nat
  BY SessionAssumption DEF SessionTypeOK
<1>2. PICK ok \in {b \in BOOLEAN : b \/ faults < MaxFaults} :
        /\ keychain' = IF ok THEN After(call, phrase) ELSE keychain
        /\ task' = [tasks EXCEPT ![t] =
              [kind |-> kind, at |-> call, phrase |-> phrase, ok |-> ok,
               answer |-> IF ok THEN Answer(call) ELSE None]]
        /\ faults' = IF ok THEN faults ELSE faults + 1
  BY DEF Call
<1> DEFINE answer == IF ok THEN Answer(call) ELSE None
           new == [kind |-> kind, at |-> call, phrase |-> phrase, ok |-> ok,
                   answer |-> answer]
<1>3. answer \in Optional \cup {Code}
  <2>1. Answer(call) \in Optional \cup {Code}
    BY <1>1 DEF Answer, Keychain, Optional
  <2>2. QED
    BY <2>1 DEF Optional
<1>4. new \in Task
  <2> HIDE DEF answer
  <2>1. ok \in BOOLEAN
    OBVIOUS
  <2>2. QED
    BY <1>3, <2>1 DEF Task
<1>5. /\ task' \in [Tasks -> Task] /\ task'[t] = new
      /\ \A u \in Tasks : u # t => task'[u] = tasks[u]
  BY <1>2, <1>4
<1>6. /\ task'[t].kind = kind /\ task'[t].at = call
      /\ task'[t].phrase = phrase /\ task'[t].answer = answer
  BY <1>5
<1>7. waiting' \in Seq(Tasks)
  BY DEF Call
<1>8. CASE ok
  <2>1. keychain' = After(call, phrase) /\ faults' = faults
    BY <1>2, <1>8
  <2>2. keychain' \in Keychain
    BY <1>1, <2>1, AfterType
  <2>3. keychain'.userPasscode = CASE call = "setUserPasscode" -> Code
                                   [] call = "deleteUserPasscode" -> None
                                   [] OTHER -> keychain.userPasscode
    BY <1>1, <2>1, AfterType
  <2>4. call = "getUserPasscode" => answer = keychain.userPasscode
    BY <1>8 DEF Answer
  <2>5. /\ call \notin {"setUserPasscode", "deleteUserPasscode"} =>
              keychain'.userPasscode = keychain.userPasscode
        /\ call = "deleteUserPasscode" => keychain'.userPasscode = None
    BY <2>3
  <2> HIDE DEF answer, new
  <2>6. QED
    BY <1>1, <1>5, <1>6, <1>7, <2>1, <2>2, <2>4, <2>5
<1>9. CASE ~ ok
  <2>1. keychain' = keychain /\ faults' = faults + 1 /\ faults < MaxFaults
    BY <1>2, <1>9
  <2> HIDE DEF answer, new
  <2>2. QED
    BY <1>1, <1>5, <1>6, <1>7, <2>1
<1>10. QED
  BY <1>8, <1>9

-----------------------------------------------------------------------------
(* Changes of the stack.                                                   *)

LEMMA ReplaceFacts ==
    ASSUME SessionTypeOK, NEW s \in Screen, Replace(s)
    PROVE  /\ stack' \in Seq(Screen) /\ stack' # <<>>
           /\ DOMAIN stack' = DOMAIN stack /\ Len(stack') = Len(stack)
           /\ stack'[Len(stack')] = s
           /\ \A i \in DOMAIN stack' : i < Len(stack) => stack'[i] = stack[i]
BY DEF SessionTypeOK, Replace

LEMMA PushFacts ==
    ASSUME SessionTypeOK, NEW s \in Screen, stack' = Append(stack, s)
    PROVE  /\ stack' \in Seq(Screen) /\ stack' # <<>>
           /\ Len(stack') = Len(stack) + 1
           /\ stack'[Len(stack')] = s
           /\ \A i \in DOMAIN stack' : i < Len(stack') =>
                 i \in DOMAIN stack /\ stack'[i] = stack[i]
BY DEF SessionTypeOK

LEMMA BackFacts ==
    ASSUME SessionTypeOK, NEW n \in 1 .. Len(stack),
           stack' = SubSeq(stack, 1, n)
    PROVE  /\ stack' \in Seq(Screen) /\ stack' # <<>>
           /\ Len(stack') = n
           /\ \A i \in DOMAIN stack' :
                 i \in DOMAIN stack /\ i <= n /\ stack'[i] = stack[i]
BY DEF SessionTypeOK

(* The screens the handlers bring up are screens.                          *)
LEMMA ScreenTypes ==
    /\ \A name \in {"Initial", "ImportWallet", "MnemonicsConfirmation",
                    "WalletDashboard", "WalletSettings"} :
          Plain(name) \in Screen /\ Plain(name).name = name
    /\ \A t \in Tasks : /\ PasscodeScreen(t) \in Screen
                        /\ PasscodeScreen(t).name = "Passcode"
                        /\ ~ PasscodeScreen(t).setting
    /\ \A from \in {"Initial", "settings"}, phrase \in Optional :
          /\ MnemonicsScreen(from, phrase) \in Screen
          /\ MnemonicsScreen(from, phrase).name = "Mnemonics"
BY DEF Plain, PasscodeScreen, MnemonicsScreen, Screen, Optional
-----------------------------------------------------------------------------
(* Steps that leave the inductive invariant true, by what they change.     *)

WalletScreens == {"Mnemonics", "MnemonicsConfirmation", "WalletDashboard",
                  "WalletSettings"}

LEMMA RunningFacts ==
    ASSUME SessionTypeOK, NEW t \in Tasks, Running(t)
    PROVE  /\ task[t].kind \in Kinds
           /\ task[t].phrase \in Optional
           /\ task[t].answer \in Optional \cup {Code}
           /\ waiting # <<>> => Tail(waiting) \in Seq(Tasks)
<1>1. task[t] \in Task /\ task[t].kind # "none" /\ waiting \in Seq(Tasks)
  BY DEF SessionTypeOK, Running
<1>2. QED
  BY <1>1 DEF Task

(* A task goes on with a call.                                             *)
LEMMA AwaitKeeps ==
    ASSUME SessionInv, NEW t \in Tasks, NEW queue \in Seq(Tasks),
           NEW kind \in Kinds, NEW call \in KeychainCalls,
           NEW phrase \in Optional,
           Await(t, queue, kind, call, phrase),
           UNCHANGED <<wallets, chainToWallet, stack, restarts, torn,
                       overtaken>>,
           call \in Sets => phrase \in Phrases,
           call # "deleteUserPasscode",
           call = "setUserPasscode" => OnTop("Passcode") /\ Focused.setting,
           kind = "verify" /\ faults = 0 =>
              call = "getUserPasscode" /\ keychain.userPasscode = None
    PROVE  SessionInv'
<1>1. SessionTypeOK
  BY DEF SessionInv
<1>2. task \in [Tasks -> Task] /\ faults \in Nat
  BY <1>1, SessionAssumption DEF SessionTypeOK
<1>3. /\ keychain' \in Keychain /\ task' \in [Tasks -> Task]
      /\ waiting' \in Seq(Tasks) /\ faults' \in 0 .. MaxFaults
      /\ \A u \in Tasks : u # t => task'[u] = task[u]
      /\ task'[t].kind = kind /\ task'[t].at = call
      /\ task'[t].phrase = phrase
      /\ faults' = 0 => faults = 0
      /\ call \notin {"setUserPasscode", "deleteUserPasscode"} =>
            keychain'.userPasscode = keychain.userPasscode
      /\ faults' = 0 /\ call = "getUserPasscode" =>
            task'[t].answer = keychain.userPasscode
  BY <1>1, <1>2, CallFacts DEF Await
<1>4. SessionTypeOK'
  BY <1>1, <1>3 DEF SessionTypeOK
<1>5. WritersHavePhrase'
  <2> SUFFICES ASSUME NEW u \in Tasks, Writing(u)'
               PROVE  task'[u].phrase \in Phrases
    BY DEF WritersHavePhrase
  <2>1. CASE u = t
    BY <1>3, <2>1 DEF Writing, KeychainCalls, Sets
  <2>2. CASE u # t
    BY <1>3, <2>2 DEF Writing, Running, SessionInv, WritersHavePhrase
  <2>3. QED
    BY <2>1, <2>2
<1>6. PasscodeOnTop'
  BY DEF SessionInv, PasscodeOnTop, OnTop, Focused
<1>7. NothingToVerify'
  <2> SUFFICES ASSUME faults' = 0
               PROVE  /\ OnTop("Passcode") /\ ~ Focused.setting =>
                            keychain'.userPasscode = None
                      /\ \A u \in Tasks : task'[u].kind = "verify" =>
                            /\ task'[u].at = "getUserPasscode"
                            /\ task'[u].answer = None
    BY DEF NothingToVerify, OnTop, Focused
  <2>1. faults = 0 /\ NothingToVerify
    BY <1>3 DEF SessionInv
  <2>2. OnTop("Passcode") /\ ~ Focused.setting =>
           keychain'.userPasscode = None
    BY <1>3, <2>1 DEF NothingToVerify
  <2>3. ASSUME NEW u \in Tasks, task'[u].kind = "verify"
        PROVE  task'[u].at = "getUserPasscode" /\ task'[u].answer = None
    <3>1. CASE u = t
      BY <1>3, <2>1, <2>3, <3>1
    <3>2. CASE u # t
      BY <1>3, <2>1, <2>3, <3>2 DEF NothingToVerify
    <3>3. QED
      BY <3>1, <3>2
  <2>4. QED
    BY <2>2, <2>3
<1>8. WalletScreensHaveWallet'
  <2>1. faults > 0 => faults' > 0
    BY <1>2, <1>3, SessionAssumption
  <2>2. QED
    BY <2>1 DEF SessionInv, WalletScreensHaveWallet
<1>9. QED
  BY <1>4, <1>5, <1>6, <1>7, <1>8 DEF SessionInv

(* The user navigates.                                                     *)
LEMMA StackKeeps ==
    ASSUME SessionInv, stack' \in Seq(Screen), stack' # <<>>,
           UNCHANGED <<keychain, wallets, chainToWallet, task, waiting, faults,
                       restarts, torn, overtaken>>,
           \A i \in DOMAIN stack' : stack'[i].name # "Passcode",
           \A i \in DOMAIN stack' : stack'[i].name \in WalletScreens =>
              wallets # None /\ (chainToWallet = None => faults > 0)
    PROVE  SessionInv'
<1>1. Len(stack') \in DOMAIN stack'
  OBVIOUS
<1>2. ~ OnTop("Passcode")'
  BY <1>1 DEF OnTop, Focused
<1>3. SessionTypeOK'
  BY DEF SessionInv, SessionTypeOK
<1>4. WritersHavePhrase'
  BY DEF SessionInv, WritersHavePhrase, Writing, Running
<1>5. PasscodeOnTop'
  BY <1>2 DEF PasscodeOnTop
<1>6. NothingToVerify'
  BY <1>2 DEF SessionInv, NothingToVerify
<1>7. WalletScreensHaveWallet'
  BY DEF WalletScreensHaveWallet, WalletScreens
<1>8. QED
  BY <1>3, <1>4, <1>5, <1>6, <1>7 DEF SessionInv

(* A task ends, and may bring up a screen that is not Passcode.            *)
LEMMA EndKeeps ==
    ASSUME SessionInv, NEW t \in Tasks,
           task' = [task EXCEPT ![t] = Idle], waiting' \in Seq(Tasks),
           UNCHANGED <<keychain, faults, restarts>>,
           torn' \in BOOLEAN, overtaken' \in BOOLEAN,
           wallets' \in Optional, chainToWallet' \in Optional,
           wallets # None => wallets' # None,
           chainToWallet' = None => chainToWallet = None,
           \/ UNCHANGED stack
           \/ \E s \in Screen :
                 /\ Replace(s) /\ s.name # "Passcode"
                 /\ s.name \in WalletScreens =>
                       wallets' # None /\ (chainToWallet' = None => faults > 0)
    PROVE  SessionInv'
<1>1. SessionTypeOK /\ task \in [Tasks -> Task]
  BY DEF SessionInv, SessionTypeOK
<1>2. Idle \in Task /\ Idle.kind = "none"
  BY DEF Idle, Task
<1>3. /\ task' \in [Tasks -> Task] /\ task'[t].kind = "none"
      /\ \A u \in Tasks : u # t => task'[u] = task[u]
  BY <1>1, <1>2
<1>4. WritersHavePhrase'
  <2> SUFFICES ASSUME NEW u \in Tasks, Writing(u)'
               PROVE  task'[u].phrase \in Phrases
    BY DEF WritersHavePhrase
  <2>1. u # t
    BY <1>3 DEF Writing, Running
  <2>2. QED
    BY <1>3, <2>1 DEF SessionInv, WritersHavePhrase, Writing, Running
<1>5. ASSUME NEW u \in Tasks, task'[u].kind = "verify", faults = 0
      PROVE  task'[u].at = "getUserPasscode" /\ task'[u].answer = None
  BY <1>3, <1>5 DEF SessionInv, NothingToVerify
<1>6. CASE UNCHANGED stack
  <2>1. SessionTypeOK'
    BY <1>1, <1>3, <1>6 DEF SessionTypeOK
  <2>2. PasscodeOnTop'
    BY <1>6 DEF SessionInv, PasscodeOnTop, OnTop, Focused
  <2>3. NothingToVerify'
    BY <1>5, <1>6 DEF SessionInv, NothingToVerify, OnTop, Focused
  <2>4. WalletScreensHaveWallet'
    BY <1>6 DEF SessionInv, WalletScreensHaveWallet
  <2>5. QED
    BY <1>4, <2>1, <2>2, <2>3, <2>4 DEF SessionInv
<1>7. CASE \E s \in Screen :
              /\ Replace(s) /\ s.name # "Passcode"
              /\ s.name \in WalletScreens =>
                    wallets' # None /\ (chainToWallet' = None => faults > 0)
  <2>1. PICK s \in Screen :
              /\ Replace(s) /\ s.name # "Passcode"
              /\ s.name \in WalletScreens =>
                    wallets' # None /\ (chainToWallet' = None => faults > 0)
    BY <1>7
  <2>2. /\ stack' \in Seq(Screen) /\ stack' # <<>>
        /\ DOMAIN stack' = DOMAIN stack /\ Len(stack') = Len(stack)
        /\ stack'[Len(stack')] = s
        /\ \A i \in DOMAIN stack' : i < Len(stack) => stack'[i] = stack[i]
    BY <1>1, <2>1, ReplaceFacts
  <2>3. ~ OnTop("Passcode")'
    BY <2>1, <2>2 DEF OnTop, Focused
  <2>4. SessionTypeOK'
    BY <1>1, <1>3, <2>2 DEF SessionTypeOK
  <2>5. PasscodeOnTop'
    BY <2>2, <2>3 DEF SessionInv, PasscodeOnTop
  <2>6. NothingToVerify'
    BY <1>5, <2>3 DEF NothingToVerify
  <2>7. WalletScreensHaveWallet'
    <3> SUFFICES ASSUME NEW i \in DOMAIN stack',
                        stack'[i].name \in WalletScreens
                 PROVE  wallets' # None /\ (chainToWallet' = None => faults > 0)
      BY DEF WalletScreensHaveWallet, WalletScreens
    <3>1. CASE i < Len(stack)
      BY <2>2, <3>1 DEF SessionInv, WalletScreensHaveWallet, WalletScreens
    <3>2. CASE i = Len(stack)
      BY <2>1, <2>2, <3>2
    <3>3. QED
      BY <2>2, <3>1, <3>2
  <2>8. QED
    BY <1>4, <2>4, <2>5, <2>6, <2>7 DEF SessionInv
<1>8. QED
  BY <1>6, <1>7

(* A Passcode screen comes up, on a stack of screens that are not.         *)
LEMMA CheckKeeps ==
    ASSUME SessionTypeOK', WritersHavePhrase',
           NEW t \in Tasks, NEW tasks \in [Tasks -> Task],
           stack'[Len(stack')] = PasscodeScreen(t),
           \A i \in DOMAIN stack' : i < Len(stack') =>
              stack'[i].name # "Passcode",
           faults' = 0 => /\ keychain'.userPasscode = None
                          /\ \A u \in Tasks : task'[u].kind = "verify" =>
                                /\ task'[u].at = "getUserPasscode"
                                /\ task'[u].answer = None,
           WalletScreensHaveWallet'
    PROVE  SessionInv'
<1>1. /\ PasscodeScreen(t).name = "Passcode" /\ ~ PasscodeScreen(t).setting
  BY DEF PasscodeScreen
<1>2. PasscodeOnTop'
  BY <1>1 DEF PasscodeOnTop, OnTop, Focused
<1>3. NothingToVerify'
  BY <1>1 DEF NothingToVerify, OnTop, Focused
<1>4. QED
  BY <1>2, <1>3 DEF SessionInv

-----------------------------------------------------------------------------
LEMMA InitInv == SessionInit => SessionInv
<1> SUFFICES ASSUME SessionInit  PROVE  SessionInv
  OBVIOUS
<1>1. PICK t \in Tasks :
        /\ stack = <<PasscodeScreen(t)>>
        /\ task = [u \in Tasks |-> IF u = t
              THEN [kind |-> "check", at |-> "deleteUserPasscode",
                    phrase |-> None, ok |-> TRUE, answer |-> None]
              ELSE Idle]
        /\ waiting = <<t>>
  BY DEF SessionInit
<1>2. /\ keychain = [s \in {"userPasscode", "mnemonics", "seed",
                            "solanaSeed"} |-> None]
      /\ wallets = None /\ chainToWallet = None
      /\ faults = 0 /\ restarts = 0 /\ torn = FALSE /\ overtaken = FALSE
  BY DEF SessionInit
<1>3. keychain \in Keychain /\ keychain.userPasscode = None
  BY <1>2 DEF Keychain, Optional
<1>4. /\ stack \in Seq(Screen) /\ stack # <<>> /\ Len(stack) = 1
      /\ stack[1] = PasscodeScreen(t)
  BY <1>1, ScreenTypes
<1>5. /\ PasscodeScreen(t).name = "Passcode" /\ ~ PasscodeScreen(t).setting
  BY DEF PasscodeScreen
<1> DEFINE first == [kind |-> "check", at |-> "deleteUserPasscode",
                     phrase |-> None, ok |-> TRUE, answer |-> None]
<1>6. first \in Task /\ Idle \in Task
  BY DEF Task, Kinds, KeychainCalls, Optional, Idle
<1>7. /\ task \in [Tasks -> Task] /\ waiting \in Seq(Tasks)
      /\ \A u \in Tasks : task[u] = first \/ task[u] = Idle
  BY <1>1, <1>6
<1>8. \A u \in Tasks : ~ Writing(u) /\ task[u].kind # "verify"
  BY <1>7 DEF Writing, Running, Idle, Sets
<1>9. SessionTypeOK
  <2>1. torn \in BOOLEAN /\ overtaken \in BOOLEAN
    BY <1>2, Zenon
  <2>2. wallets \in Optional /\ chainToWallet \in Optional
    BY <1>2 DEF Optional
  <2>3. faults \in 0 .. MaxFaults /\ restarts \in 0 .. MaxRestarts
    BY <1>2, SessionAssumption
  <2>4. QED
    BY <1>3, <1>4, <1>7, <2>1, <2>2, <2>3 DEF SessionTypeOK
<1>10. PasscodeOnTop /\ NothingToVerify
  BY <1>3, <1>4, <1>5, <1>8 DEF PasscodeOnTop, NothingToVerify, OnTop, Focused
<1>11. WalletScreensHaveWallet
  BY <1>4, <1>5 DEF WalletScreensHaveWallet
<1>12. QED
  BY <1>8, <1>9, <1>10, <1>11 DEF SessionInv, WritersHavePhrase

LEMMA StepInv == SessionInv /\ [SessionNext]_sessionVars => SessionInv'
<1> SUFFICES ASSUME SessionInv, [SessionNext]_sessionVars
             PROVE  SessionInv'
  OBVIOUS
<1>0. /\ SessionTypeOK /\ waiting \in Seq(Tasks)
      /\ stack \in Seq(Screen) /\ stack # <<>>
      /\ wallets \in Optional /\ chainToWallet \in Optional
      /\ torn \in BOOLEAN /\ overtaken \in BOOLEAN
      /\ task \in [Tasks -> Task]
  BY DEF SessionInv, SessionTypeOK
<1>a. ASSUME NEW t \in Tasks, NEW call, Answered(t, call)
      PROVE  /\ Running(t) /\ task[t].at = call
             /\ task[t].kind \in Kinds /\ task[t].phrase \in Optional
             /\ task[t].answer \in Optional \cup {Code}
             /\ Tail(waiting) \in Seq(Tasks)
             /\ call \in Sets => task[t].phrase \in Phrases
  <2>1. Running(t) /\ task[t].at = call /\ waiting # <<>>
    BY <1>a DEF Answered
  <2>2. call \in Sets => task[t].phrase \in Phrases
    BY <2>1 DEF SessionInv, WritersHavePhrase, Writing
  <2>3. QED
    BY <1>0, <2>1, <2>2, RunningFacts
<1>b. /\ None \in Optional /\ \A p \in Phrases : p \in Optional /\ p # None
  BY SessionAssumption DEF Optional
<1> USE DEF Kinds, KeychainCalls, Sets
<1>1. ASSUME NEW t \in Tasks, CheckDeletes(t)  PROVE SessionInv'
  BY <1>0, <1>1, <1>a, <1>b, AwaitKeeps DEF CheckDeletes
<1>2. ASSUME NEW t \in Tasks, CheckAsks(t)  PROVE SessionInv'
  BY <1>0, <1>2, <1>a, <1>b, AwaitKeeps DEF CheckAsks
<1>4. ASSUME NEW t \in Tasks, HandleSetPasscode(t)  PROVE SessionInv'
  BY <1>0, <1>4, <1>b, AwaitKeeps DEF HandleSetPasscode
<1>5. ASSUME NEW t \in Tasks, HandleVerifyPasscode(t)  PROVE SessionInv'
  <2>1. faults = 0 => keychain.userPasscode = None
    BY <1>5 DEF HandleVerifyPasscode, SessionInv, NothingToVerify
  <2>2. QED
    BY <1>0, <1>5, <1>b, <2>1, AwaitKeeps DEF HandleVerifyPasscode
<1>6. ASSUME NEW t \in Tasks, PasscodeRight(t)  PROVE SessionInv'
  <2>1. faults # 0
    BY <1>6, SessionAssumption DEF PasscodeRight, SessionInv, NothingToVerify
  <2>2. QED
    BY <1>0, <1>6, <1>a, <1>b, <2>1, AwaitKeeps DEF PasscodeRight
<1>7. ASSUME NEW t \in Tasks, ImportStored(t)  PROVE SessionInv'
  <2>1. /\ Running(t) /\ task[t].kind = "verify"
        /\ task[t].at = "getMnemonics" /\ task[t].answer \in Phrases
    BY <1>7 DEF ImportStored, Answered
  <2>2. faults # 0
    BY <2>1 DEF SessionInv, NothingToVerify
  <2>3. Tail(waiting) \in Seq(Tasks)
    BY <1>7, <1>a DEF ImportStored
  <2>4. /\ Await(t, Tail(waiting), "verify", "seed", task[t].answer)
        /\ UNCHANGED <<wallets, chainToWallet, stack, restarts, torn,
                       overtaken>>
    BY <1>7 DEF ImportStored
  <2>5. PICK phrase \in Phrases, queue \in Seq(Tasks) :
           task[t].answer = phrase /\ Tail(waiting) = queue
    BY <2>1, <2>3
  <2>6. Await(t, queue, "verify", "seed", phrase)
    BY <2>4, <2>5
  <2>7. QED
    BY <1>b, <2>2, <2>4, <2>5, <2>6, AwaitKeeps
<1>8. ASSUME NEW t \in Tasks, HandleCreateWallet(t)  PROVE SessionInv'
  <2>1. Generated \in Phrases
    BY SessionAssumption
  <2>2. QED
    BY <1>0, <1>8, <1>b, <2>1, AwaitKeeps DEF HandleCreateWallet
<1>9. ASSUME NEW t \in Tasks, ImportAndStoreWallets(t)  PROVE SessionInv'
  BY <1>0, <1>9, <1>b, AwaitKeeps DEF ImportAndStoreWallets
<1>10. ASSUME NEW t \in Tasks, SeedSet(t)  PROVE SessionInv'
  <2>1. /\ Answered(t, "seed")
        /\ Await(t, Tail(waiting), task[t].kind, "solanaSeed", task[t].phrase)
        /\ UNCHANGED <<wallets, chainToWallet, stack, restarts, torn,
                       overtaken>>
    BY <1>10 DEF SeedSet
  <2>2. /\ task[t].at = "seed" /\ task[t].kind \in Kinds
        /\ task[t].phrase \in Phrases /\ Tail(waiting) \in Seq(Tasks)
    BY <1>a, <2>1
  <2>3. task[t].kind = "verify" => faults # 0
    <3>1. Running(t)
      BY <1>a, <2>1
    <3>2. QED
      BY <2>2, <3>1 DEF SessionInv, NothingToVerify
  <2>4. PICK kind \in Kinds, phrase \in Phrases, queue \in Seq(Tasks) :
           /\ task[t].kind = kind /\ task[t].phrase = phrase
           /\ Tail(waiting) = queue
    BY <2>2
  <2>5. Await(t, queue, kind, "solanaSeed", phrase)
    BY <2>1, <2>4
  <2>6. QED
    BY <1>b, <2>1, <2>3, <2>4, <2>5, AwaitKeeps
<1>11. ASSUME NEW t \in Tasks, SolanaSeedSet(t)  PROVE SessionInv'
  <2>1. /\ Answered(t, "solanaSeed")
        /\ Await(t, Tail(waiting), task[t].kind, "mnemonics", task[t].phrase)
        /\ UNCHANGED <<wallets, chainToWallet, stack, restarts, torn,
                       overtaken>>
    BY <1>11 DEF SolanaSeedSet
  <2>2. /\ task[t].at = "solanaSeed" /\ task[t].kind \in Kinds
        /\ task[t].phrase \in Phrases /\ Tail(waiting) \in Seq(Tasks)
    BY <1>a, <2>1
  <2>3. task[t].kind = "verify" => faults # 0
    <3>1. Running(t)
      BY <1>a, <2>1
    <3>2. QED
      BY <2>2, <3>1 DEF SessionInv, NothingToVerify
  <2>4. PICK kind \in Kinds, phrase \in Phrases, queue \in Seq(Tasks) :
           /\ task[t].kind = kind /\ task[t].phrase = phrase
           /\ Tail(waiting) = queue
    BY <2>2
  <2>5. Await(t, queue, kind, "mnemonics", phrase)
    BY <2>1, <2>4
  <2>6. QED
    BY <1>b, <2>1, <2>3, <2>4, <2>5, AwaitKeeps

<1>12. ASSUME NEW t \in Tasks, CheckEnds(t)  PROVE SessionInv'
  <2>1. CASE ~ (OnTop("Passcode") /\ Focused.check = t)
    BY <1>0, <1>12, <1>a, <2>1, EndKeeps DEF CheckEnds, Ends
  <2>2. CASE OnTop("Passcode") /\ Focused.check = t
    <3>1. Focused \in Screen /\ Len(stack) \in DOMAIN stack
      BY <1>0 DEF Focused
    <3>2. /\ Focused.check \in Tasks \cup {None} /\ Focused.name = "Passcode"
          /\ Focused.setting \in BOOLEAN
      BY <2>2, <3>1 DEF Screen, OnTop
    <3>3. ~ Focused.setting
      BY <2>2, SessionAssumption DEF SessionInv, PasscodeOnTop
    <3>4. PICK s :
            s = [Focused EXCEPT !.check = None,
                                !.setting = task[t].answer = None]
      OBVIOUS
    <3>5. /\ s \in Screen /\ s.name = "Passcode" /\ s.check = None
          /\ s.setting = (task[t].answer = None)
      BY <2>2, <3>1, <3>4 DEF Screen, OnTop
    <3>6. /\ Replace(s) /\ UNCHANGED <<wallets, chainToWallet, restarts, torn,
                                      overtaken, keychain, faults>>
          /\ task' = [task EXCEPT ![t] = Idle] /\ waiting' = Tail(waiting)
      BY <1>12, <2>2, <3>4 DEF CheckEnds, Ends
    <3>7. /\ stack' \in Seq(Screen) /\ stack' # <<>>
          /\ DOMAIN stack' = DOMAIN stack /\ Len(stack') = Len(stack)
          /\ stack'[Len(stack')] = s
          /\ \A i \in DOMAIN stack' : i < Len(stack) => stack'[i] = stack[i]
      BY <1>0, <3>5, <3>6, ReplaceFacts
    <3>8. Idle \in Task /\ Idle.kind = "none"
      BY DEF Idle, Task
    <3>9. /\ task' \in [Tasks -> Task] /\ task'[t].kind = "none"
          /\ \A u \in Tasks : u # t => task'[u] = task[u]
      BY <1>0, <3>6, <3>8
    <3>10. SessionTypeOK'
      BY <1>0, <1>12, <1>a, <3>6, <3>7, <3>9 DEF CheckEnds, SessionTypeOK
    <3>11. WritersHavePhrase'
      BY <3>9 DEF SessionInv, WritersHavePhrase, Writing, Running
    <3>12. PasscodeOnTop'
      BY <3>5, <3>7 DEF SessionInv, PasscodeOnTop, OnTop, Focused
    <3>13. NothingToVerify'
      BY <2>2, <3>3, <3>6, <3>9 DEF SessionInv, NothingToVerify
    <3>14. WalletScreensHaveWallet'
      BY <3>5, <3>6, <3>7 DEF SessionInv, WalletScreensHaveWallet
    <3>15. QED
      BY <3>10, <3>11, <3>12, <3>13, <3>14 DEF SessionInv
  <2>3. QED
    BY <2>1, <2>2
<1>13. ASSUME NEW t \in Tasks, PasscodeSet(t)  PROVE SessionInv'
  <2>1. Plain("Initial") \in Screen /\ Plain("Initial").name = "Initial"
    BY ScreenTypes
  <2>2. QED
    BY <1>0, <1>13, <1>a, <2>1, EndKeeps
       DEF PasscodeSet, Ends, WalletScreens
<1>14. ASSUME NEW t \in Tasks, NoMnemonics(t)  PROVE SessionInv'
  <2>1. Plain("Initial") \in Screen /\ Plain("Initial").name = "Initial"
    BY ScreenTypes
  <2>2. QED
    BY <1>0, <1>14, <1>a, <2>1, EndKeeps
       DEF NoMnemonics, Ends, WalletScreens
<1>15. ASSUME NEW t \in Tasks, PasscodeWrong(t)  PROVE SessionInv'
  BY <1>0, <1>15, <1>a, EndKeeps DEF PasscodeWrong, Ends
<1>16. ASSUME NEW t \in Tasks, Rejected(t)  PROVE SessionInv'
  <2>1. Tail(waiting) \in Seq(Tasks)
    BY <1>0, <1>16 DEF Rejected
  <2>2. torn' \in BOOLEAN
    BY <1>16 DEF Rejected
  <2>3. QED
    BY <1>0, <1>16, <2>1, <2>2, EndKeeps DEF Rejected
<1>17. ASSUME NEW t \in Tasks, CreateEnds(t)  PROVE SessionInv'
  <2>1. /\ task[t].phrase \in Phrases /\ Tail(waiting) \in Seq(Tasks)
    BY <1>17, <1>a DEF CreateEnds
  <2>2. wallets' # None /\ chainToWallet' # None
    BY <1>17, <1>b, <2>1 DEF CreateEnds
  <2>3. keychain.mnemonics \in Optional
    BY DEF SessionInv, SessionTypeOK, Keychain
  <2>4. MnemonicsScreen("Initial", keychain.mnemonics) \in Screen
        /\ MnemonicsScreen("Initial", keychain.mnemonics).name = "Mnemonics"
    BY <2>3, ScreenTypes
  <2>5. QED
    BY <1>0, <1>17, <1>b, <2>1, <2>2, <2>4, EndKeeps DEF CreateEnds, Ends
<1>18. ASSUME NEW t \in Tasks, ImportRegisters(t)  PROVE SessionInv'
  <2>1. /\ task[t].kind \in {"import", "verify"} /\ task[t].at = "mnemonics"
        /\ Running(t) /\ task[t] \in Task
        /\ task[t].phrase \in Phrases /\ Tail(waiting) \in Seq(Tasks)
    BY <1>0, <1>18, <1>a DEF ImportRegisters
  <2>2. /\ task' = [task EXCEPT ![t].at = "register"]
        /\ waiting' = Tail(waiting)
        /\ UNCHANGED <<keychain, wallets, chainToWallet, stack, faults,
                       restarts, torn, overtaken>>
    BY <1>18 DEF ImportRegisters
  <2>3. /\ task'[t] = [task[t] EXCEPT !.at = "register"]
        /\ \A u \in Tasks : u # t => task'[u] = task[u]
    BY <1>0, <2>2
  <2>4. /\ task'[t] \in Task /\ task'[t].kind = task[t].kind
        /\ task'[t].phrase = task[t].phrase
    BY <2>1, <2>3 DEF Task
  <2>5. task' \in [Tasks -> Task]
    BY <1>0, <2>2, <2>3, <2>4
  <2>6. SessionTypeOK'
    BY <1>0, <2>1, <2>2, <2>5 DEF SessionTypeOK
  <2>7. WritersHavePhrase'
    BY <2>1, <2>3, <2>4 DEF SessionInv, WritersHavePhrase, Writing, Running
  <2>8. task[t].kind = "verify" => faults # 0
    BY <2>1 DEF SessionInv, NothingToVerify
  <2>9. NothingToVerify'
    BY <2>2, <2>3, <2>4, <2>8
       DEF SessionInv, NothingToVerify, OnTop, Focused
  <2>10. PasscodeOnTop' /\ WalletScreensHaveWallet'
    BY <2>2 DEF SessionInv, PasscodeOnTop, OnTop, Focused,
                WalletScreensHaveWallet
  <2>11. QED
    BY <2>6, <2>7, <2>9, <2>10 DEF SessionInv
<1>c. ASSUME NEW t \in Tasks, Running(t), task[t].at = "register"
      PROVE  task[t].phrase \in Phrases
  BY <1>c DEF SessionInv, WritersHavePhrase, Writing
<1>19. ASSUME NEW t \in Tasks, ImportEnds(t)  PROVE SessionInv'
  <2>1. /\ wallets' \in Phrases /\ overtaken' \in BOOLEAN
        /\ UNCHANGED <<chainToWallet, restarts, torn>>
        /\ Replace(PasscodeScreen(t))
        /\ Call(task, t, waiting, "check", "deleteUserPasscode", None)
    BY <1>19, <1>c DEF ImportEnds, Registered, Check, Await
  <2>2. /\ keychain' \in Keychain /\ task' \in [Tasks -> Task]
        /\ waiting' \in Seq(Tasks) /\ faults' \in 0 .. MaxFaults
        /\ \A u \in Tasks : u # t => task'[u] = task[u]
        /\ task'[t].kind = "check" /\ task'[t].at = "deleteUserPasscode"
        /\ faults' = 0 => faults = 0
        /\ faults' = 0 => keychain'.userPasscode = None
    BY <1>0, <1>b, <2>1, CallFacts
  <2>3. /\ stack' \in Seq(Screen) /\ stack' # <<>>
        /\ DOMAIN stack' = DOMAIN stack /\ Len(stack') = Len(stack)
        /\ stack'[Len(stack')] = PasscodeScreen(t)
        /\ \A i \in DOMAIN stack' : i < Len(stack) => stack'[i] = stack[i]
    BY <1>0, <2>1, ReplaceFacts, ScreenTypes
  <2>4. wallets' # None /\ wallets' \in Optional
    BY <1>b, <2>1
  <2>5. SessionTypeOK'
    BY <1>0, <2>1, <2>2, <2>3, <2>4 DEF SessionTypeOK
  <2>6. WritersHavePhrase'
    BY <2>2 DEF SessionInv, WritersHavePhrase, Writing, Running
  <2>7. \A i \in DOMAIN stack' : i < Len(stack') =>
           stack'[i].name # "Passcode"
    BY <2>3 DEF SessionInv, PasscodeOnTop
  <2>8. faults' = 0 => \A u \in Tasks : task'[u].kind = "verify" =>
           task'[u].at = "getUserPasscode" /\ task'[u].answer = None
    BY <2>2 DEF SessionInv, NothingToVerify
  <2>9. WalletScreensHaveWallet'
    <3>1. PasscodeScreen(t).name = "Passcode"
      BY ScreenTypes
    <3>2. faults > 0 => faults' > 0
      BY <2>2, SessionAssumption DEF SessionInv, SessionTypeOK
    <3>3. ASSUME NEW i \in DOMAIN stack', stack'[i].name \in WalletScreens
          PROVE  chainToWallet = None => faults > 0
      BY <2>3, <3>1, <3>3
         DEF SessionInv, WalletScreensHaveWallet, WalletScreens
    <3>4. QED
      BY <2>1, <2>4, <3>2, <3>3 DEF WalletScreensHaveWallet, WalletScreens
  <2>10. QED
    BY <1>0, <2>2, <2>3, <2>5, <2>6, <2>7, <2>8, <2>9, CheckKeeps
<1>20. ASSUME NEW t \in Tasks, VerifyEnds(t)  PROVE SessionInv'
  <2>1. /\ Running(t) /\ task[t].kind = "verify" /\ task[t].at = "register"
        /\ wallets' = task[t].phrase /\ overtaken' \in BOOLEAN
        /\ task' = [task EXCEPT ![t] = Idle]
        /\ UNCHANGED <<chainToWallet, restarts, torn, keychain, waiting,
                       faults>>
        /\ Replace(Plain("WalletDashboard"))
    BY <1>20 DEF VerifyEnds, Registered
  <2>2. faults > 0
    BY <2>1, SessionAssumption
       DEF SessionInv, SessionTypeOK, NothingToVerify
  <2>3. wallets' \in Optional /\ wallets' # None
    BY <1>b, <1>c, <2>1
  <2>4. /\ Plain("WalletDashboard") \in Screen
        /\ Plain("WalletDashboard").name = "WalletDashboard"
    BY ScreenTypes
  <2>5. QED
    BY <1>0, <2>1, <2>2, <2>3, <2>4, EndKeeps
<1>21. ASSUME NEW t \in Tasks, Restart(t)  PROVE SessionInv'
  <2>1. /\ wallets' = None /\ chainToWallet' = None
        /\ stack' = <<PasscodeScreen(t)>>
        /\ torn' \in BOOLEAN /\ overtaken' \in BOOLEAN
        /\ restarts' = restarts + 1 /\ restarts < MaxRestarts
        /\ Call([u \in Tasks |-> Idle], t, <<>>, "check",
                "deleteUserPasscode", None)
    BY <1>21 DEF Restart
  <2>2. Idle \in Task /\ Idle.kind = "none"
    BY DEF Idle, Task
  <2>3. PICK idle \in [Tasks -> Task], queue \in Seq(Tasks) :
           idle = [u \in Tasks |-> Idle] /\ queue = <<>>
    <3>1. [u \in Tasks |-> Idle] \in [Tasks -> Task]
      BY <2>2
    <3>2. <<>> \in Seq(Tasks)
      OBVIOUS
    <3> HIDE DEF Idle
    <3>3. QED
      BY <3>1, <3>2
  <2>a. Call(idle, t, queue, "check", "deleteUserPasscode", None)
    BY <2>1, <2>3
  <2>4. /\ keychain' \in Keychain /\ task' \in [Tasks -> Task]
        /\ waiting' \in Seq(Tasks) /\ faults' \in 0 .. MaxFaults
        /\ \A u \in Tasks : u # t => task'[u] = idle[u]
        /\ task'[t].kind = "check" /\ task'[t].at = "deleteUserPasscode"
        /\ faults' = 0 => keychain'.userPasscode = None
    BY <1>0, <1>b, <2>a, CallFacts
  <2>5. /\ stack' \in Seq(Screen) /\ stack' # <<>> /\ Len(stack') = 1
        /\ stack'[1] = PasscodeScreen(t)
        /\ PasscodeScreen(t).name = "Passcode"
    BY <2>1, ScreenTypes
  <2>6. \A u \in Tasks : task'[u].kind \in {"none", "check"}
                        /\ (u # t => task'[u].kind = "none")
    BY <2>2, <2>3, <2>4
  <2>7. SessionTypeOK'
    BY <1>0, <1>b, <2>1, <2>4, <2>5, SessionAssumption DEF SessionTypeOK
  <2>8. WritersHavePhrase'
    BY <2>4, <2>6 DEF WritersHavePhrase, Writing, Running
  <2>9. WalletScreensHaveWallet'
    BY <2>5 DEF WalletScreensHaveWallet
  <2>10. QED
    BY <2>3, <2>4, <2>5, <2>6, <2>7, <2>8, <2>9, CheckKeeps
<1>d. /\ Len(stack) \in DOMAIN stack /\ Focused \in Screen
      /\ \A i \in DOMAIN stack : i < Len(stack) => stack[i].name # "Passcode"
      /\ \A i \in DOMAIN stack : stack[i].name \in WalletScreens =>
            wallets # None /\ (chainToWallet = None => faults > 0)
  BY <1>0 DEF Focused, SessionInv, PasscodeOnTop, WalletScreensHaveWallet,
              WalletScreens
<1>e. ASSUME Pop,
             UNCHANGED <<keychain, wallets, chainToWallet, task, waiting,
                         faults, restarts, torn, overtaken>>
      PROVE  SessionInv'
  <2>1. /\ Len(stack) - 1 \in 1 .. Len(stack)
        /\ stack' = SubSeq(stack, 1, Len(stack) - 1)
    BY <1>0, <1>e DEF Pop
  <2>2. PICK n \in 1 .. Len(stack) : n = Len(stack) - 1
    BY <2>1
  <2>3. /\ stack' \in Seq(Screen) /\ stack' # <<>>
        /\ \A i \in DOMAIN stack' :
              i \in DOMAIN stack /\ i < Len(stack) /\ stack'[i] = stack[i]
    BY <1>0, <2>1, <2>2, BackFacts
  <2>4. QED
    BY <1>d, <1>e, <2>3, StackKeeps
<1>f. ASSUME NEW s \in Screen, Replace(s), s.name # "Passcode",
             s.name \in WalletScreens =>
                wallets # None /\ (chainToWallet = None => faults > 0),
             UNCHANGED <<keychain, wallets, chainToWallet, task, waiting,
                         faults, restarts, torn, overtaken>>
      PROVE  SessionInv'
  <2>1. /\ stack' \in Seq(Screen) /\ stack' # <<>>
        /\ DOMAIN stack' = DOMAIN stack
        /\ \A i \in DOMAIN stack' :
              stack'[i] = s \/ (i < Len(stack) /\ stack'[i] = stack[i])
    BY <1>0, <1>f, ReplaceFacts
  <2>2. QED
    BY <1>d, <1>f, <2>1, StackKeeps
<1>g. ASSUME NEW s \in Screen, Navigate(s), s.name # "Passcode",
             ~ OnTop("Passcode"),
             s.name \in WalletScreens =>
                wallets # None /\ (chainToWallet = None => faults > 0),
             UNCHANGED <<keychain, wallets, chainToWallet, task, waiting,
                         faults, restarts, torn, overtaken>>
      PROVE  SessionInv'
  <2>1. \A i \in DOMAIN stack : stack[i].name # "Passcode"
    BY <1>0, <1>d, <1>g DEF OnTop, Focused
  <2>2. CASE stack' = Append(stack, s)
    <3>1. /\ stack' \in Seq(Screen) /\ stack' # <<>>
          /\ \A i \in DOMAIN stack' :
                stack'[i] = s \/ (i \in DOMAIN stack /\ stack'[i] = stack[i])
      BY <1>0, <2>2, PushFacts
    <3>2. QED
      BY <1>d, <1>g, <2>1, <3>1, StackKeeps
  <2>3. CASE \E i \in DOMAIN stack : stack' = SubSeq(stack, 1, i)
    <3>1. PICK n \in 1 .. Len(stack) : stack' = SubSeq(stack, 1, n)
      BY <1>0, <2>3
    <3>2. /\ stack' \in Seq(Screen) /\ stack' # <<>>
          /\ \A i \in DOMAIN stack' : i \in DOMAIN stack /\ stack'[i] = stack[i]
      BY <1>0, <3>1, BackFacts
    <3>3. QED
      BY <1>d, <1>g, <2>1, <3>2, StackKeeps
  <2>4. QED
    BY <1>g, <2>2, <2>3 DEF Navigate
<1>h. ASSUME OnTop("Mnemonics") \/ OnTop("MnemonicsConfirmation")
             \/ OnTop("WalletDashboard") \/ OnTop("WalletSettings")
      PROVE  wallets # None /\ (chainToWallet = None => faults > 0)
  BY <1>d, <1>h DEF OnTop, Focused, WalletScreens
<1>i. keychain.mnemonics \in Optional
  BY DEF SessionInv, SessionTypeOK, Keychain
<1>22. ASSUME Words  PROVE SessionInv'
  <2>1. PICK s : s = [Focused EXCEPT !.words = Focused.read,
                                     !.read = keychain.mnemonics]
    OBVIOUS
  <2>2. s \in Screen /\ s.name = "Mnemonics"
    BY <1>d, <1>i, <1>22, <2>1 DEF Words, OnTop, Screen
  <2>3. QED
    BY <1>22, <1>f, <1>h, <2>1, <2>2 DEF Words
<1>23. ASSUME HandleImportWallet  PROVE SessionInv'
  <2>1. /\ Plain("ImportWallet") \in Screen
        /\ Plain("ImportWallet").name = "ImportWallet"
    BY ScreenTypes
  <2>2. QED
    BY <1>23, <1>g, <1>h, <2>1 DEF HandleImportWallet, OnTop, WalletScreens
<1>24. ASSUME HandleMnemonicsNavigation  PROVE SessionInv'
  <2>1. CASE Focused.previousScreen = "Initial"
    <3>1. /\ Plain("MnemonicsConfirmation") \in Screen
          /\ Plain("MnemonicsConfirmation").name = "MnemonicsConfirmation"
      BY ScreenTypes
    <3>2. QED
      BY <1>24, <1>f, <1>h, <2>1, <3>1 DEF HandleMnemonicsNavigation
  <2>2. CASE Focused.previousScreen # "Initial"
    BY <1>24, <1>e, <2>2 DEF HandleMnemonicsNavigation
  <2>3. QED
    BY <2>1, <2>2
<1>25. ASSUME HandleContinue  PROVE SessionInv'
  <2>1. /\ Plain("WalletDashboard") \in Screen
        /\ Plain("WalletDashboard").name = "WalletDashboard"
    BY ScreenTypes
  <2>2. QED
    BY <1>25, <1>f, <1>h, <2>1 DEF HandleContinue, OnTop, WalletScreens
<1>26. ASSUME OpenSettings  PROVE SessionInv'
  <2>1. /\ Plain("WalletSettings") \in Screen
        /\ Plain("WalletSettings").name = "WalletSettings"
    BY ScreenTypes
  <2>2. QED
    BY <1>26, <1>g, <1>h, <2>1 DEF OpenSettings, OnTop, WalletScreens
<1>27. ASSUME HandleBackup  PROVE SessionInv'
  <2>1. PICK s : s = MnemonicsScreen("settings", keychain.mnemonics)
    OBVIOUS
  <2>2. s \in Screen /\ s.name = "Mnemonics"
    BY <1>i, <2>1, ScreenTypes
  <2>3. QED
    BY <1>27, <1>g, <1>h, <2>1, <2>2 DEF HandleBackup, OnTop
<1>28. ASSUME GoBack  PROVE SessionInv'
  BY <1>28, <1>e DEF GoBack
<1>29. ASSUME UNCHANGED sessionVars  PROVE SessionInv'
  BY <1>29 DEF sessionVars, SessionInv, SessionTypeOK, WritersHavePhrase,
     PasscodeOnTop, NothingToVerify, WalletScreensHaveWallet, Writing, Running,
     OnTop, Focused
<1>30. QED
  BY <1>1, <1>2, <1>4, <1>5, <1>6, <1>7, <1>8, <1>9, <1>10, <1>11, <1>12,
     <1>13, <1>14, <1>15, <1>16, <1>17, <1>18, <1>19, <1>20, <1>21, <1>22,
     <1>23, <1>24, <1>25, <1>26, <1>27, <1>28, <1>29
     DEF SessionNext, Answers, User

-----------------------------------------------------------------------------
(* Type correctness of the wallet context, the Keychain and the stack.     *)
THEOREM SessionTypeCorrect == SessionSpec => []SessionTypeOK
<1>1. SessionInv => SessionTypeOK
  BY DEF SessionInv
<1>2. QED
  BY <1>1, InitInv, StepInv, PTL DEF SessionSpec

(* No screen of a wallet is ever in the stack without a wallet in the      *)
(* context, and without a rejected Keychain call none lacks chainToWallet: *)
(* however many handlers overlap, and whatever they replace late.          *)
THEOREM WalletBehindEveryScreen == SessionSpec => []WalletScreensHaveWallet
<1>1. SessionInv => WalletScreensHaveWallet
  BY DEF SessionInv
<1>2. QED
  BY <1>1, InitInv, StepInv, PTL DEF SessionSpec

-----------------------------------------------------------------------------
(* The order of the writers.                                               *)

Holds(q, t) == \E i \in DOMAIN q : q[i] = t
Before(q, t, u) == \E i, j \in DOMAIN q : i < j /\ q[i] = t /\ q[j] = u
Once(q) == \A i, j \in DOMAIN q : q[i] = q[j] => i = j

(* q1 is q without t.                                                      *)
Without(q, q1, t) ==
    /\ q1 \in Seq(Tasks) /\ Once(q1) /\ ~ Holds(q1, t)
    /\ \A u \in Tasks : u # t => (Holds(q1, u) <=> Holds(q, u))
    /\ \A u, v \in Tasks :
          u # t /\ v # t => (Before(q1, u, v) <=> Before(q, u, v))

(* How many of the secrets of its wallet a task has called for.            *)
StageOf(r) == IF r.kind = "none" \/ r.at \notin Sets THEN 0
              ELSE IF r.at = "seed" THEN 1
              ELSE IF r.at = "solanaSeed" THEN 2 ELSE 3

stages == [t \in Tasks |-> StageOf(task[t])]

(* t began after u: it is behind u, in its stage or in the queue.          *)
Newer(s, q, t, u) == s[t] < s[u] \/ (s[t] = s[u] /\ Before(q, u, t))

(* t is the last to have called for the secret k.                          *)
Newest(s, q, t, k) ==
    /\ k <= s[t]
    /\ \A u \in Tasks : u # t /\ k <= s[u] => Newer(s, q, t, u)

LEMMA StayFacts ==
    ASSUME NEW q \in Seq(Tasks), NEW t \in Tasks, Once(q), ~ Holds(q, t)
    PROVE  Without(q, q, t)
BY DEF Without

LEMMA TailFacts ==
    ASSUME NEW q \in Seq(Tasks), q # <<>>, Once(q)
    PROVE  /\ Head(q) \in Tasks
           /\ Holds(q, Head(q))
           /\ Without(q, Tail(q), Head(q))
           /\ \A u \in Tasks : Holds(q, u) /\ u # Head(q) =>
                 Before(q, Head(q), u)
<1>1. /\ Head(q) = q[1] /\ 1 \in DOMAIN q /\ Head(q) \in Tasks
      /\ Tail(q) \in Seq(Tasks)
      /\ \A i \in DOMAIN q : i \in Nat /\ i >= 1
  OBVIOUS
<1>2. \A i \in DOMAIN Tail(q) : /\ i \in Nat /\ i + 1 \in DOMAIN q
                                /\ Tail(q)[i] = q[i + 1] /\ i + 1 > 1
  OBVIOUS
<1>3. \A i \in DOMAIN q : i # 1 => /\ i - 1 \in DOMAIN Tail(q)
                                   /\ Tail(q)[i - 1] = q[i]
  OBVIOUS
<1> DEFINE r == Tail(q)
           h == Head(q)
<1> HIDE DEF r, h
<1>4. Once(r)
  BY <1>1, <1>2 DEF Once, r
<1>5. ~ Holds(r, h)
  BY <1>1, <1>2 DEF Once, Holds, r, h
<1>6. ASSUME NEW u \in Tasks, u # h  PROVE Holds(r, u) <=> Holds(q, u)
  BY <1>1, <1>2, <1>3, <1>6 DEF Holds, r, h
<1>7. ASSUME NEW u \in Tasks, NEW v \in Tasks, u # h, v # h
      PROVE  Before(r, u, v) <=> Before(q, u, v)
  <2>1. ASSUME Before(r, u, v)  PROVE Before(q, u, v)
    BY <1>1, <1>2, <2>1 DEF Before, r, h
  <2>2. ASSUME Before(q, u, v)  PROVE Before(r, u, v)
    <3>1. PICK i, j \in DOMAIN q : i < j /\ q[i] = u /\ q[j] = v
      BY <2>2 DEF Before
    <3>2. i # 1 /\ j # 1
      BY <1>1, <1>7, <3>1 DEF h
    <3>3. /\ i - 1 \in DOMAIN r /\ j - 1 \in DOMAIN r /\ i - 1 < j - 1
          /\ r[i - 1] = u /\ r[j - 1] = v
      BY <1>1, <1>3, <3>1, <3>2 DEF r
    <3>4. QED
      BY <3>3 DEF Before
  <2>3. QED
    BY <2>1, <2>2
<1>8. ASSUME NEW u \in Tasks, Holds(q, u), u # h  PROVE Before(q, h, u)
  <2>1. PICK j \in DOMAIN q : q[j] = u
    BY <1>8 DEF Holds
  <2>2. 1 < j /\ q[1] = h
    BY <1>1, <1>8, <2>1 DEF h
  <2>3. QED
    BY <1>1, <2>1, <2>2 DEF Before
<1>9. Holds(q, h)
  BY <1>1 DEF Holds, h
<1>10. Without(q, r, h)
  BY <1>1, <1>4, <1>5, <1>6, <1>7 DEF Without, r
<1>11. QED
  BY <1>1, <1>8, <1>9, <1>10 DEF r, h

LEMMA AppendFacts ==
    ASSUME NEW q \in Seq(Tasks), NEW t \in Tasks, Once(q), ~ Holds(q, t)
    PROVE  /\ Once(Append(q, t)) /\ Holds(Append(q, t), t)
           /\ \A u \in Tasks : u # t =>
                 /\ Holds(Append(q, t), u) <=> Holds(q, u)
                 /\ Holds(q, u) => Before(Append(q, t), u, t)
                 /\ ~ Before(Append(q, t), t, u)
           /\ \A u, v \in Tasks : u # t /\ v # t =>
                 (Before(Append(q, t), u, v) <=> Before(q, u, v))
<1> DEFINE r == Append(q, t)
           n == Len(q) + 1
<1>1. /\ n \in DOMAIN r /\ r[n] = t
      /\ \A i \in DOMAIN q : /\ i \in DOMAIN r /\ r[i] = q[i] /\ i \in Nat
                             /\ i < n
      /\ \A i \in DOMAIN r : i \in Nat /\ (i = n \/ i \in DOMAIN q)
      /\ n \in Nat
  OBVIOUS
<1> HIDE DEF r, n
<1>2. \A i \in DOMAIN q : q[i] # t
  BY DEF Holds
<1>3. Once(r)
  BY <1>1, <1>2 DEF Once
<1>4. Holds(r, t)
  BY <1>1 DEF Holds
<1>5. ASSUME NEW u \in Tasks, u # t
      PROVE  /\ Holds(r, u) <=> Holds(q, u)
             /\ Holds(q, u) => Before(r, u, t)
             /\ ~ Before(r, t, u)
  <2>1. Holds(r, u) <=> Holds(q, u)
    BY <1>1, <1>5 DEF Holds
  <2>2. Holds(q, u) => Before(r, u, t)
    BY <1>1 DEF Holds, Before
  <2>3. ~ Before(r, t, u)
    <3> SUFFICES ASSUME NEW i \in DOMAIN r, NEW j \in DOMAIN r, i < j,
                        r[i] = t, r[j] = u
                 PROVE  FALSE
      BY DEF Before
    <3>1. i = n
      BY <1>1, <1>2
    <3>2. j \in DOMAIN q
      BY <1>1, <1>5
    <3>3. QED
      BY <1>1, <3>1, <3>2
  <2>4. QED
    BY <2>1, <2>2, <2>3
<1>6. ASSUME NEW u \in Tasks, NEW v \in Tasks, u # t, v # t
      PROVE  Before(r, u, v) <=> Before(q, u, v)
  BY <1>1, <1>6 DEF Before
<1>7. QED
  BY <1>3, <1>4, <1>5, <1>6 DEF r

-----------------------------------------------------------------------------
(* Who is the newest after a task was called, went on, or is gone.         *)
(* t has no secret called for, before and after.                           *)
LEMMA QuietOrder ==
    ASSUME NEW s \in [Tasks -> 0 .. 3], NEW t \in Tasks, s[t] = 0,
           NEW q, NEW q1, NEW y \in Tasks, NEW k \in 1 .. 3,
           \A u, v \in Tasks :
              u # t /\ v # t => (Before(q1, u, v) <=> Before(q, u, v)),
           Newest(s, q1, y, k)
    PROVE  Newest(s, q, y, k)
<1>1. y # t
  BY DEF Newest
<1>2. ASSUME NEW u \in Tasks, u # y, k <= s[u]  PROVE Newer(s, q, y, u)
  <2>1. u # t
    BY <1>2
  <2>2. Newer(s, q1, y, u)
    BY <1>2 DEF Newest
  <2>3. QED
    BY <1>1, <2>1, <2>2 DEF Newer
<1>3. QED
  BY <1>2 DEF Newest

(* t calls for the next secret, n.                                         *)
LEMMA NextOrder ==
    ASSUME NEW s \in [Tasks -> 0 .. 3], NEW s1 \in [Tasks -> 0 .. 3],
           NEW t \in Tasks, s1[t] = s[t] + 1,
           \A u \in Tasks : u # t => s1[u] = s[u],
           NEW q, NEW q1,
           \A u, v \in Tasks :
              u # t /\ v # t => (Before(q1, u, v) <=> Before(q, u, v)),
           \A u \in Tasks : u # t => ~ Before(q1, t, u),
           s[t] # 0 => \A u \in Tasks : u # t /\ s[u] # 0 => Before(q, t, u)
    PROVE  \A y \in Tasks, k \in 1 .. 3 : Newest(s1, q1, y, k) =>
              (k = s1[t] /\ y = t) \/ (k # s1[t] /\ Newest(s, q, y, k))
<1>0. PICK n \in 1 .. 3 : s1[t] = n /\ s[t] = n - 1
  OBVIOUS
<1> SUFFICES ASSUME NEW y \in Tasks, NEW k \in 1 .. 3, Newest(s1, q1, y, k)
             PROVE  (k = n /\ y = t) \/ (k # n /\ Newest(s, q, y, k))
  BY <1>0
<1>1. CASE y = t
  <2>1. k <= n
    BY <1>0, <1>1 DEF Newest
  <2>2. ASSUME k < n  PROVE Newest(s, q, t, k)
    <3>1. ASSUME NEW u \in Tasks, u # t, k <= s[u]  PROVE Newer(s, q, t, u)
      <4>1. Newer(s1, q1, t, u) /\ s1[u] = s[u]
        BY <1>1, <3>1 DEF Newest
      <4>2. n <= s[u]
        BY <1>0, <4>1 DEF Newer
      <4>3. QED
        BY <1>0, <4>2 DEF Newer
    <3>2. QED
      BY <1>0, <2>2, <3>1 DEF Newest
  <2>3. QED
    BY <1>1, <2>1, <2>2
<1>2. CASE y # t
  <2>1. s1[y] = s[y] /\ k <= s[y]
    BY <1>2 DEF Newest
  <2>2. k <= n => s[y] < n
    <3> SUFFICES ASSUME k <= n  PROVE s[y] < n
      OBVIOUS
    <3>1. Newer(s1, q1, y, t)
      BY <1>0, <1>2 DEF Newest
    <3>2. QED
      BY <1>0, <1>2, <2>1, <3>1 DEF Newer
  <2>3. k # n
    BY <2>1, <2>2
  <2>4. ASSUME NEW u \in Tasks, u # y, k <= s[u]  PROVE Newer(s, q, y, u)
    <3>1. CASE u = t
      <4>1. k < n /\ s[y] <= n - 1 /\ n > 1
        BY <1>0, <2>2, <2>4, <3>1
      <4>2. Before(q, t, y)
        BY <1>0, <1>2, <2>1, <4>1
      <4>3. QED
        BY <1>0, <3>1, <4>1, <4>2 DEF Newer
    <3>2. CASE u # t
      <4>1. Newer(s1, q1, y, u)
        BY <2>4, <3>2 DEF Newest
      <4>2. QED
        BY <1>2, <2>1, <3>2, <4>1 DEF Newer
    <3>3. QED
      BY <3>1, <3>2
  <2>5. QED
    BY <2>1, <2>3, <2>4 DEF Newest
<1>3. QED
  BY <1>1, <1>2

(* t, at the head of the queue, has all its secrets stored and leaves.     *)
LEMMA LastOrder ==
    ASSUME NEW s \in [Tasks -> 0 .. 3], NEW s1 \in [Tasks -> 0 .. 3],
           NEW t \in Tasks, s[t] = 3, s1[t] = 0,
           \A u \in Tasks : u # t => s1[u] = s[u],
           NEW q, NEW q1,
           \A u, v \in Tasks :
              u # t /\ v # t => (Before(q1, u, v) <=> Before(q, u, v)),
           \A u \in Tasks : u # t /\ s[u] # 0 => Before(q, t, u)
    PROVE  \A y \in Tasks, k \in 1 .. 3 :
              Newest(s1, q1, y, k) => Newest(s, q, y, k)
<1> SUFFICES ASSUME NEW y \in Tasks, NEW k \in 1 .. 3, Newest(s1, q1, y, k)
             PROVE  Newest(s, q, y, k)
  OBVIOUS
<1>1. y # t
  BY DEF Newest
<1>2. s1[y] = s[y] /\ k <= s[y]
  BY <1>1 DEF Newest
<1>3. ASSUME NEW u \in Tasks, u # y, k <= s[u]  PROVE Newer(s, q, y, u)
  <2>1. CASE u = t
    <3>1. Before(q, t, y) /\ s[y] <= 3
      BY <1>1, <1>2
    <3>2. QED
      BY <2>1, <3>1 DEF Newer
  <2>2. CASE u # t
    <3>1. Newer(s1, q1, y, u)
      BY <1>3, <2>2 DEF Newest
    <3>2. QED
      BY <1>1, <1>2, <2>2, <3>1 DEF Newer
  <2>3. QED
    BY <2>1, <2>2
<1>4. QED
  BY <1>2, <1>3 DEF Newest

-----------------------------------------------------------------------------
(* The Keychain answers the tasks that wait, each once.                    *)
Queued ==
    /\ Once(waiting)
    /\ \A t \in Tasks :
          Holds(waiting, t) <=> Running(t) /\ task[t].at # "register"

(* No writer was cut short, and none is about to be.                       *)
Whole == ~ torn /\ \A t \in Tasks : stages[t] # 0 => task[t].ok

(* Each secret is of the newest task that called for it, and when nobody   *)
(* is writing the three are of one phrase.                                 *)
LastWins ==
    Whole =>
      /\ \A t \in Tasks :
            /\ Newest(stages, waiting, t, 1) => keychain.seed = task[t].phrase
            /\ Newest(stages, waiting, t, 2) =>
                  keychain.solanaSeed = task[t].phrase
            /\ Newest(stages, waiting, t, 3) =>
                  keychain.mnemonics \in {task[t].phrase, None}
      /\ (\A t \in Tasks : stages[t] = 0) =>
            /\ keychain.solanaSeed = keychain.seed
            /\ keychain.mnemonics \in {keychain.seed, None}

LEMMA StageFacts ==
    ASSUME SessionTypeOK
    PROVE  /\ stages \in [Tasks -> 0 .. 3]
           /\ \A t \in Tasks :
                 /\ stages[t] = StageOf(task[t])
                 /\ stages[t] # 0 <=> Running(t) /\ task[t].at \in Sets
                 /\ Writing(t) <=>
                       stages[t] # 0 \/ (Running(t) /\ task[t].at = "register")
BY DEF stages, StageOf, Running, Writing, Sets

LEMMA StageFactsNext ==
    ASSUME SessionTypeOK'
    PROVE  /\ stages' \in [Tasks -> 0 .. 3]
           /\ \A t \in Tasks :
                 /\ stages'[t] = StageOf(task'[t])
                 /\ stages'[t] # 0 <=> Running(t)' /\ task'[t].at \in Sets
                 /\ Writing(t)' <=>
                       stages'[t] # 0
                       \/ (Running(t)' /\ task'[t].at = "register")
BY DEF stages, StageOf, Running, Writing, Sets

LEMMA HeadFacts ==
    ASSUME SessionTypeOK, Queued, waiting # <<>>,
           NEW t \in Tasks, Head(waiting) = t
    PROVE  /\ Without(waiting, Tail(waiting), t)
           /\ Running(t) /\ task[t].at # "register"
           /\ \A u \in Tasks : u # t /\ stages[u] # 0 => Before(waiting, t, u)
<1>1. waiting \in Seq(Tasks) /\ Once(waiting)
  BY DEF SessionTypeOK, Queued
<1>2. /\ Without(waiting, Tail(waiting), t) /\ Holds(waiting, t)
      /\ \A u \in Tasks : Holds(waiting, u) /\ u # t => Before(waiting, t, u)
  BY <1>1, TailFacts
<1>3. \A u \in Tasks : stages[u] # 0 => Holds(waiting, u)
  BY StageFacts DEF Queued, Sets
<1>4. QED
  BY <1>2, <1>3 DEF Queued

LEMMA OutFacts ==
    ASSUME SessionTypeOK, Queued, NEW t \in Tasks,
           ~ Running(t) \/ task[t].at = "register"
    PROVE  Without(waiting, waiting, t) /\ stages[t] = 0
<1>1. waiting \in Seq(Tasks) /\ Once(waiting) /\ ~ Holds(waiting, t)
  BY DEF SessionTypeOK, Queued
<1>2. QED
  BY <1>1, StayFacts, StageFacts DEF Sets

(* What a call does to the secrets.                                        *)
LEMMA SecretFacts ==
    ASSUME SessionTypeOK, NEW tasks \in [Tasks -> Task], NEW t \in Tasks,
           NEW queue \in Seq(Tasks), NEW kind \in Kinds,
           NEW call \in KeychainCalls, NEW phrase \in Optional,
           Call(tasks, t, queue, kind, call, phrase)
    PROVE  /\ waiting' = Append(queue, t)
           /\ call # "seed" => keychain'.seed = keychain.seed
           /\ call # "solanaSeed" => keychain'.solanaSeed = keychain.solanaSeed
           /\ call # "mnemonics" =>
                 keychain'.mnemonics \in {keychain.mnemonics, None}
           /\ task'[t].ok =>
                 /\ call = "seed" => keychain'.seed = phrase
                 /\ call = "solanaSeed" => keychain'.solanaSeed = phrase
                 /\ call = "mnemonics" => keychain'.mnemonics = phrase
<1>1. keychain \in Keychain /\ waiting' = Append(queue, t)
  BY DEF SessionTypeOK, Call
<1>2. PICK ok \in BOOLEAN :
        /\ keychain' = IF ok THEN After(call, phrase) ELSE keychain
        /\ task' = [tasks EXCEPT ![t] =
              [kind |-> kind, at |-> call, phrase |-> phrase, ok |-> ok,
               answer |-> IF ok THEN Answer(call) ELSE None]]
  BY DEF Call
<1>3. task'[t].ok = ok
  BY <1>2
<1> DEFINE code == CASE call = "setUserPasscode" -> Code
                     [] call = "deleteUserPasscode" -> None
                     [] OTHER -> keychain.userPasscode
           mnemonics == CASE call = "mnemonics" -> phrase
                          [] call = "deleteMnemonics" -> None
                          [] OTHER -> keychain.mnemonics
           seed == IF call = "seed" THEN phrase ELSE keychain.seed
           solana == IF call = "solanaSeed" THEN phrase
                     ELSE keychain.solanaSeed
<1>4. After(call, phrase) =
        [keychain EXCEPT !.seed = seed, !.solanaSeed = solana,
                         !.mnemonics = mnemonics, !.userPasscode = code]
  BY <1>1 DEF After
<1>5. /\ call # "mnemonics" => mnemonics \in {keychain.mnemonics, None}
      /\ call = "mnemonics" => mnemonics = phrase
  OBVIOUS
<1>6. /\ call # "seed" => seed = keychain.seed
      /\ call = "seed" => seed = phrase
      /\ call # "solanaSeed" => solana = keychain.solanaSeed
      /\ call = "solanaSeed" => solana = phrase
  OBVIOUS
<1> HIDE DEF code, mnemonics, seed, solana
<1>7. /\ After(call, phrase).seed = seed
      /\ After(call, phrase).solanaSeed = solana
      /\ After(call, phrase).mnemonics = mnemonics
  BY <1>1, <1>4 DEF Keychain
<1>8. CASE ok
  <2>1. /\ keychain'.seed = seed /\ keychain'.solanaSeed = solana
        /\ keychain'.mnemonics = mnemonics
    BY <1>2, <1>7, <1>8
  <2>2. QED
    BY <1>1, <1>5, <1>6, <2>1
<1>9. CASE ~ ok
  <2>1. keychain' = keychain
    BY <1>2, <1>9
  <2>2. QED
    BY <1>1, <1>3, <1>9, <2>1
<1>10. QED
  BY <1>8, <1>9

(* The queue after a call.                                                 *)
LEMMA CallQueues ==
    ASSUME SessionTypeOK, Queued, NEW t \in Tasks, NEW queue \in Seq(Tasks),
           Without(waiting, queue, t), NEW kind \in Kinds,
           NEW call \in KeychainCalls, NEW phrase \in Optional,
           Call(task, t, queue, kind, call, phrase)
    PROVE  /\ Queued'
           /\ \A u, v \in Tasks : u # t /\ v # t =>
                 (Before(waiting', u, v) <=> Before(waiting, u, v))
           /\ \A u \in Tasks : u # t => ~ Before(waiting', t, u)
<1>1. waiting' = Append(queue, t)
  BY DEF Call
<1>2. /\ Once(waiting') /\ Holds(waiting', t)
      /\ \A u \in Tasks : u # t =>
            /\ Holds(waiting', u) <=> Holds(queue, u)
            /\ ~ Before(waiting', t, u)
      /\ \A u, v \in Tasks : u # t /\ v # t =>
            (Before(waiting', u, v) <=> Before(queue, u, v))
  BY <1>1, AppendFacts DEF Without
<1>3. task \in [Tasks -> Task]
  BY DEF SessionTypeOK
<1>4. /\ \A u \in Tasks : u # t => task'[u] = task[u]
      /\ task'[t].kind = kind /\ task'[t].at = call
  BY <1>3, CallFacts
<1>5. \A u \in Tasks : Holds(waiting', u) <=>
         task'[u].kind # "none" /\ task'[u].at # "register"
  <2>1. kind # "none" /\ call # "register"
    BY DEF Kinds, KeychainCalls, Sets
  <2>2. ASSUME NEW u \in Tasks, u # t
        PROVE  Holds(waiting', u) <=>
                  task'[u].kind # "none" /\ task'[u].at # "register"
    BY <1>2, <1>4, <2>2 DEF Without, Queued, Running
  <2>3. QED
    BY <1>2, <1>4, <2>1, <2>2
<1>6. Queued'
  BY <1>2, <1>5 DEF Queued, Running
<1>7. QED
  BY <1>2, <1>6 DEF Without

(* Nobody calls for a secret or has one to store.                          *)
LEMMA QuietWins ==
    ASSUME SessionTypeOK, SessionTypeOK', LastWins,
           stages' = stages, torn' = torn,
           \A u \in Tasks : stages[u] # 0 => task'[u] = task[u],
           \A u \in Tasks, k \in 1 .. 3 :
              Newest(stages, waiting', u, k) => Newest(stages, waiting, u, k),
           keychain'.seed = keychain.seed,
           keychain'.solanaSeed = keychain.solanaSeed,
           keychain'.mnemonics \in {keychain.mnemonics, None}
    PROVE  LastWins'
<1> SUFFICES ASSUME Whole'  PROVE
      /\ \A t \in Tasks :
            /\ Newest(stages, waiting', t, 1) =>
                  keychain'.seed = task'[t].phrase
            /\ Newest(stages, waiting', t, 2) =>
                  keychain'.solanaSeed = task'[t].phrase
            /\ Newest(stages, waiting', t, 3) =>
                  keychain'.mnemonics \in {task'[t].phrase, None}
      /\ (\A t \in Tasks : stages[t] = 0) =>
            /\ keychain'.solanaSeed = keychain'.seed
            /\ keychain'.mnemonics \in {keychain'.seed, None}
  BY DEF LastWins
<1>1. Whole
  BY DEF Whole
<1>2. ASSUME NEW t \in Tasks, NEW k \in 1 .. 3, Newest(stages, waiting', t, k)
      PROVE  Newest(stages, waiting, t, k) /\ task'[t] = task[t]
  <2>1. Newest(stages, waiting, t, k)
    BY <1>2
  <2>2. k <= stages[t]
    BY <2>1 DEF Newest
  <2>3. stages[t] # 0
    BY <2>2
  <2>4. QED
    BY <2>1, <2>3
<1>3. 1 \in 1 .. 3 /\ 2 \in 1 .. 3 /\ 3 \in 1 .. 3
  OBVIOUS
<1>4. QED
  BY <1>1, <1>2, <1>3 DEF LastWins

(* t calls for no secret.                                                  *)
LEMMA QuietCall ==
    ASSUME SessionTypeOK, SessionTypeOK', Queued, LastWins, NEW t \in Tasks,
           NEW queue \in Seq(Tasks), Without(waiting, queue, t),
           NEW kind \in Kinds, NEW call \in KeychainCalls \ Sets,
           NEW phrase \in Optional, stages[t] = 0, torn' = torn,
           Call(task, t, queue, kind, call, phrase)
    PROVE  /\ Queued' /\ LastWins'
           /\ \A u \in Tasks : u # t => task'[u] = task[u]
           /\ ~ Writing(t)'
           /\ keychain'.seed = keychain.seed
<1>1. task \in [Tasks -> Task]
  BY DEF SessionTypeOK
<1>2. /\ \A u \in Tasks : u # t => task'[u] = task[u]
      /\ task'[t].at = call
  BY <1>1, CallFacts
<1>3. /\ keychain'.seed = keychain.seed
      /\ keychain'.solanaSeed = keychain.solanaSeed
      /\ keychain'.mnemonics \in {keychain.mnemonics, None}
  BY <1>1, SecretFacts DEF Sets
<1>4. /\ Queued'
      /\ \A u, v \in Tasks : u # t /\ v # t =>
            (Before(waiting', u, v) <=> Before(waiting, u, v))
  BY CallQueues
<1>5. call # "register"
  BY DEF KeychainCalls, Sets
<1>6. stages'[t] = 0 /\ ~ Writing(t)'
  BY <1>2, <1>5, StageFactsNext
<1>7. stages \in [Tasks -> 0 .. 3] /\ stages' \in [Tasks -> 0 .. 3]
  BY StageFacts, StageFactsNext
<1>8. \A u \in Tasks : stages'[u] = stages[u]
  BY <1>2, <1>6, StageFacts, StageFactsNext
<1>9. stages' = stages
  BY <1>7, <1>8
<1>10. \A u \in Tasks, k \in 1 .. 3 :
          Newest(stages, waiting', u, k) => Newest(stages, waiting, u, k)
  BY <1>4, <1>7, QuietOrder
<1>11. LastWins'
  BY <1>2, <1>3, <1>9, <1>10, QuietWins
<1>12. QED
  BY <1>2, <1>3, <1>4, <1>6, <1>11

(* t calls for the next secret of its wallet.                              *)
LEMMA NextCall ==
    ASSUME SessionTypeOK, SessionTypeOK', Queued, LastWins, NEW t \in Tasks,
           NEW queue \in Seq(Tasks), Without(waiting, queue, t),
           NEW kind \in Kinds, NEW call \in Sets, NEW phrase \in Optional,
           StageOf([kind |-> kind, at |-> call]) = stages[t] + 1,
           stages[t] # 0 =>
              /\ task[t].ok /\ phrase = task[t].phrase
              /\ \A u \in Tasks :
                    u # t /\ stages[u] # 0 => Before(waiting, t, u),
           torn' = torn,
           Call(task, t, queue, kind, call, phrase)
    PROVE  /\ Queued' /\ LastWins'
           /\ Writing(t)'
<1> DEFINE n == stages[t] + 1
<1>1. task \in [Tasks -> Task] /\ call \in KeychainCalls /\ kind # "none"
  BY DEF SessionTypeOK, KeychainCalls, Kinds
<1>2. /\ \A u \in Tasks : u # t => task'[u] = task[u]
      /\ task'[t].kind = kind /\ task'[t].at = call /\ task'[t].phrase = phrase
  BY <1>1, CallFacts
<1>3. /\ call # "seed" => keychain'.seed = keychain.seed
      /\ call # "solanaSeed" => keychain'.solanaSeed = keychain.solanaSeed
      /\ call # "mnemonics" =>
            keychain'.mnemonics \in {keychain.mnemonics, None}
      /\ task'[t].ok =>
            /\ call = "seed" => keychain'.seed = phrase
            /\ call = "solanaSeed" => keychain'.solanaSeed = phrase
            /\ call = "mnemonics" => keychain'.mnemonics = phrase
  BY <1>1, SecretFacts
<1>4. /\ Queued'
      /\ \A u, v \in Tasks : u # t /\ v # t =>
            (Before(waiting', u, v) <=> Before(waiting, u, v))
      /\ \A u \in Tasks : u # t => ~ Before(waiting', t, u)
  BY <1>1, CallQueues
<1>5. stages \in [Tasks -> 0 .. 3] /\ stages' \in [Tasks -> 0 .. 3]
  BY StageFacts, StageFactsNext
<1>6. \A u \in Tasks : u # t => stages'[u] = stages[u]
  BY <1>2, StageFacts, StageFactsNext
<1>7. /\ stages'[t] = n /\ n \in 1 .. 3 /\ stages[t] = n - 1
      /\ n = 1 <=> call = "seed"
      /\ n = 2 <=> call = "solanaSeed"
      /\ n = 3 <=> call = "mnemonics"
  <2>1. stages'[t] = StageOf([kind |-> kind, at |-> call])
    BY <1>2, StageFactsNext DEF StageOf
  <2>2. /\ stages'[t] = 1 <=> call = "seed"
        /\ stages'[t] = 2 <=> call = "solanaSeed"
        /\ stages'[t] = 3 <=> call = "mnemonics"
    BY <1>1, <2>1 DEF StageOf, Sets
  <2>3. QED
    BY <1>5, <2>1, <2>2
<1>8. Writing(t)'
  BY <1>7, StageFactsNext
<1> HIDE DEF n
<1>9. \A y \in Tasks, k \in 1 .. 3 :
         Newest(stages', waiting', y, k) =>
            (k = n /\ y = t) \/ (k # n /\ Newest(stages, waiting, y, k))
  <2>1. n > 1 => \A u \in Tasks :
           u # t /\ stages[u] # 0 => Before(waiting, t, u)
    BY <1>7
  <2>2. stages'[t] = stages[t] + 1 /\ (stages[t] # 0 => n > 1)
    BY <1>7
  <2>3. \A y \in Tasks, k \in 1 .. 3 :
           Newest(stages', waiting', y, k) =>
              \/ k = stages'[t] /\ y = t
              \/ k # stages'[t] /\ Newest(stages, waiting, y, k)
    BY <1>4, <1>5, <1>6, <2>1, <2>2, NextOrder
  <2>4. QED
    BY <1>7, <2>3
<1>10. ASSUME Whole'  PROVE Whole /\ task'[t].ok
  <2>1. ASSUME NEW u \in Tasks, stages[u] # 0  PROVE task[u].ok
    <3>1. u # t => (stages'[u] # 0 => task'[u].ok)
      BY <1>10 DEF Whole
    <3>2. QED
      BY <1>2, <1>6, <2>1, <3>1
  <2>2. stages'[t] # 0
    BY <1>7
  <2>3. QED
    BY <1>10, <2>1, <2>2 DEF Whole
<1>11. \A u \in Tasks : stages[u] # 0 => task'[u].phrase = task[u].phrase
  BY <1>2
<1>12. ASSUME NEW y \in Tasks, NEW k \in 1 .. 3, Newest(stages, waiting, y, k)
       PROVE  task'[y].phrase = task[y].phrase
  <2>1. k <= stages[y]
    BY <1>12 DEF Newest
  <2>2. stages[y] # 0
    BY <2>1
  <2>3. QED
    BY <1>11, <2>2
<1>13. LastWins'
  <2> SUFFICES ASSUME Whole'  PROVE
        /\ \A y \in Tasks :
              /\ Newest(stages', waiting', y, 1) =>
                    keychain'.seed = task'[y].phrase
              /\ Newest(stages', waiting', y, 2) =>
                    keychain'.solanaSeed = task'[y].phrase
              /\ Newest(stages', waiting', y, 3) =>
                    keychain'.mnemonics \in {task'[y].phrase, None}
        /\ \E y \in Tasks : stages'[y] # 0
    BY DEF LastWins
  <2>1. /\ 1 \in 1 .. 3 /\ 2 \in 1 .. 3 /\ 3 \in 1 .. 3
    OBVIOUS
  <2>2. ASSUME NEW y \in Tasks, Newest(stages', waiting', y, 1)
        PROVE  keychain'.seed = task'[y].phrase
    BY <1>2, <1>3, <1>7, <1>9, <1>10, <1>12, <2>1, <2>2 DEF LastWins
  <2>3. ASSUME NEW y \in Tasks, Newest(stages', waiting', y, 2)
        PROVE  keychain'.solanaSeed = task'[y].phrase
    BY <1>2, <1>3, <1>7, <1>9, <1>10, <1>12, <2>1, <2>3 DEF LastWins
  <2>4. ASSUME NEW y \in Tasks, Newest(stages', waiting', y, 3)
        PROVE  keychain'.mnemonics \in {task'[y].phrase, None}
    BY <1>2, <1>3, <1>7, <1>9, <1>10, <1>12, <2>1, <2>4 DEF LastWins
  <2>5. stages'[t] # 0
    BY <1>7
  <2>6. QED
    BY <2>2, <2>3, <2>4, <2>5
<1>14. QED
  BY <1>4, <1>8, <1>13

(* t, at the head of the queue, goes: it wrote nothing, its last secret is *)
(* stored, or it was cut short.                                            *)
LEMMA QuietLeave ==
    ASSUME SessionTypeOK, SessionTypeOK', Queued, LastWins, NEW t \in Tasks,
           waiting # <<>>, Head(waiting) = t, waiting' = Tail(waiting),
           ~ Running(t)' \/ task'[t].at = "register",
           \A u \in Tasks : u # t => task'[u] = task[u],
           UNCHANGED keychain,
           \/ stages[t] = 0 /\ torn' = torn
           \/ stages[t] = 3 /\ torn' = torn /\ task[t].ok
           \/ torn'
    PROVE  Queued' /\ LastWins'
<1>1. /\ Without(waiting, waiting', t) /\ Running(t)
      /\ \A u \in Tasks : u # t /\ stages[u] # 0 => Before(waiting, t, u)
  BY HeadFacts
<1>2. Queued'
  <2>1. Once(waiting') /\ ~ Holds(waiting', t)
    BY <1>1 DEF Without
  <2>2. ASSUME NEW u \in Tasks, u # t
        PROVE  Holds(waiting', u) <=> Running(u)' /\ task'[u].at # "register"
    BY <1>1, <2>2 DEF Without, Queued, Running
  <2>3. QED
    BY <2>1, <2>2 DEF Queued
<1>3. stages'[t] = 0
  BY StageFactsNext DEF Sets
<1>4. stages \in [Tasks -> 0 .. 3] /\ stages' \in [Tasks -> 0 .. 3]
  BY StageFacts, StageFactsNext
<1>5. \A u \in Tasks : u # t => stages'[u] = stages[u]
  BY StageFacts, StageFactsNext
<1>6. \A u, v \in Tasks : u # t /\ v # t =>
         (Before(waiting', u, v) <=> Before(waiting, u, v))
  BY <1>1 DEF Without
<1>7. CASE stages[t] = 0 /\ torn' = torn
  <2>1. stages' = stages
    BY <1>3, <1>4, <1>5, <1>7
  <2>2. \A u \in Tasks, k \in 1 .. 3 :
           Newest(stages, waiting', u, k) => Newest(stages, waiting, u, k)
    BY <1>4, <1>6, <1>7, QuietOrder
  <2>3. \A u \in Tasks : stages[u] # 0 => task'[u] = task[u]
    BY <1>7
  <2>4. LastWins'
    BY <1>7, <2>1, <2>2, <2>3, QuietWins
  <2>5. QED
    BY <1>2, <2>4
<1>8. CASE stages[t] = 3 /\ torn' = torn /\ task[t].ok
  <2>a. \A y \in Tasks, k \in 1 .. 3 :
           Newest(stages', waiting', y, k) => Newest(stages, waiting, y, k)
    <3>1. \A u \in Tasks : u # t /\ stages[u] # 0 => Before(waiting, t, u)
      BY <1>1
    <3>2. stages[t] = 3
      BY <1>8
    <3>3. QED
      BY <1>3, <1>4, <1>5, <1>6, <3>1, <3>2, LastOrder
  <2>1. ASSUME NEW y \in Tasks, NEW k \in 1 .. 3,
               Newest(stages', waiting', y, k)
        PROVE  Newest(stages, waiting, y, k) /\ task'[y] = task[y]
    <3>1. Newest(stages, waiting, y, k)
      BY <2>a, <2>1
    <3>2. k <= stages'[y]
      BY <2>1 DEF Newest
    <3>3. y # t
      BY <1>3, <3>2
    <3>4. QED
      BY <3>1, <3>3
  <2>2. ASSUME Whole'  PROVE Whole
    <3>1. ASSUME NEW u \in Tasks, stages[u] # 0  PROVE task[u].ok
      BY <1>5, <1>8, <2>2, <3>1 DEF Whole
    <3>2. QED
      BY <1>8, <2>2, <3>1 DEF Whole
  <2>3. ASSUME Whole, \A u \in Tasks : stages'[u] = 0
        PROVE  /\ keychain.solanaSeed = keychain.seed
               /\ keychain.mnemonics \in {keychain.seed, None}
    <3>1. \A k \in 1 .. 3 : Newest(stages, waiting, t, k)
      <4>1. \A u \in Tasks : u # t => stages[u] = 0
        BY <1>5, <2>3
      <4>2. QED
        BY <1>8, <4>1 DEF Newest
    <3>2. /\ Newest(stages, waiting, t, 1) /\ Newest(stages, waiting, t, 2)
          /\ Newest(stages, waiting, t, 3)
      BY <3>1
    <3>3. QED
      BY <2>3, <3>2 DEF LastWins
  <2>4. 1 \in 1 .. 3 /\ 2 \in 1 .. 3 /\ 3 \in 1 .. 3
    OBVIOUS
  <2>5. LastWins'
    BY <2>1, <2>2, <2>3, <2>4 DEF LastWins
  <2>6. QED
    BY <1>2, <2>5
<1>9. CASE torn'
  BY <1>2, <1>9 DEF LastWins, Whole
<1>10. QED
  BY <1>7, <1>8, <1>9

-----------------------------------------------------------------------------
(* Nothing is pushed on a Mnemonics screen.                                *)
MnemonicsOnTop ==
    \A i \in DOMAIN stack : i < Len(stack) => stack[i].name # "Mnemonics"

(* Settled, the wallets are those of the stored keys, and a Mnemonics      *)
(* screen read their phrase, or none.                                      *)
WalletIsLast ==
    Settled =>
       /\ wallets # None => wallets = keychain.seed
       /\ OnTop("Mnemonics") => /\ Focused.read \in {None, wallets}
                                /\ Focused.words \in {None, wallets}

SecretsInv ==
    SessionInv /\ Queued /\ LastWins /\ MnemonicsOnTop /\ WalletIsLast

(* A screen comes up in place of the focused one.                          *)
LEMMA OtherScreen ==
    ASSUME SessionTypeOK, MnemonicsOnTop, NEW s \in Screen, Replace(s)
    PROVE  /\ MnemonicsOnTop' /\ Focused' = s
           /\ s.name # "Mnemonics" => ~ OnTop("Mnemonics")'
<1>1. /\ DOMAIN stack' = DOMAIN stack /\ Len(stack') = Len(stack)
      /\ stack'[Len(stack')] = s
      /\ \A i \in DOMAIN stack' : i < Len(stack) => stack'[i] = stack[i]
  BY ReplaceFacts
<1>2. QED
  BY <1>1 DEF MnemonicsOnTop, Focused, OnTop

(* Nobody began or ended to write, and the wallets are the same.           *)
LEMMA SettledKeeps ==
    ASSUME WalletIsLast, UNCHANGED <<wallets, torn, overtaken>>,
           \A u \in Tasks : Writing(u) => Writing(u)',
           keychain'.seed = keychain.seed,
           OnTop("Mnemonics")' => OnTop("Mnemonics") /\ Focused' = Focused
    PROVE  WalletIsLast'
<1> SUFFICES ASSUME Settled'  PROVE
      /\ wallets # None => wallets = keychain.seed
      /\ OnTop("Mnemonics")' => /\ Focused.read \in {None, wallets}
                                /\ Focused.words \in {None, wallets}
  BY DEF WalletIsLast
<1>1. Settled
  BY DEF Settled
<1>2. QED
  BY <1>1 DEF WalletIsLast

(* A task that stores no secret goes on with a call.                       *)
LEMMA QuietAwait ==
    ASSUME SecretsInv, SessionInv', NEW t \in Tasks,
           NEW queue \in Seq(Tasks), Without(waiting, queue, t),
           NEW kind \in Kinds, NEW call \in KeychainCalls \ Sets,
           NEW phrase \in Optional, ~ Writing(t),
           Await(t, queue, kind, call, phrase),
           UNCHANGED <<wallets, stack, torn, overtaken>>
    PROVE  SecretsInv'
<1>1. SessionTypeOK /\ SessionTypeOK' /\ Queued /\ LastWins
  BY DEF SecretsInv, SessionInv
<1>2. stages[t] = 0
  BY <1>1, StageFacts
<1>3. /\ Queued' /\ LastWins'
      /\ \A u \in Tasks : u # t => task'[u] = task[u]
      /\ keychain'.seed = keychain.seed
  BY <1>1, <1>2, QuietCall DEF Await
<1>4. \A u \in Tasks : Writing(u) => Writing(u)'
  BY <1>3 DEF Writing, Running
<1>5. MnemonicsOnTop'
  BY DEF SecretsInv, MnemonicsOnTop
<1>6. WalletIsLast'
  BY <1>3, <1>4, SettledKeeps DEF SecretsInv, OnTop, Focused
<1>7. QED
  BY <1>3, <1>5, <1>6 DEF SecretsInv

(* A task calls for a secret.                                              *)
LEMMA WriteAwait ==
    ASSUME SecretsInv, SessionInv', NEW t \in Tasks,
           NEW queue \in Seq(Tasks), Without(waiting, queue, t),
           NEW kind \in Kinds, NEW call \in Sets, NEW phrase \in Optional,
           StageOf([kind |-> kind, at |-> call]) = stages[t] + 1,
           stages[t] # 0 =>
              /\ task[t].ok /\ phrase = task[t].phrase
              /\ \A u \in Tasks :
                    u # t /\ stages[u] # 0 => Before(waiting, t, u),
           Await(t, queue, kind, call, phrase),
           UNCHANGED <<wallets, stack, torn, overtaken>>
    PROVE  SecretsInv'
<1>1. SessionTypeOK /\ SessionTypeOK' /\ Queued /\ LastWins
  BY DEF SecretsInv, SessionInv
<1>2. Queued' /\ LastWins' /\ Writing(t)'
  BY <1>1, NextCall DEF Await
<1>3. MnemonicsOnTop'
  BY DEF SecretsInv, MnemonicsOnTop
<1>4. WalletIsLast'
  BY <1>2 DEF WalletIsLast, Settled
<1>5. QED
  BY <1>2, <1>3, <1>4 DEF SecretsInv

(* A task that stores no secret ends, and may bring up a screen.           *)
LEMMA QuietEnd ==
    ASSUME SecretsInv, SessionInv', NEW t \in Tasks, ~ Writing(t),
           waiting # <<>>, Head(waiting) = t, Ends(t),
           UNCHANGED <<wallets, torn, overtaken>>,
           \/ UNCHANGED stack
           \/ \E s \in Screen : Replace(s) /\ s.name # "Mnemonics"
    PROVE  SecretsInv'
<1>1. SessionTypeOK /\ SessionTypeOK' /\ Queued /\ LastWins /\ MnemonicsOnTop
  BY DEF SecretsInv, SessionInv
<1>2. /\ waiting' = Tail(waiting) /\ task' = [task EXCEPT ![t] = Idle]
      /\ UNCHANGED keychain
  BY DEF Ends
<1>3. /\ \A u \in Tasks : u # t => task'[u] = task[u]
      /\ ~ Running(t)'
  BY <1>1, <1>2 DEF SessionTypeOK, Running, Idle
<1>4. stages[t] = 0
  BY <1>1, StageFacts
<1>5. Queued' /\ LastWins'
  BY <1>1, <1>2, <1>3, <1>4, QuietLeave
<1>6. \A u \in Tasks : Writing(u) => Writing(u)'
  BY <1>3 DEF Writing, Running
<1>7. MnemonicsOnTop' /\ WalletIsLast'
  <2>1. CASE UNCHANGED stack
    BY <1>1, <1>2, <1>6, <2>1, SettledKeeps
       DEF SecretsInv, MnemonicsOnTop, OnTop, Focused
  <2>2. CASE \E s \in Screen : Replace(s) /\ s.name # "Mnemonics"
    <3>1. MnemonicsOnTop' /\ ~ OnTop("Mnemonics")'
      BY <1>1, <2>2, OtherScreen
    <3>2. QED
      BY <1>2, <1>6, <3>1, SettledKeeps DEF SecretsInv
  <2>3. QED
    BY <2>1, <2>2
<1>8. QED
  BY <1>5, <1>7 DEF SecretsInv

(* The stack alone changes.                                                *)
LEMMA ScreenMoves ==
    ASSUME SecretsInv, SessionInv', MnemonicsOnTop',
           UNCHANGED <<keychain, wallets, task, waiting, torn, overtaken>>,
           Settled /\ OnTop("Mnemonics")' =>
              /\ Focused'.read \in {None, wallets}
              /\ Focused'.words \in {None, wallets}
    PROVE  SecretsInv'
<1>1. stages' = stages
  BY DEF stages
<1>2. Queued'
  BY DEF SecretsInv, Queued, Running
<1>3. LastWins'
  <2>1. SessionTypeOK /\ SessionTypeOK' /\ LastWins
    BY DEF SecretsInv, SessionInv
  <2>2. QED
    BY <1>1, <2>1, QuietWins
<1>4. WalletIsLast'
  <2>1. Settled' <=> Settled
    BY DEF Settled, Writing, Running
  <2>2. QED
    BY <2>1 DEF SecretsInv, WalletIsLast
<1>5. QED
  BY <1>2, <1>3, <1>4 DEF SecretsInv

LEMMA InitSecrets == SessionInit => SecretsInv
<1> SUFFICES ASSUME SessionInit  PROVE  SecretsInv
  OBVIOUS
<1>1. SessionInv /\ SessionTypeOK
  BY InitInv DEF SessionInv
<1>2. PICK t \in Tasks :
        /\ stack = <<PasscodeScreen(t)>> /\ waiting = <<t>>
        /\ task = [u \in Tasks |-> IF u = t
              THEN [kind |-> "check", at |-> "deleteUserPasscode",
                    phrase |-> None, ok |-> TRUE, answer |-> None]
              ELSE Idle]
  BY DEF SessionInit
<1>3. /\ keychain.seed = None /\ keychain.solanaSeed = None
      /\ keychain.mnemonics = None /\ wallets = None
  BY DEF SessionInit
<1>4. /\ Running(t) /\ task[t].at = "deleteUserPasscode"
      /\ \A u \in Tasks : u # t => ~ Running(u)
  BY <1>2 DEF Running, Idle
<1>5. Queued
  BY <1>2, <1>4 DEF Queued, Once, Holds
<1>6. \A u \in Tasks : stages[u] = 0
  BY <1>1, <1>4, StageFacts DEF Sets
<1>7. LastWins
  BY <1>3, <1>6 DEF LastWins, Newest
<1>8. MnemonicsOnTop /\ ~ OnTop("Mnemonics")
  BY <1>2 DEF MnemonicsOnTop, OnTop, Focused, PasscodeScreen
<1>9. WalletIsLast
  BY <1>3, <1>8 DEF WalletIsLast
<1>10. QED
  BY <1>1, <1>5, <1>7, <1>8, <1>9 DEF SecretsInv

LEMMA StepSecrets == SecretsInv /\ [SessionNext]_sessionVars => SecretsInv'
<1> SUFFICES ASSUME SecretsInv, [SessionNext]_sessionVars
             PROVE  SecretsInv'
  OBVIOUS
<1>0. /\ SessionInv /\ SessionInv' /\ SessionTypeOK /\ SessionTypeOK'
      /\ Queued /\ LastWins /\ MnemonicsOnTop /\ WalletIsLast
      /\ waiting \in Seq(Tasks) /\ task \in [Tasks -> Task]
      /\ stages \in [Tasks -> 0 .. 3]
  BY StepInv, StageFacts DEF SecretsInv, SessionInv, SessionTypeOK
<1>a. ASSUME NEW t \in Tasks, NEW call, Answered(t, call)
      PROVE  /\ waiting # <<>> /\ Head(waiting) = t
             /\ Running(t) /\ task[t].at = call /\ task[t].ok
             /\ task[t] \in Task /\ task[t].kind \in Kinds
             /\ task[t].phrase \in Optional
             /\ Without(waiting, Tail(waiting), t)
             /\ Tail(waiting) \in Seq(Tasks)
             /\ \A u \in Tasks :
                   u # t /\ stages[u] # 0 => Before(waiting, t, u)
             /\ call \notin Sets /\ call # "register" => ~ Writing(t)
  <2>1. /\ waiting # <<>> /\ Head(waiting) = t /\ Running(t)
        /\ task[t].at = call /\ task[t].ok /\ task[t] \in Task
    BY <1>0, <1>a DEF Answered
  <2>2. task[t].kind \in Kinds /\ task[t].phrase \in Optional
    BY <1>0, <2>1, RunningFacts
  <2>3. /\ Without(waiting, Tail(waiting), t)
        /\ \A u \in Tasks : u # t /\ stages[u] # 0 => Before(waiting, t, u)
    BY <1>0, <2>1, HeadFacts
  <2>4. QED
    BY <2>1, <2>2, <2>3 DEF Without, Writing
<1>b. /\ None \in Optional /\ \A p \in Phrases : p \in Optional /\ p # None
      /\ Generated \in Phrases
  BY SessionAssumption DEF Optional
<1>c. ASSUME NEW t \in Tasks, ~ Running(t) \/ task[t].at = "register"
      PROVE  /\ Without(waiting, waiting, t) /\ stages[t] = 0
             /\ ~ Running(t) => ~ Writing(t)
  BY <1>0, <1>c, OutFacts DEF Writing
<1>d. /\ {"check", "setPasscode", "verify", "create", "import"} = Kinds
      /\ {"setUserPasscode", "deleteUserPasscode", "deleteMnemonics",
          "getUserPasscode", "getMnemonics"} = KeychainCalls \ Sets
  BY DEF Kinds, KeychainCalls, Sets
<1>1. ASSUME NEW t \in Tasks, CheckDeletes(t)  PROVE SecretsInv'
  BY <1>0, <1>1, <1>a, <1>b, <1>d, QuietAwait DEF CheckDeletes, Sets
<1>2. ASSUME NEW t \in Tasks, CheckAsks(t)  PROVE SecretsInv'
  BY <1>0, <1>2, <1>a, <1>b, <1>d, QuietAwait DEF CheckAsks, Sets
<1>3. ASSUME NEW t \in Tasks, HandleSetPasscode(t)  PROVE SecretsInv'
  BY <1>0, <1>3, <1>b, <1>c, <1>d, QuietAwait DEF HandleSetPasscode
<1>4. ASSUME NEW t \in Tasks, HandleVerifyPasscode(t)  PROVE SecretsInv'
  BY <1>0, <1>4, <1>b, <1>c, <1>d, QuietAwait DEF HandleVerifyPasscode
<1>5. ASSUME NEW t \in Tasks, PasscodeRight(t)  PROVE SecretsInv'
  BY <1>0, <1>5, <1>a, <1>b, <1>d, QuietAwait DEF PasscodeRight, Sets
<1>6. ASSUME NEW t \in Tasks, ImportStored(t)  PROVE SecretsInv'
  <2>1. /\ Answered(t, "getMnemonics") /\ task[t].answer \in Optional
        /\ Await(t, Tail(waiting), "verify", "seed", task[t].answer)
        /\ UNCHANGED <<wallets, stack, torn, overtaken>>
    BY <1>6, <1>b DEF ImportStored
  <2>2. stages[t] = 0
    BY <1>0, <1>a, <2>1, StageFacts DEF Sets
  <2>3. StageOf([kind |-> "verify", at |-> "seed"]) = stages[t] + 1
    BY <2>2 DEF StageOf, Sets
  <2>4. "verify" \in Kinds /\ "seed" \in Sets
    BY DEF Kinds, Sets
  <2>5. QED
    BY <1>0, <1>a, <2>1, <2>2, <2>3, <2>4, WriteAwait
<1>e. ASSUME NEW t \in Tasks, NEW kind \in {"create", "import"},
             NEW phrase \in Phrases, ~ Running(t),
             Await(t, waiting, kind, "seed", phrase),
             UNCHANGED <<wallets, stack, torn, overtaken>>
      PROVE  SecretsInv'
  <2>1. Without(waiting, waiting, t) /\ stages[t] = 0
    BY <1>c, <1>e
  <2>2. StageOf([kind |-> kind, at |-> "seed"]) = stages[t] + 1
    BY <2>1 DEF StageOf, Sets
  <2>3. kind \in Kinds /\ "seed" \in Sets
    BY DEF Kinds, Sets
  <2>4. QED
    BY <1>0, <1>b, <1>e, <2>1, <2>2, <2>3, WriteAwait
<1>7. ASSUME NEW t \in Tasks, HandleCreateWallet(t)  PROVE SecretsInv'
  BY <1>7, <1>b, <1>e DEF HandleCreateWallet
<1>8. ASSUME NEW t \in Tasks, ImportAndStoreWallets(t)  PROVE SecretsInv'
  BY <1>8, <1>e DEF ImportAndStoreWallets
<1>f. ASSUME NEW t \in Tasks, NEW call \in Sets, NEW next \in Sets,
             Answered(t, call),
             \/ call = "seed" /\ next = "solanaSeed"
             \/ call = "solanaSeed" /\ next = "mnemonics",
             Await(t, Tail(waiting), task[t].kind, next, task[t].phrase),
             UNCHANGED <<wallets, stack, torn, overtaken>>
      PROVE  SecretsInv'
  <2>1. StageOf([kind |-> task[t].kind, at |-> next]) = stages[t] + 1
    BY <1>0, <1>a, <1>f, StageFacts DEF StageOf, Sets, Running
  <2>2. QED
    BY <1>0, <1>a, <1>f, <2>1, WriteAwait
<1>9. ASSUME NEW t \in Tasks, SeedSet(t)  PROVE SecretsInv'
  <2>1. "seed" \in Sets /\ "solanaSeed" \in Sets
    BY DEF Sets
  <2>2. QED
    BY <1>9, <1>f, <2>1 DEF SeedSet
<1>10. ASSUME NEW t \in Tasks, SolanaSeedSet(t)  PROVE SecretsInv'
  <2>1. "solanaSeed" \in Sets /\ "mnemonics" \in Sets
    BY DEF Sets
  <2>2. QED
    BY <1>10, <1>f, <2>1 DEF SolanaSeedSet
<1>11. ASSUME NEW t \in Tasks, CheckEnds(t)  PROVE SecretsInv'
  <2>1. /\ Answered(t, "getUserPasscode") /\ Ends(t)
        /\ UNCHANGED <<wallets, torn, overtaken>>
    BY <1>11 DEF CheckEnds
  <2>2. UNCHANGED stack
        \/ \E s \in Screen : Replace(s) /\ s.name # "Mnemonics"
    <3>1. CASE OnTop("Passcode") /\ Focused.check = t
      <4>1. PICK s : s = [Focused EXCEPT !.check = None,
                                         !.setting = task[t].answer = None]
        OBVIOUS
      <4>2. Focused \in Screen /\ Focused.name = "Passcode"
        BY <1>0, <3>1 DEF SessionTypeOK, Focused, OnTop
      <4>3. s \in Screen /\ s.name = "Passcode"
        BY <4>1, <4>2 DEF Screen
      <4>4. QED
        BY <1>11, <3>1, <4>1, <4>3 DEF CheckEnds
    <3>2. QED
      BY <1>11, <3>1 DEF CheckEnds
  <2>3. QED
    BY <1>0, <1>a, <2>1, <2>2, QuietEnd DEF Sets
<1>g. \A name \in {"Initial", "MnemonicsConfirmation", "WalletDashboard",
                   "ImportWallet", "WalletSettings"} :
         Plain(name) \in Screen /\ Plain(name).name # "Mnemonics"
  BY ScreenTypes
<1>12. ASSUME NEW t \in Tasks, PasscodeSet(t)  PROVE SecretsInv'
  BY <1>0, <1>12, <1>a, <1>g, QuietEnd DEF PasscodeSet, Sets
<1>13. ASSUME NEW t \in Tasks, NoMnemonics(t)  PROVE SecretsInv'
  BY <1>0, <1>13, <1>a, <1>g, QuietEnd DEF NoMnemonics, Sets
<1>14. ASSUME NEW t \in Tasks, PasscodeWrong(t)  PROVE SecretsInv'
  BY <1>0, <1>14, <1>a, QuietEnd DEF PasscodeWrong, Sets
<1>15. ASSUME NEW t \in Tasks, Rejected(t)  PROVE SecretsInv'
  <2>1. /\ waiting # <<>> /\ Head(waiting) = t /\ Ends(t)
        /\ torn' = (torn \/ Writing(t))
        /\ UNCHANGED <<wallets, stack, overtaken>>
    BY <1>15 DEF Rejected, Ends
  <2>2. CASE Writing(t)
    <3>1. /\ waiting' = Tail(waiting) /\ task' = [task EXCEPT ![t] = Idle]
          /\ UNCHANGED keychain /\ torn'
      BY <2>1, <2>2 DEF Ends
    <3>2. ~ Running(t)' /\ \A u \in Tasks : u # t => task'[u] = task[u]
      BY <1>0, <3>1 DEF Running, Idle
    <3>3. Queued' /\ LastWins'
      BY <1>0, <2>1, <3>1, <3>2, QuietLeave
    <3>4. MnemonicsOnTop' /\ WalletIsLast'
      BY <1>0, <2>1, <3>1 DEF MnemonicsOnTop, WalletIsLast, Settled
    <3>5. QED
      BY <1>0, <3>3, <3>4 DEF SecretsInv
  <2>3. CASE ~ Writing(t)
    <3>1. torn' = torn
      BY <2>1, <2>3, <1>0 DEF SessionTypeOK
    <3>2. QED
      BY <1>0, <2>1, <2>3, <3>1, QuietEnd
  <2>4. QED
    BY <2>2, <2>3
<1>h. ASSUME ~ torn, \A u \in Tasks : ~ Writing(u)
      PROVE  /\ keychain.solanaSeed = keychain.seed
             /\ keychain.mnemonics \in {keychain.seed, None}
  <2>1. \A u \in Tasks : stages[u] = 0
    BY <1>0, <1>h, StageFacts
  <2>2. Whole
    BY <1>h, <2>1 DEF Whole
  <2>3. QED
    BY <1>0, <2>1, <2>2 DEF LastWins
<1>16. ASSUME NEW t \in Tasks, CreateEnds(t)  PROVE SecretsInv'
  <2>1. /\ Answered(t, "mnemonics") /\ wallets' = task[t].phrase
        /\ Replace(MnemonicsScreen("Initial", keychain.mnemonics))
        /\ waiting' = Tail(waiting) /\ task' = [task EXCEPT ![t] = Idle]
        /\ UNCHANGED keychain /\ torn' = torn
    BY <1>16 DEF CreateEnds, Ends
  <2>2. ~ Running(t)' /\ \A u \in Tasks : u # t => task'[u] = task[u]
    BY <1>0, <2>1 DEF Running, Idle
  <2>3. stages[t] = 3
    BY <1>0, <1>a, <2>1, StageFacts DEF StageOf, Sets, Running
  <2>4. Queued' /\ LastWins'
    BY <1>0, <1>a, <2>1, <2>2, <2>3, QuietLeave
  <2>5. PICK s : s = MnemonicsScreen("Initial", keychain.mnemonics)
    OBVIOUS
  <2>6. s \in Screen /\ s.read = keychain.mnemonics /\ s.words = None
    <3>1. keychain.mnemonics \in Optional
      BY <1>0 DEF SessionTypeOK, Keychain
    <3>2. s \in Screen
      BY <2>5, <3>1, ScreenTypes
    <3>3. QED
      BY <2>5, <3>2 DEF MnemonicsScreen
  <2>7. MnemonicsOnTop' /\ Focused' = s
    BY <1>0, <2>1, <2>5, <2>6, OtherScreen
  <2>8. ASSUME Settled'
        PROVE  /\ keychain.seed = task[t].phrase
               /\ keychain.mnemonics \in {task[t].phrase, None}
    <3>1. \A u \in Tasks : u # t => stages[u] = 0
      BY <1>0, <2>2, <2>8, StageFacts DEF Settled, Writing, Running
    <3>2. Whole
      BY <1>a, <2>1, <2>8, <3>1 DEF Whole, Settled
    <3>3. Newest(stages, waiting, t, 1) /\ Newest(stages, waiting, t, 3)
      BY <2>3, <3>1 DEF Newest
    <3>4. QED
      BY <1>0, <3>2, <3>3 DEF LastWins
  <2>9. WalletIsLast'
    BY <2>1, <2>6, <2>7, <2>8 DEF WalletIsLast
  <2>10. QED
    BY <1>0, <2>4, <2>7, <2>9 DEF SecretsInv
<1>17. ASSUME NEW t \in Tasks, ImportRegisters(t)  PROVE SecretsInv'
  <2>1. /\ Answered(t, "mnemonics") /\ waiting' = Tail(waiting)
        /\ task' = [task EXCEPT ![t].at = "register"]
        /\ UNCHANGED <<keychain, stack, torn>>
    BY <1>17 DEF ImportRegisters
  <2>2. task[t] \in Task /\ task[t].kind # "none" /\ stages[t] = 3
    BY <1>0, <1>a, <2>1, StageFacts DEF StageOf, Sets, Running
  <2>3. /\ task'[t] = [task[t] EXCEPT !.at = "register"]
        /\ \A u \in Tasks : u # t => task'[u] = task[u]
    BY <1>0, <2>1
  <2>4. task'[t].at = "register" /\ task'[t].kind # "none"
    BY <2>2, <2>3 DEF Task
  <2>5. Queued' /\ LastWins'
    BY <1>0, <1>a, <2>1, <2>2, <2>3, <2>4, QuietLeave
  <2>6. Writing(t)'
    BY <2>4 DEF Writing, Running
  <2>7. MnemonicsOnTop' /\ WalletIsLast'
    BY <1>0, <2>1, <2>6 DEF MnemonicsOnTop, WalletIsLast, Settled
  <2>8. QED
    BY <1>0, <2>5, <2>7 DEF SecretsInv
<1>i. ASSUME NEW t \in Tasks, Registered(t), keychain'.seed = keychain.seed,
             ~ OnTop("Mnemonics")'
      PROVE  WalletIsLast'
  <2>1. /\ wallets' = task[t].phrase
        /\ overtaken' = (keychain.seed # task[t].phrase)
    BY <1>i DEF Registered
  <2>2. Settled' => ~ overtaken'
    BY DEF Settled
  <2>3. Settled' => wallets' = keychain'.seed
    BY <1>i, <2>1, <2>2
  <2>4. QED
    BY <1>i, <2>3 DEF WalletIsLast
<1>18. ASSUME NEW t \in Tasks, ImportEnds(t)  PROVE SecretsInv'
  <2>1. /\ Registered(t) /\ task[t].at = "register"
        /\ Replace(PasscodeScreen(t)) /\ torn' = torn
        /\ Call(task, t, waiting, "check", "deleteUserPasscode", None)
    BY <1>18 DEF ImportEnds, Registered, Check, Await
  <2>2. /\ Queued' /\ LastWins' /\ keychain'.seed = keychain.seed
    BY <1>0, <1>b, <1>c, <1>d, <2>1, QuietCall
  <2>3. MnemonicsOnTop' /\ ~ OnTop("Mnemonics")'
    BY <1>0, <2>1, ScreenTypes, OtherScreen
  <2>4. WalletIsLast'
    BY <1>i, <2>1, <2>2, <2>3
  <2>5. QED
    BY <1>0, <2>2, <2>3, <2>4 DEF SecretsInv
<1>19. ASSUME NEW t \in Tasks, VerifyEnds(t)  PROVE SecretsInv'
  <2>1. /\ Registered(t) /\ Running(t) /\ task[t].at = "register"
        /\ Replace(Plain("WalletDashboard")) /\ torn' = torn
        /\ task' = [task EXCEPT ![t] = Idle]
        /\ UNCHANGED <<keychain, waiting>>
    BY <1>19 DEF VerifyEnds, Registered
  <2>2. ~ Running(t)' /\ \A u \in Tasks : u # t => task'[u] = task[u]
    BY <1>0, <2>1 DEF Running, Idle
  <2>3. Queued'
    <3>1. \A u \in Tasks : Holds(waiting, u) <=>
             Running(u)' /\ task'[u].at # "register"
      BY <1>0, <2>1, <2>2 DEF Queued, Running
    <3>2. QED
      BY <1>0, <2>1, <3>1 DEF Queued
  <2>4. stages' = stages
    <3>1. \A u \in Tasks : stages'[u] = stages[u]
      BY <1>0, <1>c, <2>1, <2>2, StageFacts, StageFactsNext
    <3>2. stages' \in [Tasks -> 0 .. 3]
      BY <1>0, StageFactsNext
    <3>3. QED
      BY <1>0, <3>1, <3>2
  <2>5. LastWins'
    <3>1. \A u \in Tasks : stages[u] # 0 => task'[u] = task[u]
      BY <1>c, <2>1, <2>2
    <3>2. QED
      BY <1>0, <2>1, <2>4, <3>1, QuietWins
  <2>6. MnemonicsOnTop' /\ ~ OnTop("Mnemonics")'
    BY <1>0, <1>g, <2>1, OtherScreen
  <2>7. WalletIsLast'
    BY <1>i, <2>1, <2>6
  <2>8. QED
    BY <1>0, <2>3, <2>5, <2>6, <2>7 DEF SecretsInv
<1>20. ASSUME NEW t \in Tasks, Restart(t)  PROVE SecretsInv'
  <2>1. /\ wallets' = None /\ stack' = <<PasscodeScreen(t)>>
        /\ torn' = (torn \/ \E u \in Tasks : Writing(u))
        /\ Call([u \in Tasks |-> Idle], t, <<>>, "check",
                "deleteUserPasscode", None)
    BY <1>20 DEF Restart
  <2>2. PICK idle \in [Tasks -> Task], queue \in Seq(Tasks) :
           idle = [u \in Tasks |-> Idle] /\ queue = <<>>
    <3>1. [u \in Tasks |-> Idle] \in [Tasks -> Task] /\ <<>> \in Seq(Tasks)
      BY DEF Idle, Task
    <3> HIDE DEF Idle
    <3>2. QED
      BY <3>1
  <2>3. Call(idle, t, queue, "check", "deleteUserPasscode", None)
    BY <2>1, <2>2
  <2>4. /\ waiting' = Append(queue, t)
        /\ keychain'.seed = keychain.seed
        /\ keychain'.solanaSeed = keychain.solanaSeed
        /\ keychain'.mnemonics \in {keychain.mnemonics, None}
    BY <1>0, <1>b, <1>d, <2>3, SecretFacts DEF Sets
  <2>5. /\ \A u \in Tasks : u # t => task'[u].kind = "none"
        /\ task'[t].kind = "check" /\ task'[t].at = "deleteUserPasscode"
    <3>1. /\ \A u \in Tasks : u # t => task'[u] = idle[u]
          /\ task'[t].kind = "check" /\ task'[t].at = "deleteUserPasscode"
      BY <1>0, <1>b, <2>3, CallFacts DEF Kinds, KeychainCalls, Sets
    <3>2. \A u \in Tasks : idle[u].kind = "none"
      BY <2>2 DEF Idle
    <3>3. QED
      BY <3>1, <3>2
  <2>6. Queued'
    <3>1. waiting' = <<t>>
      BY <2>2, <2>4
    <3>2. QED
      BY <2>5, <3>1 DEF Queued, Once, Holds, Running
  <2>7. \A u \in Tasks : stages'[u] = 0
    BY <1>0, <2>5, StageFactsNext DEF Running, Sets
  <2>8. LastWins'
    <3>1. ASSUME NEW u \in Tasks, NEW k \in 1 .. 3
          PROVE  ~ Newest(stages', waiting', u, k)
      BY <2>7 DEF Newest
    <3>2. 1 \in 1 .. 3 /\ 2 \in 1 .. 3 /\ 3 \in 1 .. 3
      OBVIOUS
    <3>3. ASSUME Whole'
          PROVE  /\ keychain'.solanaSeed = keychain'.seed
                 /\ keychain'.mnemonics \in {keychain'.seed, None}
      <4>1. ~ torn /\ \A u \in Tasks : ~ Writing(u)
        BY <2>1, <3>3 DEF Whole
      <4>2. QED
        BY <1>h, <2>4, <4>1
    <3>4. QED
      BY <3>1, <3>2, <3>3 DEF LastWins
  <2>9. MnemonicsOnTop' /\ ~ OnTop("Mnemonics")'
    BY <2>1 DEF MnemonicsOnTop, OnTop, Focused, PasscodeScreen
  <2>10. WalletIsLast'
    BY <2>1, <2>9 DEF WalletIsLast
  <2>11. QED
    BY <1>0, <2>6, <2>8, <2>9, <2>10 DEF SecretsInv
<1>j. ASSUME Settled, OnTop("Mnemonics") \/ OnTop("WalletSettings")
      PROVE  keychain.mnemonics \in {None, wallets}
  <2>1. wallets # None
    BY <1>0, <1>j
       DEF SessionInv, SessionTypeOK, WalletScreensHaveWallet, OnTop, Focused
  <2>2. wallets = keychain.seed
    BY <1>0, <1>j, <2>1 DEF WalletIsLast
  <2>3. QED
    BY <1>h, <1>j, <2>2 DEF Settled
<1>k. ASSUME NEW s \in Screen, Replace(s),
             UNCHANGED <<keychain, wallets, task, waiting, torn, overtaken>>,
             s.name = "Mnemonics" /\ Settled =>
                s.read \in {None, wallets} /\ s.words \in {None, wallets}
      PROVE  SecretsInv'
  <2>1. MnemonicsOnTop' /\ Focused' = s
    BY <1>0, <1>k, OtherScreen
  <2>2. QED
    BY <1>0, <1>k, <2>1, ScreenMoves DEF OnTop
<1>l. ASSUME NEW n \in 1 .. Len(stack), n < Len(stack),
             stack' = SubSeq(stack, 1, n),
             UNCHANGED <<keychain, wallets, task, waiting, torn, overtaken>>
      PROVE  SecretsInv'
  <2>1. /\ Len(stack') = n /\ n \in DOMAIN stack'
        /\ \A i \in DOMAIN stack' :
              i \in DOMAIN stack /\ i <= n /\ stack'[i] = stack[i]
    BY <1>0, <1>l, BackFacts
  <2>2. \A i \in DOMAIN stack' : stack'[i].name # "Mnemonics"
    BY <1>0, <1>l, <2>1 DEF MnemonicsOnTop
  <2>3. MnemonicsOnTop' /\ ~ OnTop("Mnemonics")'
    BY <2>1, <2>2 DEF MnemonicsOnTop, OnTop, Focused
  <2>4. QED
    BY <1>0, <1>l, <2>3, ScreenMoves
<1>m. ASSUME NEW s \in Screen, Navigate(s), ~ OnTop("Mnemonics"),
             ~ OnTop(s.name),
             UNCHANGED <<keychain, wallets, task, waiting, torn, overtaken>>,
             s.name = "Mnemonics" /\ Settled =>
                s.read \in {None, wallets} /\ s.words \in {None, wallets}
      PROVE  SecretsInv'
  <2>1. CASE stack' = Append(stack, s)
    <3>1. /\ Len(stack') = Len(stack) + 1 /\ stack'[Len(stack')] = s
          /\ \A i \in DOMAIN stack' : i < Len(stack') =>
                i \in DOMAIN stack /\ stack'[i] = stack[i]
      BY <1>0, <2>1, PushFacts
    <3>2. \A i \in DOMAIN stack : stack[i].name # "Mnemonics"
      BY <1>0, <1>m DEF MnemonicsOnTop, OnTop, Focused, SessionTypeOK
    <3>3. MnemonicsOnTop' /\ Focused' = s
      BY <3>1, <3>2 DEF MnemonicsOnTop, Focused
    <3>4. QED
      BY <1>0, <1>m, <3>3, ScreenMoves DEF OnTop
  <2>2. CASE \E i \in DOMAIN stack : /\ stack[i].name = s.name
                                     /\ stack' = SubSeq(stack, 1, i)
    <3>1. PICK n \in 1 .. Len(stack) : /\ stack[n].name = s.name
                                       /\ stack' = SubSeq(stack, 1, n)
      <4>1. DOMAIN stack = 1 .. Len(stack)
        BY <1>0 DEF SessionTypeOK
      <4>2. QED
        BY <2>2, <4>1
    <3>2. n < Len(stack)
      BY <1>0, <1>m, <3>1 DEF OnTop, Focused, SessionTypeOK
    <3>3. QED
      BY <1>l, <1>m, <3>1, <3>2
  <2>3. QED
    BY <1>m, <2>1, <2>2 DEF Navigate
<1>21. ASSUME Words  PROVE SecretsInv'
  <2>1. /\ OnTop("Mnemonics") /\ Focused.read # None
        /\ UNCHANGED <<keychain, wallets, task, waiting, torn, overtaken>>
    BY <1>21 DEF Words
  <2>2. PICK s : s = [Focused EXCEPT !.words = Focused.read,
                                     !.read = keychain.mnemonics]
    OBVIOUS
  <2>3. Focused \in Screen /\ keychain.mnemonics \in Optional
    BY <1>0 DEF SessionTypeOK, Keychain, Focused
  <2>4. /\ s \in Screen /\ s.read = keychain.mnemonics
        /\ s.words = Focused.read
    BY <2>1, <2>2, <2>3 DEF OnTop, Screen
  <2>5. Settled => s.read \in {None, wallets} /\ s.words \in {None, wallets}
    BY <1>0, <1>j, <2>1, <2>4 DEF WalletIsLast
  <2>6. QED
    BY <1>21, <1>k, <2>1, <2>2, <2>4, <2>5 DEF Words
<1>22. ASSUME HandleImportWallet  PROVE SecretsInv'
  BY <1>22, <1>g, <1>m, ScreenTypes DEF HandleImportWallet, OnTop
<1>n. ASSUME Pop,
             UNCHANGED <<keychain, wallets, task, waiting, torn, overtaken>>
      PROVE  SecretsInv'
  <2>1. /\ Len(stack) - 1 \in 1 .. Len(stack)
        /\ stack' = SubSeq(stack, 1, Len(stack) - 1)
        /\ Len(stack) - 1 < Len(stack)
    BY <1>0, <1>n DEF Pop, SessionTypeOK
  <2>2. QED
    BY <1>l, <1>n, <2>1
<1>23. ASSUME HandleMnemonicsNavigation  PROVE SecretsInv'
  BY <1>23, <1>g, <1>k, <1>n DEF HandleMnemonicsNavigation
<1>24. ASSUME HandleContinue  PROVE SecretsInv'
  BY <1>24, <1>g, <1>k DEF HandleContinue
<1>25. ASSUME OpenSettings  PROVE SecretsInv'
  BY <1>25, <1>g, <1>m, ScreenTypes DEF OpenSettings, OnTop
<1>26. ASSUME HandleBackup  PROVE SecretsInv'
  <2>1. PICK s : s = MnemonicsScreen("settings", keychain.mnemonics)
    OBVIOUS
  <2>2. keychain.mnemonics \in Optional
    BY <1>0 DEF SessionTypeOK, Keychain
  <2>3. s \in Screen /\ s.name = "Mnemonics"
    BY <2>1, <2>2, ScreenTypes
  <2>4. s.read = keychain.mnemonics /\ s.words = None
    BY <2>1, <2>3 DEF MnemonicsScreen
  <2>5. OnTop("WalletSettings") /\ Navigate(s)
    BY <1>26, <2>1 DEF HandleBackup
  <2>6. QED
    BY <1>26, <1>j, <1>m, <2>3, <2>4, <2>5 DEF HandleBackup, OnTop
<1>27. ASSUME GoBack  PROVE SecretsInv'
  BY <1>27, <1>n DEF GoBack
<1>28. ASSUME UNCHANGED sessionVars  PROVE SecretsInv'
  <2>1. UNCHANGED <<keychain, wallets, stack, task, waiting, torn, overtaken>>
    BY <1>28 DEF sessionVars
  <2>2. MnemonicsOnTop'
    BY <1>0, <2>1 DEF MnemonicsOnTop
  <2>3. Settled /\ OnTop("Mnemonics")' =>
           /\ Focused'.read \in {None, wallets}
           /\ Focused'.words \in {None, wallets}
    BY <1>0, <2>1 DEF WalletIsLast, OnTop, Focused
  <2>4. QED
    BY <1>0, <2>1, <2>2, <2>3, ScreenMoves
<1>29. QED
  BY <1>1, <1>2, <1>3, <1>4, <1>5, <1>6, <1>7, <1>8, <1>9, <1>10, <1>11,
     <1>12, <1>13, <1>14, <1>15, <1>16, <1>17, <1>18, <1>19, <1>20, <1>21,
     <1>22, <1>23, <1>24, <1>25, <1>26, <1>27, <1>28
     DEF SessionNext, Answers, User

(* Whenever nobody is writing them, and no writer was ever cut short, the  *)
(* three secrets are of one phrase.                                        *)
THEOREM OnePhraseStored == SessionSpec => []SecretsOfOnePhrase
<1>1. SecretsInv => SecretsOfOnePhrase
  <2> SUFFICES ASSUME SecretsInv, ~ torn,
                      \A t \in Tasks : Running(t) => task[t].at \notin Sets
               PROVE  /\ keychain.seed = keychain.solanaSeed
                      /\ keychain.mnemonics \in {keychain.seed, None}
    BY DEF SecretsOfOnePhrase
  <2>1. \A t \in Tasks : stages[t] = 0
    BY StageFacts DEF SecretsInv, SessionInv
  <2>2. QED
    BY <2>1 DEF SecretsInv, LastWins, Whole
<1>2. QED
  BY <1>1, InitSecrets, StepSecrets, PTL DEF SessionSpec

LEMMA SettledFacts ==
    SecretsInv /\ Settled => keychain.solanaSeed = keychain.seed
<1> SUFFICES ASSUME SecretsInv, Settled
             PROVE  keychain.solanaSeed = keychain.seed
  OBVIOUS
<1>1. \A t \in Tasks : stages[t] = 0
  BY StageFacts DEF SecretsInv, SessionInv, Settled
<1>2. QED
  BY <1>1 DEF SecretsInv, LastWins, Whole, Settled

(* Settled, the wallet the screens show is that of the stored Solana key.  *)
THEOREM StoredKeyOfWallet == SessionSpec => []WalletOfStoredKey
<1>1. SecretsInv => WalletOfStoredKey
  BY SettledFacts DEF SecretsInv, WalletIsLast, WalletOfStoredKey
<1>2. QED
  BY <1>1, InitSecrets, StepSecrets, PTL DEF SessionSpec

(* Settled, the phrase to write down is that of the wallet.                *)
THEOREM PhraseShownOfWallet == SessionSpec => []ShownPhraseIsWallet
<1>1. SecretsInv => ShownPhraseIsWallet
  BY DEF SecretsInv, WalletIsLast, ShownPhraseIsWallet
<1>2. QED
  BY <1>1, InitSecrets, StepSecrets, PTL DEF SessionSpec

-----------------------------------------------------------------------------
(* Every handler waits for a call its code goes on from.                   *)

GoesOn(r) ==
    /\ r.kind # "none" => r.at \in CallsOf(r.kind)
    /\ r.kind # "none" /\ r.at = "getMnemonics" => r.answer \in Optional

KindsMatch == \A t \in Tasks : GoesOn(task[t])

LEMMA CallGoesOn ==
    ASSUME SessionTypeOK, NEW tasks \in [Tasks -> Task],
           \A u \in Tasks : GoesOn(tasks[u]), NEW t \in Tasks, NEW queue,
           NEW kind \in Kinds, NEW call \in CallsOf(kind), NEW phrase,
           Call(tasks, t, queue, kind, call, phrase)
    PROVE  KindsMatch'
<1>1. PICK ok \in BOOLEAN :
        task' = [tasks EXCEPT ![t] =
           [kind |-> kind, at |-> call, phrase |-> phrase, ok |-> ok,
            answer |-> IF ok THEN Answer(call) ELSE None]]
  BY DEF Call
<1> DEFINE answer == IF ok THEN Answer(call) ELSE None
           r == [kind |-> kind, at |-> call, phrase |-> phrase, ok |-> ok,
                 answer |-> answer]
<1>2. call = "getMnemonics" => answer \in Optional
  BY DEF Answer, SessionTypeOK, Keychain, Optional
<1>3. \A u \in Tasks : task'[u] = IF u = t THEN r ELSE tasks[u]
  BY <1>1
<1>4. r.kind = kind /\ r.at = call /\ r.answer = answer
  OBVIOUS
<1> HIDE DEF r, answer
<1>5. GoesOn(r)
  BY <1>2, <1>4 DEF GoesOn
<1>6. QED
  BY <1>3, <1>5 DEF KindsMatch

LEMMA EndGoesOn ==
    ASSUME task \in [Tasks -> Task], KindsMatch, NEW t \in Tasks,
           task' = [task EXCEPT ![t] = Idle]
    PROVE  KindsMatch'
<1>1. GoesOn(Idle)
  BY DEF GoesOn, Idle
<1>2. \A u \in Tasks : task'[u] = IF u = t THEN Idle ELSE task[u]
  OBVIOUS
<1>3. QED
  BY <1>1, <1>2 DEF KindsMatch

LEMMA KindsInductive ==
    SessionTypeOK /\ KindsMatch /\ [SessionNext]_sessionVars => KindsMatch'
<1> SUFFICES ASSUME SessionTypeOK, KindsMatch, [SessionNext]_sessionVars
             PROVE  KindsMatch'
  OBVIOUS
<1>0. /\ task \in [Tasks -> Task]
      /\ \A u \in Tasks : GoesOn(task[u])
  BY DEF SessionTypeOK, KindsMatch
<1>a. /\ Kinds = {"check", "setPasscode", "verify", "create", "import"}
      /\ CallsOf("check") =
            {"deleteUserPasscode", "deleteMnemonics", "getUserPasscode"}
      /\ CallsOf("setPasscode") = {"setUserPasscode"}
      /\ CallsOf("verify") =
            {"getUserPasscode", "getMnemonics", "register"} \cup Sets
      /\ CallsOf("create") = Sets
      /\ CallsOf("import") = Sets \cup {"register"}
      /\ Sets = {"seed", "solanaSeed", "mnemonics"}
  BY DEF Kinds, CallsOf, Sets
<1>b. ASSUME NEW t \in Tasks, NEW call, Answered(t, call)
      PROVE  /\ task[t].kind \in Kinds /\ call \in CallsOf(task[t].kind)
  BY <1>0, <1>b DEF Answered, Running, GoesOn, Task
<1>1. ASSUME NEW t \in Tasks,
             CheckDeletes(t) \/ CheckAsks(t) \/ HandleSetPasscode(t)
             \/ HandleVerifyPasscode(t) \/ PasscodeRight(t) \/ ImportStored(t)
             \/ HandleCreateWallet(t) \/ ImportAndStoreWallets(t)
      PROVE  KindsMatch'
  BY <1>0, <1>a, <1>1, CallGoesOn
     DEF CheckDeletes, CheckAsks, HandleSetPasscode, HandleVerifyPasscode,
         PasscodeRight, ImportStored, HandleCreateWallet,
         ImportAndStoreWallets, Await
<1>2. ASSUME NEW t \in Tasks, SeedSet(t) \/ SolanaSeedSet(t)
      PROVE  KindsMatch'
  <2>1. PICK call \in {"seed", "solanaSeed"} : Answered(t, call)
    BY <1>2 DEF SeedSet, SolanaSeedSet
  <2>2. /\ task[t].kind \in Kinds
        /\ "solanaSeed" \in CallsOf(task[t].kind)
        /\ "mnemonics" \in CallsOf(task[t].kind)
    BY <1>a, <1>b, <2>1
  <2>3. QED
    BY <1>0, <1>2, <2>2, CallGoesOn DEF SeedSet, SolanaSeedSet, Await
<1>3. ASSUME NEW t \in Tasks,
             CheckEnds(t) \/ PasscodeSet(t) \/ PasscodeWrong(t)
             \/ NoMnemonics(t) \/ CreateEnds(t) \/ VerifyEnds(t) \/ Rejected(t)
      PROVE  KindsMatch'
  <2>1. task' = [task EXCEPT ![t] = Idle]
    BY <1>3 DEF CheckEnds, PasscodeSet, PasscodeWrong, NoMnemonics,
                CreateEnds, VerifyEnds, Rejected, Ends
  <2>2. QED
    BY <1>0, <2>1, EndGoesOn
<1>4. ASSUME NEW t \in Tasks, ImportRegisters(t)  PROVE KindsMatch'
  <2>1. /\ task[t].kind \in {"import", "verify"} /\ task[t] \in Task
        /\ task' = [task EXCEPT ![t] = [task[t] EXCEPT !.at = "register"]]
    BY <1>0, <1>4 DEF ImportRegisters
  <2>2. PICK r : r = [task[t] EXCEPT !.at = "register"]
    OBVIOUS
  <2>3. r.kind = task[t].kind /\ r.at = "register"
    BY <2>1, <2>2 DEF Task
  <2>4. GoesOn(r)
    BY <1>a, <2>1, <2>3 DEF GoesOn
  <2>5. \A u \in Tasks : task'[u] = IF u = t THEN r ELSE task[u]
    BY <1>0, <2>1, <2>2
  <2>6. QED
    BY <1>0, <2>4, <2>5 DEF KindsMatch
<1>5. ASSUME NEW t \in Tasks, ImportEnds(t)  PROVE KindsMatch'
  BY <1>0, <1>a, <1>5, CallGoesOn DEF ImportEnds, Check, Await
<1>6. ASSUME NEW t \in Tasks, Restart(t)  PROVE KindsMatch'
  <2>1. PICK idle \in [Tasks -> Task] : idle = [u \in Tasks |-> Idle]
    <3>1. [u \in Tasks |-> Idle] \in [Tasks -> Task]
      BY DEF Idle, Task
    <3> HIDE DEF Idle
    <3>2. QED
      BY <3>1
  <2>2. \A u \in Tasks : GoesOn(idle[u])
    BY <2>1 DEF GoesOn, Idle
  <2>3. Call(idle, t, <<>>, "check", "deleteUserPasscode", None)
    BY <1>6, <2>1 DEF Restart
  <2>4. QED
    BY <1>a, <2>2, <2>3, CallGoesOn
<1>7. CASE UNCHANGED task
  BY <1>0, <1>7 DEF KindsMatch
<1>8. \/ UNCHANGED task
      \/ \E t \in Tasks : Answers(t) \/ Restart(t)
      \/ \E t \in Tasks : \/ HandleSetPasscode(t) \/ HandleVerifyPasscode(t)
                          \/ HandleCreateWallet(t) \/ ImportAndStoreWallets(t)
  BY DEF SessionNext, User, sessionVars, Words, HandleImportWallet,
         HandleMnemonicsNavigation, HandleContinue, OpenSettings, HandleBackup,
         GoBack
<1>9. QED
  BY <1>1, <1>2, <1>3, <1>4, <1>5, <1>6, <1>7, <1>8 DEF Answers

(* Overlapping handlers, rejected calls and restarts leave no handler      *)
(* without an answer it can go on from, and no answer without its handler: *)
(* the Keychain's queue is exactly the handlers that wait for it.          *)
THEOREM EveryHandlerIsAnswered == SessionSpec => []NoHandlerIsForgotten
<1>1. SessionInit => KindsMatch
  <2> SUFFICES ASSUME SessionInit  PROVE KindsMatch
    OBVIOUS
  <2>1. PICK t \in Tasks : task = [u \in Tasks |-> IF u = t
              THEN [kind |-> "check", at |-> "deleteUserPasscode",
                    phrase |-> None, ok |-> TRUE, answer |-> None]
              ELSE Idle]
    BY DEF SessionInit
  <2>2. ASSUME NEW u \in Tasks
        PROVE  /\ task[u].kind \in {"check", "none"}
               /\ task[u].kind # "none" => task[u].at = "deleteUserPasscode"
    BY <2>1 DEF Idle
  <2>3. QED
    BY <2>2 DEF KindsMatch, GoesOn, CallsOf
<1>2. SecretsInv /\ KindsMatch /\ [SessionNext]_sessionVars
         => (SecretsInv /\ KindsMatch)'
  BY StepSecrets, KindsInductive DEF SecretsInv, SessionInv
<1>3. SecretsInv /\ KindsMatch => NoHandlerIsForgotten
  <2> SUFFICES ASSUME SecretsInv, KindsMatch  PROVE NoHandlerIsForgotten
    OBVIOUS
  <2>1. Queued /\ waiting \in Seq(Tasks)
    BY DEF SecretsInv, SessionInv, SessionTypeOK
  <2>2. ASSUME NEW t \in Tasks, Running(t)
        PROVE  /\ task[t].at \in CallsOf(task[t].kind)
               /\ task[t].at = "getMnemonics" => task[t].answer \in Optional
               /\ task[t].at # "register" =>
                     \E i \in DOMAIN waiting : waiting[i] = t
    BY <2>1, <2>2 DEF KindsMatch, GoesOn, Running, Queued, Holds
  <2>3. ASSUME NEW i \in DOMAIN waiting
        PROVE  /\ Running(waiting[i]) /\ task[waiting[i]].at # "register"
               /\ \A j \in DOMAIN waiting : waiting[i] = waiting[j] => i = j
    <3>1. waiting[i] \in Tasks /\ Holds(waiting, waiting[i])
      BY <2>1 DEF Holds
    <3>2. QED
      BY <2>1, <3>1 DEF Queued, Once
  <2>4. QED
    BY <2>2, <2>3 DEF NoHandlerIsForgotten
<1>4. QED
  BY <1>1, <1>2, <1>3, InitSecrets, PTL DEF SessionSpec
=============================================================================

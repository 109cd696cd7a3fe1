------------------------ MODULE TransferScreen_proofs ------------------------
(***************************************************************************)
(* Proofs about TransferScreen.  The invariant adds to the properties what *)
(* a confirmed transfer was checked for, from the modal to the request.    *)
(***************************************************************************)
EXTENDS TransferScreen, TLAPS

Ats == {"authToken", "solanaSeed", "blockhash", "vechainKey", "post", "text",
        "rejected", "success", "failed", "unbuilt", "error"}

Confirmed == [at: Ats, mine: BOOLEAN, reviewed: Form,
              request: Request \cup {NoRequest}]

(* What handleReviewTransfer checks.                                       *)
Valid(f) ==
    /\ f.recipient \in SolanaAddresses \cup EthereumAddresses
    /\ f.amount # Empty /\ f.amount # 0
    /\ f.amount # NaN /\ AmountOf[f.token] # Empty =>
          f.amount <= AmountOf[f.token]

(* What is known of a confirmed transfer r.                                *)
Sound(r) ==
    /\ r \in Confirmed
    /\ Valid(r.reviewed)
    /\ r.at = "blockhash" =>
          r.reviewed.recipient \in SolanaAddresses /\ r.reviewed.amount # NaN
    /\ r.request # NoRequest =>
          /\ r.request \in Request
          /\ AsReviewed(r.request, r.reviewed)
          /\ r.request.token = Mint
          /\ r.request.units > 0
          /\ r.request.recipient \in SolanaAddresses
          /\ AmountOf[r.reviewed.token] # Empty =>
                r.request.units <= AmountOf[r.reviewed.token]

FormOK ==
    /\ amount \in Amounts /\ recipient \in Recipients /\ token \in Tokens
    /\ loading \in BOOLEAN /\ modalVisible \in BOOLEAN /\ crashed \in BOOLEAN

TransfersSound ==
    \A i \in Transfers : transfer[i] = [at |-> "none"] \/ Sound(transfer[i])

ModalIsReviewed ==
    modalVisible =>
       ~ loading /\ Valid([amount |-> amount, recipient |-> recipient,
                           token |-> token])

TransferInv ==
    /\ FormOK
    /\ DOMAIN transfer = Transfers /\ transfer = [i \in Transfers |-> transfer[i]]
    /\ TransfersSound
    /\ ModalIsReviewed
    /\ OneTransferAtATime
    /\ LoadingIsOfATransfer

-----------------------------------------------------------------------------
(* A step that only moves a transfer on, or orphans it, keeps it sound.    *)
LEMMA Moved ==
    ASSUME NEW r, Sound(r), NEW at \in Ats,
           at = "blockhash" =>
              r.reviewed.recipient \in SolanaAddresses
              /\ r.reviewed.amount # NaN
    PROVE  Sound([r EXCEPT !.at = at])
<1> DEFINE s == [r EXCEPT !.at = at]
<1>1. r \in Confirmed
  BY DEF Sound
<1>2. /\ s \in Confirmed /\ s.at = at /\ s.reviewed = r.reviewed
      /\ s.request = r.request
  BY <1>1 DEF Confirmed
<1> QED
  BY <1>2 DEF Sound

LEMMA OrphanedSound ==
    ASSUME NEW r, Sound(r)
    PROVE  Sound([r EXCEPT !.mine = FALSE])
<1> DEFINE s == [r EXCEPT !.mine = FALSE]
<1>1. r \in Confirmed
  BY DEF Sound
<1>2. /\ s \in Confirmed /\ s.at = r.at /\ s.reviewed = r.reviewed
      /\ s.request = r.request
  BY <1>1 DEF Confirmed
<1> QED
  BY <1>2 DEF Sound

(* A transfer i that answers: it is sound before and after, and it does    *)
(* not become a running transfer of the mounted screen if it was none.     *)
LEMMA OneMoves ==
    ASSUME TransferInv, NEW i \in Transfers, Running(i),
           NEW s, Sound(s),
           s.mine = transfer[i].mine,
           transfer' = [transfer EXCEPT ![i] = s],
           \/ /\ s.at \in Pending \cup {"rejected"}
              /\ loading' = loading
           \/ /\ s.at \notin Pending
              /\ loading' = (loading /\ ~ transfer[i].mine),
           UNCHANGED <<form, modalVisible, crashed>>
    PROVE  TransferInv'
<1> USE DEF TransferInv
<1>1. transfer'[i] = s /\ \A j \in Transfers \ {i} : transfer'[j] = transfer[j]
  OBVIOUS
<1>2. Sound(transfer[i])
  <2>1. transfer[i] # [at |-> "none"]
    BY DEF Running, Pending
  <2> QED
    BY <2>1 DEF TransfersSound
<1>3. loading' \in BOOLEAN /\ FormOK'
  BY DEF FormOK, form
<1>4. DOMAIN transfer' = Transfers /\ transfer' = [j \in Transfers |-> transfer'[j]]
  OBVIOUS
<1>5. TransfersSound'
  BY <1>1 DEF TransfersSound, Sound, AsReviewed, Valid, NoRequest
<1>6. ModalIsReviewed'
  BY DEF ModalIsReviewed, form, Valid, FormOK
<1>7. OneTransferAtATime'
  <2>1. ASSUME NEW k \in Transfers, Running(k)', transfer'[k].mine
        PROVE  Running(k) /\ transfer[k].mine
    BY <1>1, <2>1 DEF Running
  <2>2. ASSUME NEW k \in Transfers, Running(k)', transfer'[k].mine
        PROVE  /\ loading'
               /\ \A j \in Transfers : Running(j)' /\ transfer'[j].mine => k = j
    <3>1. Running(k) /\ transfer[k].mine
      BY <2>1, <2>2
    <3>2. loading /\ \A j \in Transfers : Running(j) /\ transfer[j].mine => k = j
      BY <3>1 DEF OneTransferAtATime
    <3>3. \A j \in Transfers : Running(j)' /\ transfer'[j].mine => k = j
      BY <2>1, <3>2
    <3>4. loading'
      BY <1>1, <2>2, <3>1, <3>2 DEF Running
    <3> QED
      BY <3>3, <3>4
  <2> QED
    BY <2>2 DEF OneTransferAtATime, Running
<1>8. LoadingIsOfATransfer'
  <2> SUFFICES ASSUME loading'
               PROVE  \E j \in Transfers :
                         /\ transfer'[j].at \in Pending \cup {"rejected"}
                         /\ transfer'[j].mine
    BY DEF LoadingIsOfATransfer, Pending
  <2>1. PICK j \in Transfers :
           /\ transfer[j].at \in Pending \cup {"rejected"}
           /\ transfer[j].mine
    BY DEF LoadingIsOfATransfer
  <2>2. CASE j = i
    BY <1>1, <2>1, <2>2
  <2>3. CASE j # i
    BY <1>1, <2>1, <2>3
  <2> QED
    BY <2>2, <2>3
<1> QED
  BY <1>3, <1>4, <1>5, <1>6, <1>7, <1>8

-----------------------------------------------------------------------------
(* The steps of a transfer.                                                *)

LEMMA GoesOn ==
    ASSUME TransferInv, NEW i \in Transfers, Running(i),
           NEW at \in Pending \cup {"rejected"}, Goes(i, at),
           at = "blockhash" =>
              transfer[i].reviewed.recipient \in SolanaAddresses
              /\ transfer[i].reviewed.amount # NaN
    PROVE  TransferInv'
<1>1. Sound(transfer[i])
  BY DEF TransferInv, TransfersSound, Running, Pending
<1> DEFINE s == [transfer[i] EXCEPT !.at = at]
<1>2. Sound(s)
  BY <1>1, Moved DEF Pending, Ats
<1>3. /\ s.mine = transfer[i].mine /\ s.at = at
      /\ transfer' = [transfer EXCEPT ![i] = s]
  BY <1>1 DEF Goes, Sound, Confirmed
<1>4. loading' = loading /\ UNCHANGED <<form, modalVisible, crashed>>
  BY DEF Goes
<1> HIDE DEF s
<1> QED
  BY <1>2, <1>3, <1>4, OneMoves

LEMMA Ended ==
    ASSUME TransferInv, NEW i \in Transfers, Running(i),
           NEW at \in Ats \ Pending, Ends(i, at)
    PROVE  TransferInv'
<1>1. Sound(transfer[i])
  BY DEF TransferInv, TransfersSound, Running, Pending
<1> DEFINE s == [transfer[i] EXCEPT !.at = at]
<1>2. Sound(s)
  BY <1>1, Moved DEF Pending
<1>3. /\ s.mine = transfer[i].mine /\ s.at = at
      /\ transfer' = [transfer EXCEPT ![i] = s]
  BY <1>1 DEF Ends, Sound, Confirmed
<1>4. /\ loading' = (loading /\ ~ transfer[i].mine)
      /\ UNCHANGED <<form, modalVisible, crashed>>
  BY DEF Ends
<1> HIDE DEF s
<1>5. s.at \notin Pending
  BY <1>3
<1> QED
  BY <1>2, <1>3, <1>4, <1>5, OneMoves

(* An amount that is whole is a number of tokens.                          *)
LEMMA WholeTokens ==
    ASSUME NEW a \in Nat, NEW n \in Nat, n > 0, a % n = 0
    PROVE  a \div n \in Nat /\ (a \div n) * n = a
<1>1. a = n * (a \div n) + (a % n)
  OBVIOUS
<1> QED
  BY <1>1

(* The request of a transfer that has the blockhash.                       *)
LEMMA Requested ==
    ASSUME TransferInv, NEW i \in Transfers, Blockhash(i)
    PROVE  TransferInv'
<1>1. transfer[i].at = "blockhash" /\ Running(i) /\ Sound(transfer[i])
  BY DEF TransferInv, TransfersSound, Running, Pending, Blockhash, Awaits
<1>2. CASE Ends(i, "error")
  <2>1. "error" \in Ats \ Pending
    BY DEF Ats, Pending
  <2> QED
    BY <1>1, <1>2, <2>1, Ended
<1>3. CASE /\ transfer[i].reviewed.amount % Part = 0
           /\ transfer' = [transfer EXCEPT ![i].at = "post",
                                           ![i].request = RequestOf(i)]
           /\ UNCHANGED <<form, loading, modalVisible, crashed>>
  <2> DEFINE a == transfer[i].reviewed.amount
             s == [transfer[i] EXCEPT !.at = "post",
                                      !.request = RequestOf(i)]
  <2>1. /\ transfer[i] \in Confirmed /\ transfer[i].reviewed \in Form
        /\ Valid(transfer[i].reviewed)
        /\ transfer[i].reviewed.recipient \in SolanaAddresses
        /\ a # NaN
    BY <1>1 DEF Sound, Confirmed
  <2>2. a \in Nat /\ a > 0
    BY <2>1, TransferAssumption DEF Form, Amounts, Valid
  <2>3. a \div Part \in Nat /\ (a \div Part) * Part = a
    <3>1. Part \in Nat /\ Part > 0
      BY TransferAssumption
    <3>2. a % Part = 0
      BY <1>3
    <3> QED
      BY <2>2, <3>1, <3>2, WholeTokens
  <2>4. /\ RequestOf(i).units = a
        /\ RequestOf(i).amount = a \div Part
        /\ RequestOf(i).token = Mint
        /\ RequestOf(i).recipient = transfer[i].reviewed.recipient
        /\ RequestOf(i) \in Request
    BY <2>1, <2>2, <2>3 DEF RequestOf, Request, Form
  <2>5. /\ s \in Confirmed /\ s.at = "post" /\ s.mine = transfer[i].mine
        /\ s.reviewed = transfer[i].reviewed /\ s.request = RequestOf(i)
        /\ transfer' = [transfer EXCEPT ![i] = s]
    BY <1>3, <2>1, <2>4 DEF Confirmed, Ats
  <2>6. a # NaN /\ AmountOf[transfer[i].reviewed.token] # Empty =>
           a <= AmountOf[transfer[i].reviewed.token]
    BY <2>1 DEF Valid
  <2> HIDE DEF s
  <2>7. Sound(s)
    BY <2>1, <2>2, <2>3, <2>4, <2>5, <2>6 DEF Sound, AsReviewed
  <2>8. s.at \in Pending
    BY <2>5 DEF Pending
  <2> QED
    BY <1>1, <1>3, <2>5, <2>7, <2>8, OneMoves
<1> QED
  BY <1>2, <1>3 DEF Blockhash

LEMMA AnswersSound ==
    ASSUME TransferInv, NEW i \in Transfers, Answers(i)
    PROVE  TransferInv'
<1>1. CASE AuthToken(i)
  <2>1. Running(i)
    BY <1>1 DEF AuthToken, Awaits, Running, Pending
  <2>2. /\ {"rejected", "solanaSeed", "vechainKey"}
              \subseteq Pending \cup {"rejected"}
        /\ "error" \in Ats \ Pending
    BY DEF Ats, Pending
  <2>3. \/ Goes(i, "rejected") \/ Goes(i, "solanaSeed")
        \/ Goes(i, "vechainKey") \/ Ends(i, "error")
    BY <1>1 DEF AuthToken
  <2> QED
    BY <2>1, <2>2, <2>3, GoesOn, Ended
<1>2. CASE VeChainKey(i)
  <2>1. Running(i) /\ "unbuilt" \in Ats \ Pending /\ Ends(i, "unbuilt")
    BY <1>2 DEF VeChainKey, Awaits, Running, Pending, Ats
  <2> QED
    BY <2>1, Ended
<1>3. CASE SolanaSeed(i)
  <2>1. Running(i) /\ "error" \in Ats \ Pending /\ "blockhash" \in Pending
    BY <1>3 DEF SolanaSeed, Awaits, Running, Pending, Ats
  <2>2. \/ Ends(i, "error")
        \/ /\ transfer[i].reviewed.recipient \in SolanaAddresses
           /\ transfer[i].reviewed.amount # NaN
           /\ Goes(i, "blockhash")
    BY <1>3 DEF SolanaSeed
  <2> QED
    BY <2>1, <2>2, GoesOn, Ended
<1>4. CASE Blockhash(i)
  BY <1>4, Requested
<1>5. CASE Post(i) \/ Text(i)
  <2>1. /\ Running(i) /\ "text" \in Pending
        /\ {"success", "failed", "error"} \subseteq Ats \ Pending
    BY <1>5 DEF Post, Text, Awaits, Running, Pending, Ats
  <2>2. \/ Goes(i, "text") \/ Ends(i, "failed") \/ Ends(i, "error")
        \/ Ends(i, "success")
    BY <1>5 DEF Post, Text
  <2> QED
    BY <2>1, <2>2, GoesOn, Ended
<1> QED
  BY <1>1, <1>2, <1>3, <1>4, <1>5 DEF Answers

-----------------------------------------------------------------------------
(* The steps of the user.                                                  *)

LEMMA InitSound == TransferInit => TransferInv
<1> SUFFICES ASSUME TransferInit PROVE TransferInv
  OBVIOUS
<1> USE DEF TransferInit
<1>1. FormOK
  BY DEF FormOK, Amounts, Recipients
<1>2. TransfersSound
  BY DEF TransfersSound
<1>3. ModalIsReviewed /\ OneTransferAtATime /\ LoadingIsOfATransfer
  BY DEF ModalIsReviewed, OneTransferAtATime, LoadingIsOfATransfer, Running,
         Pending
<1>4. DOMAIN transfer = Transfers /\ transfer = [i \in Transfers |-> transfer[i]]
  OBVIOUS
<1> QED
  BY <1>1, <1>2, <1>3, <1>4 DEF TransferInv

(* The user edits the form or reviews it: the transfers are what they were.*)
LEMMA FormSound ==
    ASSUME TransferInv, FormOK', ModalIsReviewed',
           UNCHANGED <<loading, transfer>>
    PROVE  TransferInv'
<1> USE DEF TransferInv
<1>1. TransfersSound'
  BY DEF TransfersSound, Sound, AsReviewed, Valid, NoRequest
<1>2. OneTransferAtATime' /\ LoadingIsOfATransfer'
  BY DEF OneTransferAtATime, LoadingIsOfATransfer, Running
<1> QED
  BY <1>1, <1>2

LEMMA ConfirmSound ==
    ASSUME TransferInv, NEW i \in Transfers, HandleConfirmTransfer(i)
    PROVE  TransferInv'
<1> USE DEF TransferInv, HandleConfirmTransfer
<1> DEFINE f == [amount |-> amount, recipient |-> recipient, token |-> token]
           s == [at |-> "authToken", mine |-> TRUE, request |-> NoRequest,
                 reviewed |-> f]
<1>1. f \in Form /\ Valid(f) /\ ~ loading
  BY DEF FormOK, Form, ModalIsReviewed
<1>2. /\ s \in Confirmed /\ s.at = "authToken" /\ s.reviewed = f
      /\ s.request = NoRequest
  BY <1>1 DEF Confirmed, Ats
<1>3. transfer' = [transfer EXCEPT ![i] = s]
  OBVIOUS
<1> HIDE DEF s, f
<1>4. Sound(s)
  BY <1>1, <1>2 DEF Sound
<1>5. transfer'[i] = s /\ \A j \in Transfers \ {i} : transfer'[j] = transfer[j]
  BY <1>3
<1>6. TransfersSound'
  <2>1. \A j \in Transfers :
           transfer'[j] = [at |-> "none"] \/ Sound(transfer'[j])
    BY <1>4, <1>5 DEF TransfersSound
  <2> QED
    BY <2>1 DEF TransfersSound, Sound, AsReviewed, Valid, NoRequest
<1>7. FormOK' /\ ModalIsReviewed'
  BY DEF FormOK, ModalIsReviewed, form
<1>8. OneTransferAtATime'
  <2>1. \A j \in Transfers \ {i} : ~ (Running(j)' /\ transfer'[j].mine)
    BY <1>1, <1>5 DEF OneTransferAtATime, Running
  <2> QED
    BY <2>1 DEF OneTransferAtATime, Running
<1>9. /\ DOMAIN transfer' = Transfers
      /\ transfer' = [j \in Transfers |-> transfer'[j]]
  BY <1>3
<1>10. LoadingIsOfATransfer'
  <2>1. transfer'[i].at \in Pending /\ transfer'[i].mine
    BY <1>3, <1>5 DEF s, Pending
  <2> QED
    BY <2>1 DEF LoadingIsOfATransfer, Pending
<1> QED
  BY <1>6, <1>7, <1>8, <1>9, <1>10

LEMMA ReopenSound ==
    ASSUME TransferInv, Reopen
    PROVE  TransferInv'
<1> USE DEF TransferInv, Reopen
<1>1. FormOK' /\ ModalIsReviewed'
  BY DEF FormOK, ModalIsReviewed, Amounts, Recipients
<1>2. ASSUME NEW i \in Transfers, Sound(transfer[i])
      PROVE  /\ transfer'[i] = [transfer[i] EXCEPT !.mine = FALSE]
             /\ ~ transfer'[i].mine
  BY <1>2 DEF Sound, Confirmed, Ats
<1>3. ASSUME NEW i \in Transfers, transfer[i] = [at |-> "none"]
      PROVE  transfer'[i] = [at |-> "none"]
  BY <1>3
<1>4. TransfersSound'
  <2>1. ASSUME NEW i \in Transfers, Sound(transfer[i])
        PROVE  Sound(transfer'[i])
    BY <1>2, <2>1, OrphanedSound
  <2>2. \A i \in Transfers :
           transfer'[i] = [at |-> "none"] \/ Sound(transfer'[i])
    BY <1>3, <2>1 DEF TransfersSound
  <2> QED
    BY <2>2 DEF TransfersSound, Sound, AsReviewed, Valid, NoRequest
<1>5. OneTransferAtATime'
  <2>1. \A i \in Transfers : ~ (Running(i)' /\ transfer'[i].mine)
    BY <1>2, <1>3 DEF TransfersSound, Running, Pending
  <2> QED
    BY <2>1 DEF OneTransferAtATime
<1>6. /\ DOMAIN transfer' = Transfers
      /\ transfer' = [i \in Transfers |-> transfer'[i]]
  OBVIOUS
<1>7. LoadingIsOfATransfer'
  BY DEF LoadingIsOfATransfer
<1> QED
  BY <1>1, <1>4, <1>5, <1>6, <1>7

LEMMA UserSound ==
    ASSUME TransferInv, User
    PROVE  TransferInv'
<1> USE DEF TransferInv
<1>1. CASE Edit
  <2>1. FormOK'
    BY <1>1, TransferAssumption DEF Edit, FormOK, Amounts
  <2>2. ModalIsReviewed'
    BY <1>1 DEF Edit, Editing, ModalIsReviewed, FormOK
  <2> QED
    BY <1>1, <2>1, <2>2, FormSound DEF Edit
<1>2. CASE HandleMaxPress
  <2>1. FormOK'
    BY <1>2, TransferAssumption DEF HandleMaxPress, FormOK, Amounts
  <2>2. ModalIsReviewed'
    BY <1>2 DEF HandleMaxPress, Editing, ModalIsReviewed, FormOK
  <2> QED
    BY <1>2, <2>1, <2>2, FormSound DEF HandleMaxPress
<1>3. CASE HandleReviewTransfer
  <2>1. crashed' \in BOOLEAN /\ modalVisible' \in BOOLEAN
    BY <1>3 DEF HandleReviewTransfer
  <2>2. FormOK'
    BY <1>3, <2>1 DEF HandleReviewTransfer, FormOK, form
  <2>3. ModalIsReviewed'
    BY <1>3 DEF HandleReviewTransfer, ModalIsReviewed, form, Valid,
                IsValidRecipient, IsValidAmount
  <2> QED
    BY <1>3, <2>2, <2>3, FormSound DEF HandleReviewTransfer
<1>4. CASE OnRequestClose
  <2>1. FormOK' /\ ModalIsReviewed'
    BY <1>4 DEF OnRequestClose, FormOK, ModalIsReviewed, form
  <2> QED
    BY <1>4, <2>1, FormSound DEF OnRequestClose
<1>5. CASE Reopen
  BY <1>5, ReopenSound
<1>6. ASSUME NEW i \in Transfers, HandleConfirmTransfer(i)
      PROVE  TransferInv'
  BY <1>6, ConfirmSound
<1> QED
  BY <1>1, <1>2, <1>3, <1>4, <1>5, <1>6 DEF User

-----------------------------------------------------------------------------
LEMMA InvHolds == TransferSpec => []TransferInv
<1>1. TransferInit => TransferInv
  BY InitSound
<1>2. TransferInv /\ [TransferNext]_transferVars => TransferInv'
  <2> SUFFICES ASSUME TransferInv, [TransferNext]_transferVars
               PROVE  TransferInv'
    OBVIOUS
  <2>1. CASE User
    BY <2>1, UserSound
  <2>2. ASSUME NEW i \in Transfers, Answers(i)
        PROVE  TransferInv'
    BY <2>2, AnswersSound
  <2>3. CASE UNCHANGED transferVars
    BY <2>3 DEF transferVars, form, TransferInv, FormOK, TransfersSound,
                ModalIsReviewed, OneTransferAtATime, LoadingIsOfATransfer,
                Running, Sound, AsReviewed, Valid, NoRequest
  <2> QED
    BY <2>1, <2>2, <2>3 DEF TransferNext
<1> QED
  BY <1>1, <1>2, PTL DEF TransferSpec

(* The form, the flags and every transfer have the types of the code's     *)
(* state, for any tokens, balances and number of transfers.                *)
THEOREM TransferTypeCorrect == TransferSpec => []TransferTypeOK
<1>1. TransferInv => TransferTypeOK
  <2> SUFFICES ASSUME TransferInv PROVE TransferTypeOK
    OBVIOUS
  <2>1. \A i \in Transfers : transfer[i] \in Transfer
    BY DEF TransferInv, TransfersSound, Sound, Transfer, Confirmed, Ats
  <2> QED
    BY <2>1 DEF TransferInv, TransferTypeOK, FormOK
<1> QED
  BY <1>1, InvHolds, PTL

(* loading is a lock on the Review button: the mounted screen has at most  *)
(* one transfer running, however screens are left and opened again.        *)
THEOREM TransfersExcludeEachOther == TransferSpec => []OneTransferAtATime
<1>1. TransferInv => OneTransferAtATime
  BY DEF TransferInv
<1> QED
  BY <1>1, InvHolds, PTL

(* A screen that loads has a transfer out, or one the Keychain rejected.   *)
THEOREM LoadingOnlyForTransfers == TransferSpec => []LoadingIsOfATransfer
<1>1. TransferInv => LoadingIsOfATransfer
  BY DEF TransferInv
<1> QED
  BY <1>1, InvHolds, PTL

(* What is signed and posted is the reviewed amount, to the last part, to  *)
(* the reviewed recipient, and of the reviewed token if that is the Mint:  *)
(* of any other token it is the Mint that is sent.                         *)
THEOREM MintSentAsReviewed == TransferSpec => []SentAsReviewedIfMint
<1>1. TransferInv => SentAsReviewedIfMint
  <2> SUFFICES ASSUME TransferInv, NEW i \in Transfers,
                      transfer[i].at # "none", transfer[i].request # NoRequest
               PROVE  /\ AsReviewed(transfer[i].request, transfer[i].reviewed)
                      /\ transfer[i].request.token = Mint
    BY Zenon DEF SentAsReviewedIfMint
  <2> QED
    BY DEF TransferInv, TransfersSound, Sound
<1> QED
  BY <1>1, InvHolds, PTL

(* Whatever passes the comparisons with NaN and undefined, only positive   *)
(* amounts that the balance covers are posted, to Solana addresses.        *)
THEOREM TransfersCovered == TransferSpec => []SentIsCovered
<1>1. TransferInv => SentIsCovered
  BY DEF TransferInv, TransfersSound, Sound, SentIsCovered
<1> QED
  BY <1>1, InvHolds, PTL

-----------------------------------------------------------------------------
(* The transfers as orders.                                                *)

Ordered == [i \in Transfers |-> OrderOf(transfer[i])]

OrderedPost == {"post", "text"}

(* What the order of a confirmed transfer is made of.                      *)
TermsOf(r) == [signed |-> r.reviewed.amount, said |-> r.reviewed.amount,
               token |-> r.reviewed.token, recipient |-> r.reviewed.recipient]
PostedOf(r) == IF r.request = NoRequest THEN NoRequest ELSE TermsOf(r)

(* This is where the token matters: of the Mint only is the request, which *)
(* is for the Mint whatever was reviewed, a request in the reviewed terms. *)
LEMMA OrderParts ==
    ASSUME NEW r, Sound(r), r.reviewed.token = Mint
    PROVE  OrderOf(r) = [at |-> IF r.at \in OrderedPost THEN "posted"
                                ELSE IF r.at \in Pending THEN "confirmed"
                                ELSE "over",
                         terms |-> TermsOf(r), posted |-> PostedOf(r)]
<1>1. r.at \in Ats
  BY DEF Sound, Confirmed
<1>2. r.request # NoRequest =>
         [signed |-> r.request.units, said |-> r.request.amount * Part,
          token |-> r.request.token,
          recipient |-> r.request.recipient] = TermsOf(r)
  BY DEF Sound, AsReviewed, TermsOf
<1>3. IsOrder(r)
  BY <1>1 DEF Ats, IsOrder
<1> QED
  BY <1>1, <1>2, <1>3 DEF OrderOf, PostedOf, TermsOf, OrderedPost, Pending

(* What the orders become, when transfer i becomes s.                      *)
LEMMA OneOrder ==
    ASSUME TransferInv, NEW i \in Transfers, NEW s,
           transfer' = [transfer EXCEPT ![i] = s]
    PROVE  Ordered' = [Ordered EXCEPT ![i] = OrderOf(s)]
<1>1. /\ transfer'[i] = s
      /\ \A j \in Transfers \ {i} : transfer'[j] = transfer[j]
  BY DEF TransferInv
<1>2. \A j \in Transfers : OrderOf(transfer'[j]) =
                            IF j = i THEN OrderOf(s) ELSE Ordered[j]
  BY <1>1 DEF Ordered
<1>3. Ordered' = [j \in Transfers |-> OrderOf(transfer'[j])]
  BY DEF Ordered, OrderOf, IsOrder, NoRequest, Pending
<1> QED
  BY <1>2, <1>3 DEF Ordered

(* A transfer of another token is no order before its step and after it.   *)
LEMMA NoOrder ==
    ASSUME TransferInv, NEW i \in Transfers, NEW s,
           ~ IsOrder(transfer[i]), ~ IsOrder(s),
           transfer' = [transfer EXCEPT ![i] = s]
    PROVE  Ordered' = Ordered
<1>1. OrderOf(s) = OrderOf(transfer[i])
  BY DEF OrderOf
<1>2. Ordered' = [Ordered EXCEPT ![i] = OrderOf(s)]
  BY OneOrder
<1> QED
  BY <1>1, <1>2 DEF Ordered

LEMMA ConfirmsOrder ==
    ASSUME TransferInv, NEW i \in Transfers, HandleConfirmTransfer(i),
           token = Mint
    PROVE  Orders!Confirm(i)
<1> DEFINE f == [amount |-> amount, recipient |-> recipient, token |-> token]
           t == [signed |-> amount, said |-> amount, token |-> token,
                 recipient |-> recipient]
<1>1. PICK s : s = [at |-> "authToken", mine |-> TRUE, request |-> NoRequest,
                    reviewed |-> f]
  OBVIOUS
<1>2. t \in Payment
  BY DEF TransferInv, FormOK, Payment
<1>3. OrderOf(s) = [at |-> "confirmed", terms |-> t, posted |-> NoRequest]
  BY <1>1 DEF OrderOf, IsOrder, Pending
<1>4. transfer' = [transfer EXCEPT ![i] = s]
  BY <1>1 DEF HandleConfirmTransfer
<1>5. Ordered' = [Ordered EXCEPT ![i] = OrderOf(s)]
  BY <1>4, OneOrder
<1>6. Ordered[i] = [at |-> "none"] /\ Ordered'[i] = OrderOf(s)
  BY <1>5 DEF Ordered, OrderOf, IsOrder, HandleConfirmTransfer
<1>7. /\ Ordered'[i].at = "confirmed" /\ Ordered'[i].terms \in Payment
      /\ OrderOf(s) = Orders!Confirmed(Ordered'[i].terms)
  BY <1>2, <1>3, <1>6 DEF Orders!Confirmed
<1> HIDE DEF Orders!Confirmed
<1> QED
  BY <1>5, <1>6, <1>7 DEF Orders!Confirm, Orders!Free, Ordered

(* A transfer that moves on between awaits of one kind is the order it was.*)
LEMMA SameOrder ==
    ASSUME TransferInv, NEW i \in Transfers, Running(i), NEW at \in Pending,
           transfer[i].at \in OrderedPost <=> at \in OrderedPost,
           transfer' = [transfer EXCEPT ![i].at = at]
    PROVE  Ordered' = Ordered
<1>1. Sound(transfer[i]) /\ transfer[i].at \in Pending
  BY DEF TransferInv, TransfersSound, Running, Pending
<1>2. PICK s : s = [transfer[i] EXCEPT !.at = at]
  OBVIOUS
<1>3. /\ s.at = at /\ s.reviewed = transfer[i].reviewed
      /\ s.request = transfer[i].request
  BY <1>1, <1>2 DEF Sound, Confirmed
<1>4. OrderOf(s) = OrderOf(transfer[i])
  BY <1>1, <1>3 DEF OrderOf, IsOrder, OrderedPost, Pending
<1>5. transfer' = [transfer EXCEPT ![i] = s]
  BY <1>2
<1>6. Ordered' = [Ordered EXCEPT ![i] = OrderOf(s)]
  BY <1>5, OneOrder
<1> QED
  BY <1>4, <1>6 DEF Ordered

LEMMA EndsOrder ==
    ASSUME TransferInv, NEW i \in Transfers, Running(i),
           transfer[i].reviewed.token = Mint,
           NEW at \in Ats \ Pending,
           transfer' = [transfer EXCEPT ![i].at = at]
    PROVE  Orders!End(i)
<1>1. Sound(transfer[i]) /\ transfer[i].at \in Pending
  BY DEF TransferInv, TransfersSound, Running, Pending
<1>2. PICK s : s = [transfer[i] EXCEPT !.at = at]
  OBVIOUS
<1>3. /\ s.at = at /\ s.reviewed = transfer[i].reviewed
      /\ s.request = transfer[i].request
  BY <1>1, <1>2 DEF Sound, Confirmed
<1>4. Sound(s)
  <2>1. at = "blockhash" => FALSE
    BY DEF Pending
  <2> QED
    BY <1>1, <1>2, <2>1, Moved
<1>5. OrderOf(s) = [at |-> "over", terms |-> TermsOf(transfer[i]),
                    posted |-> PostedOf(transfer[i])]
  <2>1. s.at \notin OrderedPost /\ s.at \notin Pending
    BY <1>3 DEF OrderedPost, Pending
  <2>2. TermsOf(s) = TermsOf(transfer[i]) /\ PostedOf(s) = PostedOf(transfer[i])
    BY <1>3 DEF TermsOf, PostedOf
  <2> QED
    BY <1>3, <1>4, <2>1, <2>2, OrderParts
<1>6. /\ Ordered[i].at \in {"confirmed", "posted"}
      /\ Ordered[i].terms = TermsOf(transfer[i])
      /\ Ordered[i].posted = PostedOf(transfer[i])
  BY <1>1, OrderParts DEF Ordered
<1>7. transfer' = [transfer EXCEPT ![i] = s]
  BY <1>2
<1>8. Ordered' = [Ordered EXCEPT ![i] = OrderOf(s)]
  BY <1>7, OneOrder
<1> QED
  BY <1>5, <1>6, <1>8 DEF Orders!End, Ordered

(* The request of a transfer that has the blockhash is of its terms, by    *)
(* the soundness of the transfer after the step.                           *)
LEMMA PostsOrder ==
    ASSUME TransferInv, TransferInv', NEW i \in Transfers, Blockhash(i),
           transfer[i].reviewed.token = Mint
    PROVE  Orders!OrdersNext
<1>1. /\ transfer[i].at = "blockhash" /\ Running(i) /\ Sound(transfer[i])
  BY DEF TransferInv, TransfersSound, Running, Pending, Blockhash, Awaits
<1>2. CASE Ends(i, "error")
  <2>1. "error" \in Ats \ Pending
    BY DEF Ats, Pending
  <2> QED
    BY <1>1, <1>2, <2>1, EndsOrder DEF Ends, Orders!OrdersNext
<1>3. CASE transfer' = [transfer EXCEPT ![i].at = "post",
                                        ![i].request = RequestOf(i)]
  <2>1. PICK s : s = [transfer[i] EXCEPT !.at = "post",
                                         !.request = RequestOf(i)]
    OBVIOUS
  <2>2. transfer' = [transfer EXCEPT ![i] = s]
    BY <1>3, <2>1
  <2>3. /\ s.at = "post" /\ s.reviewed = transfer[i].reviewed
        /\ s.request = RequestOf(i)
    BY <1>1, <2>1 DEF Sound, Confirmed
  <2>4. transfer'[i] = s /\ s # [at |-> "none"]
    BY <2>2, <2>3 DEF TransferInv
  <2>5. Sound(s)
    BY <2>4 DEF TransferInv, TransfersSound, Sound, AsReviewed, Valid, NoRequest
  <2>6. RequestOf(i) # NoRequest
    BY DEF RequestOf, NoRequest
  <2>7. OrderOf(s) = [at |-> "posted", terms |-> TermsOf(transfer[i]),
                      posted |-> TermsOf(transfer[i])]
    <3>1. s.at \in OrderedPost
      BY <2>3 DEF OrderedPost
    <3>2. TermsOf(s) = TermsOf(transfer[i]) /\ PostedOf(s) = TermsOf(s)
      BY <2>3, <2>6 DEF TermsOf, PostedOf
    <3> QED
      BY <2>3, <2>5, <3>1, <3>2, OrderParts
  <2>8. /\ Ordered[i].at = "confirmed"
        /\ Ordered[i].terms = TermsOf(transfer[i])
    <3>1. transfer[i].at \in Pending /\ transfer[i].at \notin OrderedPost
      BY <1>1 DEF Pending, OrderedPost
    <3> QED
      BY <1>1, <3>1, OrderParts DEF Ordered
  <2>9. Ordered' = [Ordered EXCEPT ![i] = OrderOf(s)]
    BY <2>2, OneOrder
  <2>10. Orders!Post(i)
    BY <2>7, <2>8, <2>9 DEF Orders!Post, Ordered
  <2> QED
    BY <2>10 DEF Orders!OrdersNext
<1> QED
  BY <1>2, <1>3 DEF Blockhash

LEMMA AnswersOrder ==
    ASSUME TransferInv, TransferInv', NEW i \in Transfers, Answers(i),
           transfer[i].reviewed.token = Mint
    PROVE  Orders!OrdersNext \/ Ordered' = Ordered
<1>1. Running(i)
  BY DEF Answers, AuthToken, VeChainKey, SolanaSeed, Blockhash, Post, Text,
         Awaits, Running, Pending
<1>2. ASSUME NEW at \in {"rejected", "success", "failed", "unbuilt", "error"},
             transfer' = [transfer EXCEPT ![i].at = at]
      PROVE  Orders!OrdersNext
  <2>1. at \in Ats \ Pending
    BY DEF Ats, Pending
  <2> QED
    BY <1>1, <1>2, <2>1, EndsOrder DEF Orders!OrdersNext
<1>3. ASSUME NEW at \in {"solanaSeed", "blockhash", "vechainKey"},
             transfer[i].at \in {"authToken", "solanaSeed"},
             transfer' = [transfer EXCEPT ![i].at = at]
      PROVE  Ordered' = Ordered
  <2>1. /\ at \in Pending /\ at \notin OrderedPost
        /\ transfer[i].at \notin OrderedPost
    BY <1>3 DEF Pending, OrderedPost
  <2> QED
    BY <1>1, <1>3, <2>1, SameOrder
<1>4. CASE AuthToken(i)
  BY <1>2, <1>3, <1>4 DEF AuthToken, Awaits, Goes, Ends
<1>5. CASE VeChainKey(i)
  BY <1>2, <1>5 DEF VeChainKey, Ends
<1>6. CASE SolanaSeed(i)
  BY <1>2, <1>3, <1>6 DEF SolanaSeed, Awaits, Goes, Ends
<1>7. CASE Blockhash(i)
  BY <1>7, PostsOrder
<1>8. CASE Post(i)
  <2>1. CASE Goes(i, "text")
    <3>1. /\ "text" \in Pending /\ "text" \in OrderedPost
          /\ transfer[i].at \in OrderedPost
      BY <1>8 DEF Pending, OrderedPost, Post, Awaits
    <3> QED
      BY <1>1, <2>1, <3>1, SameOrder DEF Goes
  <2> QED
    BY <1>2, <1>8, <2>1 DEF Post, Ends
<1>9. CASE Text(i)
  BY <1>2, <1>9 DEF Text, Ends
<1> QED
  BY <1>4, <1>5, <1>6, <1>7, <1>8, <1>9 DEF Answers

(* The screen is left: its transfers are the orders they were.             *)
LEMMA ReopenKeepsOrders ==
    ASSUME TransferInv, Reopen
    PROVE  Ordered' = Ordered
<1>1. ASSUME NEW i \in Transfers
      PROVE  OrderOf(transfer'[i]) = OrderOf(transfer[i])
  <2>1. CASE transfer[i] = [at |-> "none"]
    BY <2>1 DEF Reopen
  <2>2. CASE Sound(transfer[i])
    <3>1. /\ transfer'[i] = [transfer[i] EXCEPT !.mine = FALSE]
          /\ transfer[i] \in Confirmed
      BY <2>2 DEF Reopen, Sound, Confirmed, Ats
    <3>2. /\ transfer'[i].at = transfer[i].at
          /\ transfer'[i].reviewed = transfer[i].reviewed
          /\ transfer'[i].request = transfer[i].request
      BY <3>1 DEF Confirmed
    <3> QED
      BY <3>2 DEF OrderOf, IsOrder
  <2> QED
    BY <2>1, <2>2 DEF TransferInv, TransfersSound
<1>2. Ordered' = [i \in Transfers |-> OrderOf(transfer'[i])]
  BY DEF Ordered, OrderOf, IsOrder, NoRequest, Pending
<1> QED
  BY <1>1, <1>2 DEF Ordered

(* A transfer of another token moves past the orders, whatever it does.    *)
LEMMA OtherTokensAreNoOrders ==
    ASSUME TransferInv, NEW i \in Transfers, Answers(i),
           transfer[i].reviewed.token # Mint
    PROVE  Ordered' = Ordered
<1>1. Running(i)
  BY DEF Answers, AuthToken, VeChainKey, SolanaSeed, Blockhash, Post, Text,
         Awaits, Running, Pending
<1>2. Sound(transfer[i])
  BY <1>1 DEF TransferInv, TransfersSound, Running, Pending
<1>3. \/ \E at \in Ats : transfer' = [transfer EXCEPT ![i].at = at]
      \/ transfer' = [transfer EXCEPT ![i].at = "post",
                                      ![i].request = RequestOf(i)]
  BY DEF Answers, AuthToken, VeChainKey, SolanaSeed, Blockhash, Post, Text,
         Goes, Ends, Ats
<1>4. PICK s : /\ transfer' = [transfer EXCEPT ![i] = s]
               /\ s.reviewed = transfer[i].reviewed
  <2>1. CASE \E at \in Ats : transfer' = [transfer EXCEPT ![i].at = at]
    <3>1. PICK at \in Ats : transfer' = [transfer EXCEPT ![i].at = at]
      BY <2>1
    <3>2. PICK s : s = [transfer[i] EXCEPT !.at = at]
      OBVIOUS
    <3>3. s.reviewed = transfer[i].reviewed
      BY <1>2, <3>2 DEF Sound, Confirmed
    <3>4. transfer' = [transfer EXCEPT ![i] = s]
      BY <3>1, <3>2
    <3> QED
      BY <3>3, <3>4
  <2>2. CASE transfer' = [transfer EXCEPT ![i].at = "post",
                                          ![i].request = RequestOf(i)]
    <3>1. PICK s : s = [transfer[i] EXCEPT !.at = "post",
                                           !.request = RequestOf(i)]
      OBVIOUS
    <3>2. s.reviewed = transfer[i].reviewed
      BY <1>2, <3>1 DEF Sound, Confirmed
    <3>3. transfer' = [transfer EXCEPT ![i] = s]
      BY <2>2, <3>1
    <3> QED
      BY <3>2, <3>3
  <2> QED
    BY <1>3, <2>1, <2>2
<1>5. ~ IsOrder(transfer[i]) /\ ~ IsOrder(s)
  BY <1>4 DEF IsOrder
<1> QED
  BY <1>4, <1>5, NoOrder

LEMMA OtherConfirmsNoOrder ==
    ASSUME TransferInv, NEW i \in Transfers, HandleConfirmTransfer(i),
           token # Mint
    PROVE  Ordered' = Ordered
<1> DEFINE f == [amount |-> amount, recipient |-> recipient, token |-> token]
<1>1. PICK s : s = [at |-> "authToken", mine |-> TRUE, request |-> NoRequest,
                    reviewed |-> f]
  OBVIOUS
<1>2. transfer' = [transfer EXCEPT ![i] = s]
  BY <1>1 DEF HandleConfirmTransfer
<1>3. ~ IsOrder(transfer[i]) /\ ~ IsOrder(s)
  BY <1>1 DEF IsOrder, HandleConfirmTransfer
<1> QED
  BY <1>2, <1>3, NoOrder

(* Each confirmed transfer of the Mint is an order: it is signed and posted*)
(* at most once, in the terms of the modal, the token among them, and never*)
(* after it ended, whatever the user does to the form and whatever is      *)
(* answered.  For other tokens this fails at the token: OrderParts.        *)
THEOREM MintTransfersAreOrders == TransferSpec => MintTransfersKeepOrders
<1>1. TransferInit => Orders!OrdersInit
  BY DEF TransferInit, Orders!OrdersInit, Orders!Free, OrderOf, IsOrder
<1>2. TransferInv /\ TransferInv' /\ [TransferNext]_transferVars =>
         [Orders!OrdersNext]_Ordered
  <2> SUFFICES ASSUME TransferInv, TransferInv', [TransferNext]_transferVars
               PROVE  Orders!OrdersNext \/ Ordered' = Ordered
    OBVIOUS
  <2>1. ASSUME NEW i \in Transfers, HandleConfirmTransfer(i)
        PROVE  Orders!OrdersNext \/ Ordered' = Ordered
    <3>1. CASE token = Mint
      BY <2>1, <3>1, ConfirmsOrder DEF Orders!OrdersNext
    <3>2. CASE token # Mint
      BY <2>1, <3>2, OtherConfirmsNoOrder
    <3> QED
      BY <3>1, <3>2
  <2>2. ASSUME NEW i \in Transfers, Answers(i)
        PROVE  Orders!OrdersNext \/ Ordered' = Ordered
    <3>1. CASE transfer[i].reviewed.token = Mint
      BY <2>2, <3>1, AnswersOrder
    <3>2. CASE transfer[i].reviewed.token # Mint
      BY <2>2, <3>2, OtherTokensAreNoOrders
    <3> QED
      BY <3>1, <3>2
  <2>3. CASE Reopen
    BY <2>3, ReopenKeepsOrders
  <2>4. CASE transfer' = transfer
    BY <2>4 DEF Ordered, OrderOf, IsOrder, NoRequest, Pending
  <2> QED
    BY <2>1, <2>2, <2>3, <2>4
       DEF TransferNext, User, transferVars, Edit, HandleMaxPress,
           HandleReviewTransfer, OnRequestClose
<1>3. TransferInv /\ TransferInv' /\ [TransferNext]_transferVars =>
         [Orders!OrdersNext]_[i \in Transfers |-> OrderOf(transfer[i])]
  BY <1>2 DEF Ordered
<1> QED
  BY <1>1, <1>3, InvHolds, PTL
     DEF TransferSpec, MintTransfersKeepOrders, Orders!OrdersSteps
=============================================================================

---------------------------- MODULE TransferScreen ----------------------------
(***************************************************************************)
(* The Transfer screen (src/src/screens/Transfer.Screen.tsx) and all that  *)
(* a confirmed transfer goes through: WalletContext.signTransaction,       *)
(* BlockchainFetcher.SignTransaction, the provider of the chain, and the   *)
(* request to the server.                                                  *)
(*                                                                         *)
(* A transfer is an activation of performTransfer.  It works with the      *)
(* values of the render whose Confirm was tapped, and goes on when the     *)
(* user edits the form, leaves the screen or opens it again meanwhile.     *)
(***************************************************************************)
EXTENDS Naturals

CONSTANTS
    Tokens,             \* route.params.tokens
    ChainOf,            \* the chain of each token
    AmountOf,           \* token.amount, in parts of a token; may be Empty
    Typed,              \* the amounts typed, in parts of a token
    Part,               \* the parts of a token
    Mint,               \* the token whose address is in signTransaction
    Empty,              \* '' or undefined
    NaN,                \* a text that is no number, such as "1.2.3"
    SolanaAddresses, EthereumAddresses,
    Refused,            \* the zero address, keys that are off the curve
    Unreadable,         \* texts that new PublicKey throws on
    Transfers           \* bound: transfers ever confirmed

ASSUME TransferAssumption ==
    /\ Part \in Nat \ {0}
    /\ Typed \subseteq Nat /\ {Empty, NaN} \cap Nat = {} /\ Empty # NaN
    /\ AmountOf \in [Tokens -> Nat \cup {Empty}]
    /\ ChainOf \in [Tokens -> {"solana", "vechain", "ethereum"}]
    /\ Unreadable \cap (SolanaAddresses \cup EthereumAddresses) = {}
    /\ Empty \notin SolanaAddresses \cup EthereumAddresses

VARIABLES
    amount, recipient, token,   \* the form
    loading,
    modalVisible,
    transfer,                   \* the transfers
    crashed                     \* history: a handler threw, the app is gone

form == <<amount, recipient, token>>
transferVars == <<form, loading, modalVisible, transfer, crashed>>

Amounts == Nat \cup {Empty, NaN}
Recipients == SolanaAddresses \cup EthereumAddresses \cup Refused
              \cup Unreadable \cup {Empty}

(* mine: the screen that confirmed it is still mounted.  request is what   *)
(* was posted: the parts in the signed instruction, and beside it how many *)
(* tokens, which token, and the recipient.                                 *)
Form == [amount: Amounts, recipient: Recipients, token: Tokens]
Request == [units: Nat, amount: Nat, token: {Mint}, recipient: Recipients]
NoRequest == [units |-> 0, amount |-> 0]

Transfer ==
    [at: {"none"}]
    \cup [at: {"authToken", "solanaSeed", "blockhash", "vechainKey", "post",
               "text", "rejected", "success", "failed", "unbuilt", "error"},
          mine: BOOLEAN, reviewed: Form, request: Request \cup {NoRequest}]

Pending == {"authToken", "solanaSeed", "blockhash", "vechainKey", "post", "text"}
Running(i) == transfer[i].at \in Pending

TransferTypeOK ==
    /\ amount \in Amounts /\ recipient \in Recipients /\ token \in Tokens
    /\ loading \in BOOLEAN /\ modalVisible \in BOOLEAN /\ crashed \in BOOLEAN
    /\ transfer \in [Transfers -> Transfer]

-----------------------------------------------------------------------------
(* The first render of a screen: the first token, an empty form.           *)
TransferInit ==
    /\ amount = Empty /\ recipient = Empty /\ token \in Tokens
    /\ loading = FALSE /\ modalVisible = FALSE
    /\ transfer = [i \in Transfers |-> [at |-> "none"]]
    /\ crashed = FALSE

(* The modal covers the form.                                              *)
Editing == ~ modalVisible /\ ~ crashed

Edit ==
    /\ Editing
    /\ \/ amount' \in Typed \cup {Empty, NaN} /\ UNCHANGED <<recipient, token>>
       \/ recipient' \in Recipients /\ UNCHANGED <<amount, token>>
       \/ token' \in Tokens /\ UNCHANGED <<amount, recipient>>
    /\ UNCHANGED <<loading, modalVisible, transfer, crashed>>

HandleMaxPress ==
    /\ Editing
    /\ amount' = AmountOf[token]
    /\ UNCHANGED <<recipient, token, loading, modalVisible, transfer, crashed>>

IsValidRecipient == recipient \in SolanaAddresses \cup EthereumAddresses

\* Mutation: the amount is compared as text, and any text passes.
IsValidAmountUncapped == amount # Empty /\ amount # 0

(* Comparisons with NaN are false: it is neither <= 0 nor too much.        *)
IsValidAmount ==
    /\ amount # Empty /\ amount # 0
    /\ amount # NaN /\ AmountOf[token] # Empty => amount <= AmountOf[token]

\* Mutation: Review is not disabled while loading.
HandleReviewTransferEnabled ==
    /\ Editing
    /\ crashed' = (recipient \in Unreadable)
    /\ modalVisible' = (IsValidRecipient /\ IsValidAmount)
    /\ UNCHANGED <<form, loading, transfer>>

(* An alert, the modal, or an exception nobody catches.                    *)
HandleReviewTransfer ==
    /\ Editing /\ ~ loading
    /\ crashed' = (recipient \in Unreadable)
    /\ modalVisible' = (IsValidRecipient /\ IsValidAmount)
    /\ UNCHANGED <<form, loading, transfer>>

OnRequestClose ==
    /\ modalVisible
    /\ modalVisible' = FALSE
    /\ UNCHANGED <<form, loading, transfer, crashed>>

HandleConfirmTransfer(i) ==
    /\ modalVisible
    /\ transfer[i].at = "none"
    /\ modalVisible' = FALSE
    /\ loading' = TRUE
    /\ transfer' = [transfer EXCEPT ![i] =
          [at |-> "authToken", mine |-> TRUE, request |-> NoRequest,
           reviewed |-> [amount |-> amount, recipient |-> recipient,
                         token |-> token]]]
    /\ UNCHANGED <<form, crashed>>

\* Mutation: no token is selected until the user picks one.
ReopenUnselected ==
    /\ Editing
    /\ amount' = Empty /\ recipient' = Empty /\ token' = Empty
    /\ loading' = FALSE /\ modalVisible' = FALSE
    /\ transfer' = [i \in Transfers |->
          IF transfer[i].at = "none" THEN transfer[i]
          ELSE [transfer[i] EXCEPT !.mine = FALSE]]
    /\ UNCHANGED crashed

(* The screen is left and another opened: its transfers run on, but their  *)
(* setLoading reaches nobody.                                              *)
Reopen ==
    /\ Editing
    /\ amount' = Empty /\ recipient' = Empty /\ token' \in Tokens
    /\ loading' = FALSE /\ modalVisible' = FALSE
    /\ transfer' = [i \in Transfers |->
          IF transfer[i].at = "none" THEN transfer[i]
          ELSE [transfer[i] EXCEPT !.mine = FALSE]]
    /\ UNCHANGED crashed

-----------------------------------------------------------------------------
(* performTransfer, from one await to the next.                            *)

Awaits(i, at) == transfer[i].at = at /\ ~ crashed

Goes(i, at) ==
    /\ transfer' = [transfer EXCEPT ![i].at = at]
    /\ UNCHANGED <<form, loading, modalVisible, crashed>>

\* Mutation: the return for an unsigned transaction is before the try.
EndsSigned(i, alert) ==
    /\ transfer' = [transfer EXCEPT ![i].at = alert]
    /\ loading' = (loading /\ ~ (transfer[i].mine /\ alert # "unbuilt"))
    /\ UNCHANGED <<form, modalVisible, crashed>>

(* An alert, and the finally clause.                                       *)
Ends(i, alert) ==
    /\ transfer' = [transfer EXCEPT ![i].at = alert]
    /\ loading' = (loading /\ ~ transfer[i].mine)
    /\ UNCHANGED <<form, modalVisible, crashed>>

(* getSecret is outside the try: its rejection ends the transfer without   *)
(* an alert, and loading stays.  SignTransaction goes by the chain; that   *)
(* of Ethereum throws.                                                     *)
AuthToken(i) ==
    /\ Awaits(i, "authToken")
    /\ \/ Goes(i, "rejected")
       \/ CASE ChainOf[transfer[i].reviewed.token] = "solana" ->
                  Goes(i, "solanaSeed")
            [] ChainOf[transfer[i].reviewed.token] = "vechain" ->
                  Goes(i, "vechainKey")
            [] OTHER -> Ends(i, "error")

(* Nothing ever stores a VeChain key: the transaction comes back as it     *)
(* was, without user and signature.                                        *)
VeChainKey(i) ==
    /\ Awaits(i, "vechainKey")
    /\ Ends(i, "unbuilt")

(* new PublicKey throws on an Ethereum address, and BigInt on NaN.         *)
SolanaSeed(i) ==
    /\ Awaits(i, "solanaSeed")
    /\ \/ Ends(i, "error")
       \/ /\ transfer[i].reviewed.recipient \in SolanaAddresses
          /\ transfer[i].reviewed.amount # NaN
          /\ Goes(i, "blockhash")

\* Mutation: the form is read when the transaction is built.
RequestOfLate(i) ==
    [units |-> transfer[i].reviewed.amount,
     amount |-> transfer[i].reviewed.amount \div Part,
     token |-> Mint,
     recipient |-> recipient]

(* The token of the transaction is not read: txn.token is commented out    *)
(* beside the fixed address.                                               *)
RequestOf(i) ==
    [units |-> transfer[i].reviewed.amount,
     amount |-> transfer[i].reviewed.amount \div Part,
     token |-> Mint,
     recipient |-> transfer[i].reviewed.recipient]

(* The transaction is signed and posted, unless BigInt throws on an amount *)
(* that is not whole.                                                      *)
Blockhash(i) ==
    /\ Awaits(i, "blockhash")
    /\ \/ Ends(i, "error")
       \/ /\ transfer[i].reviewed.amount % Part = 0
          /\ transfer' = [transfer EXCEPT ![i].at = "post",
                                          ![i].request = RequestOf(i)]
          /\ UNCHANGED <<form, loading, modalVisible, crashed>>

(* The answer of the server, or none.                                      *)
Post(i) ==
    /\ Awaits(i, "post")
    /\ Goes(i, "text") \/ Ends(i, "failed") \/ Ends(i, "error")

Text(i) ==
    /\ Awaits(i, "text")
    /\ Ends(i, "success") \/ Ends(i, "error")

Answers(i) ==
    \/ AuthToken(i) \/ VeChainKey(i) \/ SolanaSeed(i) \/ Blockhash(i)
    \/ Post(i) \/ Text(i)

User ==
    \/ Edit \/ HandleMaxPress \/ HandleReviewTransfer \/ OnRequestClose
    \/ Reopen
    \/ \E i \in Transfers : HandleConfirmTransfer(i)

TransferNext ==
    \/ User
    \/ \E i \in Transfers : Answers(i)

TransferSpec == TransferInit /\ [][TransferNext]_transferVars

-----------------------------------------------------------------------------
(* However the screen is left, opened again and edited while transfers run,*)
(* the mounted screen has at most one of them, and shows that it has.      *)
OneTransferAtATime ==
    \A i \in Transfers : Running(i) /\ transfer[i].mine =>
       /\ loading
       /\ \A j \in Transfers : Running(j) /\ transfer[j].mine => i = j

(* A transfer of the Mint is sent as the modal showed it when Confirm was  *)
(* tapped: its token, its recipient and its amount, to the last part of a  *)
(* token, whatever the form has become.  A transfer of any other token of  *)
(* Solana is sent too, but not as the modal showed it: in the amount and   *)
(* to the recipient, of the Mint's tokens.  Neither is rounded, and what   *)
(* passes handleReviewTransfer without being an amount is never posted.    *)
AsReviewed(request, reviewed) ==
    /\ request.units = reviewed.amount
    /\ request.amount * Part = reviewed.amount
    /\ request.recipient = reviewed.recipient

SentAsReviewedIfMint ==
    \A i \in Transfers :
        transfer[i].at # "none" /\ transfer[i].request # NoRequest =>
           LET request == transfer[i].request
               reviewed == transfer[i].reviewed
           IN  /\ AsReviewed(request, reviewed)
               /\ request.token = reviewed.token <=> reviewed.token = Mint

(* Whatever is answered, in whatever order, each confirmed transfer of the *)
(* Mint is an order of what the modal showed: it is signed and posted at   *)
(* most once, for the token, the amount and the recipient that were        *)
(* reviewed, and never after the alert that ends it.  Transfers of other   *)
(* tokens are no such orders, as the token that is posted is not theirs.   *)
Payment == [signed: Amounts, said: Amounts, token: Tokens,
            recipient: Recipients]

IsOrder(r) == r.at # "none" /\ r.reviewed.token = Mint

OrderOf(r) ==
    IF ~ IsOrder(r) THEN [at |-> "none"]
    ELSE [at |-> CASE r.at \in {"post", "text"} -> "posted"
                   [] r.at \in Pending \ {"post", "text"} -> "confirmed"
                   [] OTHER -> "over",
          terms |-> [signed |-> r.reviewed.amount, said |-> r.reviewed.amount,
                     token |-> r.reviewed.token,
                     recipient |-> r.reviewed.recipient],
          posted |-> IF r.request = NoRequest THEN NoRequest
                     ELSE [signed |-> r.request.units,
                           said |-> r.request.amount * Part,
                           token |-> r.request.token,
                           recipient |-> r.request.recipient]]

Orders == INSTANCE Orders WITH
    Ids <- Transfers, Terms <- Payment, Nothing <- NoRequest,
    order <- [i \in Transfers |-> OrderOf(transfer[i])]

MintTransfersKeepOrders == Orders!OrdersSteps

(* A request is for a payment: a positive amount that the token it was     *)
(* reviewed for has, where its balance is known, to a Solana address.  It  *)
(* says nothing of the balance of the Mint, which no code compares with    *)
(* the amount unless the Mint is what was reviewed.                        *)
SentIsCovered ==
    \A i \in Transfers :
        transfer[i].at # "none" /\ transfer[i].request # NoRequest =>
           LET request == transfer[i].request
               balance == AmountOf[transfer[i].reviewed.token]
           IN  /\ request.units > 0
               /\ balance # Empty => request.units <= balance
               /\ request.recipient \in SolanaAddresses

(* No path through the providers and the server leaves the screen loading: *)
(* it does only while a transfer of its own runs, or when the Keychain has *)
(* rejected the first call of one, which no clause of the code handles.    *)
LoadingIsOfATransfer ==
    loading =>
       \E i \in Transfers :
          /\ transfer[i].at \in Pending \cup {"rejected"}
          /\ transfer[i].mine
=============================================================================

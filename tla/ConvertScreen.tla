---------------------------- MODULE ConvertScreen ----------------------------
(***************************************************************************)
(* The Convert screen (src/src/screens/Convert.screen.tsx): the form, the  *)
(* dialog and the conversions it starts, over a stack of which only the    *)
(* screen above the dashboard matters.                                     *)
(*                                                                         *)
(* Nothing is disabled while a conversion is out, so there may be several, *)
(* also of a screen that is closed, and each calls goBack when it ends.    *)
(* The dialog is an Alert: it stays when the screen under it goes.         *)
(* fromValue and toValue are always set together, and so are the warning   *)
(* and isButtonDisabled: value and insufficient.  A screen is opened for   *)
(* one token and the credit that names it, which have the names fromAsset  *)
(* and toAsset whichever way they are swapped: token.                      *)
(***************************************************************************)
EXTENDS Naturals

CONSTANTS
    Tokens,         \* the tokens that a credit names, by their symbol
    STOP,           \* the symbol that performConvertion knows
    NoToken,        \* '', the token of a request that names none
    CreditAmount,   \* credit.amount
    TokenAmount,    \* +token.amount of each token
    Values,         \* the amounts typed
    NaN,            \* what sanitizeInput makes of "." or "1.2.3"
    Null,           \* what JSON.stringify makes of NaN
    Conversions     \* bound: conversions ever confirmed

ASSUME ConvertAssumption ==
    /\ CreditAmount \in Nat /\ TokenAmount \in [Tokens -> Nat]
    /\ Values \subseteq Nat /\ {NaN, Null} \cap Nat = {} /\ NaN # Null
    /\ NoToken \notin Tokens \cup {STOP}

VARIABLES
    focused,        \* the dashboard, or the screen above it
    token,          \* the token of the pair
    fromAssetType,
    value,
    fromBalance, toBalance,
    insufficient,
    dialog,         \* what the open dialog asks
    conversion      \* the activations of performConvertion

form == <<token, fromAssetType, value, fromBalance, toBalance, insufficient>>
convertVars == <<focused, form, dialog, conversion>>

Types == {"Credits", "Tokens"}
Other(type) == IF type = "Credits" THEN "Tokens" ELSE "Credits"
BalanceOf(type, t) == IF type = "Credits" THEN CreditAmount ELSE TokenAmount[t]

(* What a dialog says, and what a request does.                            *)
Exchange == [amount: Nat \cup {NaN}, to: Types, token: Tokens]
Request == [amount: Nat \cup {Null}, to: Types, token: {STOP, NoToken}]
Nothing == [to |-> "nothing"]

(* mine: the screen of the conversion is still there.  asked is what the   *)
(* dialog said, posted what the request says.                              *)
Conversion ==
    [at: {"none"}]
    \cup [at: {"authToken", "post", "text", "rejected", "success", "failed"},
          mine: BOOLEAN, asked: Exchange, posted: Request \cup {Nothing}]

Running(i) == conversion[i].at \in {"authToken", "post", "text"}

ConvertTypeOK ==
    /\ focused \in {"WalletDashboard", "Convert", "another"}
    /\ token \in Tokens /\ fromAssetType \in Types
    /\ value \in Nat \cup {NaN}
    /\ fromBalance \in Nat /\ toBalance \in Nat
    /\ insufficient \in BOOLEAN
    /\ dialog \in Exchange \cup {Nothing}
    /\ conversion \in [Conversions -> Conversion]

ConvertInit ==
    /\ focused = "WalletDashboard"
    /\ token \in Tokens /\ fromAssetType = "Credits" /\ value = 0
    /\ fromBalance = CreditAmount /\ toBalance = TokenAmount[token]
    /\ insufficient = FALSE
    /\ dialog = Nothing
    /\ conversion = [i \in Conversions |-> [at |-> "none"]]

-----------------------------------------------------------------------------
(* Navigation: goBack closes the screen above the dashboard, whichever it  *)
(* is, and does nothing on the dashboard.                                  *)

Orphaned == [i \in Conversions |->
                IF conversion[i].at = "none" THEN conversion[i]
                ELSE [conversion[i] EXCEPT !.mine = FALSE]]

OpenConvert ==
    /\ focused = "WalletDashboard" /\ dialog = Nothing
    /\ focused' = "Convert"
    /\ token' \in Tokens /\ fromAssetType' = "Credits" /\ value' = 0
    /\ fromBalance' = CreditAmount /\ toBalance' = TokenAmount[token']
    /\ insufficient' = FALSE
    /\ UNCHANGED <<dialog, conversion>>

\* Mutation: another screen opens above the Convert screen, too.
OpenAnotherAbove ==
    /\ focused \in {"WalletDashboard", "Convert"} /\ dialog = Nothing
    /\ focused' = "another"
    /\ UNCHANGED <<form, dialog, conversion>>

OpenAnother ==
    /\ focused = "WalletDashboard" /\ dialog = Nothing
    /\ focused' = "another"
    /\ UNCHANGED <<form, dialog, conversion>>

GoBack ==
    /\ focused # "WalletDashboard" /\ dialog = Nothing
    /\ focused' = "WalletDashboard"
    /\ conversion' = Orphaned
    /\ UNCHANGED <<form, dialog>>

-----------------------------------------------------------------------------
(* The form.                                                               *)
Editing == focused = "Convert" /\ dialog = Nothing

HandleFromValueChange ==
    /\ Editing
    /\ \E v \in Values \cup {NaN} :
          /\ value' = v
          /\ insufficient' = (v # NaN /\ v > fromBalance)
    /\ UNCHANGED <<focused, token, fromAssetType, fromBalance, toBalance,
                   dialog, conversion>>

HandleMaxPress ==
    /\ Editing
    /\ value' = fromBalance
    /\ insufficient' = FALSE
    /\ UNCHANGED <<focused, token, fromAssetType, fromBalance, toBalance,
                   dialog, conversion>>

\* Mutation: the value survives the swap.
SwapAssetsKeepingValue ==
    /\ Editing
    /\ fromAssetType' = Other(fromAssetType)
    /\ fromBalance' = toBalance /\ toBalance' = fromBalance
    /\ UNCHANGED <<focused, token, value, insufficient, dialog, conversion>>

(* The warning and the disabled button survive the swap.                   *)
SwapAssets ==
    /\ Editing
    /\ fromAssetType' = Other(fromAssetType)
    /\ value' = 0
    /\ fromBalance' = toBalance /\ toBalance' = fromBalance
    /\ UNCHANGED <<focused, token, insufficient, dialog, conversion>>

(* NaN <= 0 is false.                                                      *)
HandleClaim ==
    /\ Editing /\ ~ insufficient
    /\ value # 0
    /\ dialog' = [amount |-> value, to |-> Other(fromAssetType), token |-> token]
    /\ UNCHANGED <<focused, form, conversion>>

Cancel ==
    /\ dialog # Nothing
    /\ dialog' = Nothing
    /\ UNCHANGED <<focused, form, conversion>>

Ok(i) ==
    /\ dialog # Nothing
    /\ conversion[i].at = "none"
    /\ dialog' = Nothing
    /\ conversion' = [conversion EXCEPT ![i] =
          [at |-> "authToken", mine |-> focused = "Convert",
           asked |-> dialog, posted |-> Nothing]]
    /\ UNCHANGED <<focused, form>>

-----------------------------------------------------------------------------
(* performConvertion, from one await to the next.                          *)

(* The token is STOP's if an asset of the pair is, and else left as it was *)
(* declared, empty: the credits have names of their own.                   *)
RequestFor(e) ==
    [amount |-> IF e.amount = NaN THEN Null ELSE e.amount,
     to |-> e.to,
     token |-> IF e.token = STOP THEN STOP ELSE NoToken]

\* Mutation: the request is made of the screen as it is now.
RequestOfScreen(i) ==
    RequestFor([amount |-> value, to |-> Other(fromAssetType), token |-> token])

(* The request is made of the render whose button was tapped.              *)
RequestOf(i) == RequestFor(conversion[i].asked)

(* A rejection ends the conversion here, before the try.                   *)
AuthToken(i) ==
    /\ conversion[i].at = "authToken"
    /\ \/ conversion' = [conversion EXCEPT ![i].at = "rejected"]
       \/ conversion' = [conversion EXCEPT ![i].at = "post",
                                           ![i].posted = RequestOf(i)]
    /\ UNCHANGED <<focused, form, dialog>>

\* Mutation: only a success closes the screen.
EndsIfSuccess(i, alert) ==
    /\ focused' = IF alert = "success" THEN "WalletDashboard" ELSE focused
    /\ conversion' = IF alert = "success"
                     THEN [Orphaned EXCEPT ![i].at = alert]
                     ELSE [conversion EXCEPT ![i].at = alert]
    /\ UNCHANGED <<form, dialog>>

\* Mutation: the dashboard is closed too when it is the focused screen.
EndsPopping(i, alert) ==
    /\ focused' = IF focused = "WalletDashboard" THEN "none"
                                                ELSE "WalletDashboard"
    /\ conversion' = [Orphaned EXCEPT ![i].at = alert]
    /\ UNCHANGED <<form, dialog>>

(* An alert, and goBack.                                                   *)
Ends(i, alert) ==
    /\ focused' = "WalletDashboard"
    /\ conversion' = [Orphaned EXCEPT ![i].at = alert]
    /\ UNCHANGED <<form, dialog>>

Post(i) ==
    /\ conversion[i].at = "post"
    /\ \/ /\ conversion' = [conversion EXCEPT ![i].at = "text"]
          /\ UNCHANGED <<focused, form, dialog>>
       \/ Ends(i, "failed")

Text(i) ==
    /\ conversion[i].at = "text"
    /\ \E alert \in {"success", "failed"} : Ends(i, alert)

Answers(i) == AuthToken(i) \/ Post(i) \/ Text(i)

ConvertNext ==
    \/ OpenConvert \/ OpenAnother \/ GoBack
    \/ HandleFromValueChange \/ HandleMaxPress \/ SwapAssets \/ HandleClaim
    \/ Cancel
    \/ \E i \in Conversions : Ok(i) \/ Answers(i)

ConvertSpec == ConvertInit /\ [][ConvertNext]_convertVars

(* The Keychain and fetch answer or fail.                                  *)
ConvertFairSpec ==
    ConvertSpec /\ \A i \in Conversions : WF_convertVars(Answers(i))

-----------------------------------------------------------------------------
(* However often the assets are swapped, the value edited and the screen   *)
(* opened again, no request asks for more than the balance shown of the    *)
(* asset that is converted.                                                *)
ConvertWithinBalance ==
    \A i \in Conversions :
        conversion[i].at # "none" /\ conversion[i].posted # Nothing =>
           LET posted == conversion[i].posted
           IN  posted.amount # Null =>
                  posted.amount <= BalanceOf(Other(posted.to),
                                             conversion[i].asked.token)

(* A request has the direction and the amount that the dialog said, but no *)
(* amount at all if that was NaN, although the form can be edited, swapped *)
(* and closed between OK and the request.  It has the token that the dialog*)
(* named only if that was STOP: for any other it names none, and leaves to *)
(* the server what is converted.                                           *)
PostedAsAskedIfStop ==
    \A i \in Conversions :
        conversion[i].at # "none" /\ conversion[i].posted # Nothing =>
           LET posted == conversion[i].posted
               asked == conversion[i].asked
           IN  /\ posted.to = asked.to
               /\ posted.amount = IF asked.amount = NaN THEN Null
                                                        ELSE asked.amount
               /\ posted.token = asked.token <=> asked.token = STOP

(* What the dialog said can be said in a request.                          *)
Sayable(e) == e.token = STOP /\ e.amount # NaN

(* Although several conversions may be out, over a form that goes on, each *)
(* one of STOP by a number is an order that is posted at most once, as its *)
(* dialog said.  Conversions of other tokens, and those of NaN, are posted *)
(* in other terms than the dialog's, so they are no such orders.           *)
IsOrder(c) == c.at # "none" /\ Sayable(c.asked)

OrderOf(c) ==
    IF ~ IsOrder(c) THEN [at |-> "none"]
    ELSE [at |-> CASE c.at = "authToken" -> "confirmed"
                   [] c.at \in {"post", "text"} -> "posted"
                   [] OTHER -> "over",
          terms |-> c.asked, posted |-> c.posted]

Orders == INSTANCE Orders WITH
    Ids <- Conversions, Terms <- Exchange, Nothing <- Nothing,
    order <- [i \in Conversions |-> OrderOf(conversion[i])]

StopConversionsKeepOrders == Orders!OrdersSteps

(* A screen with a conversion out closes, unless the Keychain rejects.     *)
ScreenCloses ==
    \A i \in Conversions :
        Running(i) /\ conversion[i].mine ~>
           focused # "Convert" \/ conversion[i].at = "rejected"

(* A conversion whose screen is still there closes that screen when it     *)
(* ends, and no other: only one whose screen was closed before, by hand or *)
(* by another conversion, can close a screen it does not belong to.        *)
ClosesItsOwn ==
    [][\A i \in Conversions :
          Running(i) /\ conversion'[i].at \in {"success", "failed"} =>
             /\ focused' = "WalletDashboard"
             /\ conversion[i].mine => focused = "Convert"
      ]_convertVars
=============================================================================

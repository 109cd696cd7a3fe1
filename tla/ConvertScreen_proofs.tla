------------------------- MODULE ConvertScreen_proofs -------------------------
(***************************************************************************)
(* Proofs about ConvertScreen.  The invariant follows an amount from the   *)
(* field to the request: an enabled button means it is covered, the dialog *)
(* and the conversion keep it with its direction.                          *)
(***************************************************************************)
EXTENDS ConvertScreen, TLAPS

Ats == {"authToken", "post", "text", "rejected", "success", "failed"}

Confirmed == [at: Ats, mine: BOOLEAN, asked: Exchange,
              posted: Request \cup {Nothing}]

Covered(e) == e.amount # NaN => e.amount <= BalanceOf(Other(e.to), e.token)

(* What is known of a confirmed conversion r.                              *)
Sound(r) ==
    /\ r \in Confirmed
    /\ Covered(r.asked)
    /\ r.posted \in {Nothing, RequestFor(r.asked)}

FormOK ==
    /\ focused \in {"WalletDashboard", "Convert", "another"}
    /\ token \in Tokens /\ fromAssetType \in Types
    /\ value \in Nat \cup {NaN}
    /\ insufficient \in BOOLEAN
    /\ fromBalance = BalanceOf(fromAssetType, token)
    /\ toBalance = BalanceOf(Other(fromAssetType), token)

EnabledIsCovered == ~ insufficient /\ value # NaN => value <= fromBalance

DialogCovered == dialog = Nothing \/ (dialog \in Exchange /\ Covered(dialog))

ConversionsSound ==
    \A i \in Conversions :
        conversion[i] = [at |-> "none"] \/ Sound(conversion[i])

ConvertInv ==
    /\ FormOK /\ EnabledIsCovered /\ DialogCovered
    /\ conversion = [i \in Conversions |-> conversion[i]]
    /\ ConversionsSound

-----------------------------------------------------------------------------
LEMMA Balances ==
    /\ \A t \in Types : /\ Other(t) \in Types /\ Other(Other(t)) = t
                        /\ \A k \in Tokens : BalanceOf(t, k) \in Nat
    /\ \A k \in Tokens : /\ CreditAmount = BalanceOf("Credits", k)
                         /\ TokenAmount[k] = BalanceOf("Tokens", k)
  BY ConvertAssumption DEF Types, Other, BalanceOf

LEMMA RequestIsRequest ==
    ASSUME NEW e \in Exchange
    PROVE  /\ RequestFor(e) \in Request /\ RequestFor(e) # Nothing
           /\ RequestFor(e).to = e.to
           /\ RequestFor(e).amount = IF e.amount = NaN THEN Null ELSE e.amount
           /\ RequestFor(e).token = IF e.token = STOP THEN STOP ELSE NoToken
<1>1. /\ RequestFor(e).to = e.to /\ RequestFor(e).to \in Types
      /\ RequestFor(e).amount = IF e.amount = NaN THEN Null ELSE e.amount
      /\ RequestFor(e).token = IF e.token = STOP THEN STOP ELSE NoToken
  BY DEF RequestFor, Exchange
<1>2. RequestFor(e) \in Request
  BY DEF RequestFor, Request, Exchange
<1>3. "nothing" \notin Types
  BY DEF Types
<1> QED
  BY <1>1, <1>2, <1>3 DEF Nothing

(* What the dialog said is what is posted, if it can be said in a request. *)
LEMMA SayableIsPosted ==
    ASSUME NEW e \in Exchange, Sayable(e)
    PROVE  RequestFor(e) = e
<1>1. e = [amount |-> e.amount, to |-> e.to, token |-> e.token]
  BY DEF Exchange
<1> QED
  BY <1>1 DEF Sayable, RequestFor

(* Conversions that are left alone, or lose their screen, stay sound.      *)
LEMMA RestSound ==
    ASSUME ConvertInv, NEW rest \in {conversion, Orphaned}
    PROVE  /\ rest = [i \in Conversions |-> rest[i]]
           /\ \A i \in Conversions : rest[i] = [at |-> "none"] \/ Sound(rest[i])
<1>1. CASE rest = conversion
  BY <1>1 DEF ConvertInv, ConversionsSound
<1>2. CASE rest = Orphaned
  <2>1. rest = [i \in Conversions |-> rest[i]]
    BY <1>2 DEF Orphaned
  <2>2. ASSUME NEW i \in Conversions
        PROVE  rest[i] = [at |-> "none"] \/ Sound(rest[i])
    <3>1. CASE conversion[i] = [at |-> "none"]
      BY <1>2, <3>1 DEF Orphaned
    <3>2. CASE Sound(conversion[i])
      <4>1. rest[i] = [conversion[i] EXCEPT !.mine = FALSE]
        BY <1>2, <3>2 DEF Orphaned, Sound, Confirmed, Ats
      <4>2. /\ rest[i] \in Confirmed
            /\ rest[i].asked = conversion[i].asked
            /\ rest[i].posted = conversion[i].posted
        BY <3>2, <4>1 DEF Sound, Confirmed
      <4> QED
        BY <3>2, <4>2 DEF Sound
    <3> QED
      BY <3>1, <3>2 DEF ConvertInv, ConversionsSound
  <2> QED
    BY <2>1, <2>2
<1> QED
  BY <1>1, <1>2

LEMMA Prime ==
    ASSUME \A i \in Conversions :
              conversion'[i] = [at |-> "none"] \/ Sound(conversion'[i])
    PROVE  ConversionsSound'
  BY DEF ConversionsSound, Sound, Covered, RequestFor, BalanceOf, Other, Nothing

(* One conversion moves on: it may have posted what was asked.             *)
LEMMA OneMoves ==
    ASSUME ConvertInv, NEW i \in Conversions, NEW s, Sound(s),
           NEW rest \in {conversion, Orphaned},
           conversion' = [rest EXCEPT ![i] = s],
           UNCHANGED form, FormOK', DialogCovered'
    PROVE  ConvertInv'
<1>1. EnabledIsCovered'
  BY DEF ConvertInv, EnabledIsCovered, form
<1>2. /\ rest = [j \in Conversions |-> rest[j]]
      /\ \A j \in Conversions : rest[j] = [at |-> "none"] \/ Sound(rest[j])
  BY RestSound
<1>3. conversion' = [j \in Conversions |-> conversion'[j]]
  BY <1>2
<1>4. \A j \in Conversions :
         conversion'[j] = [at |-> "none"] \/ Sound(conversion'[j])
  BY <1>2
<1>5. ConversionsSound'
  BY <1>4, Prime
<1> QED
  BY <1>1, <1>3, <1>5 DEF ConvertInv

-----------------------------------------------------------------------------
(* The screen.                                                             *)

LEMMA InitSound == ConvertInit => ConvertInv
<1> SUFFICES ASSUME ConvertInit PROVE ConvertInv
  OBVIOUS
<1>1. "Credits" \in Types /\ Other("Credits") = "Tokens"
  BY DEF Types, Other
<1>2. FormOK /\ EnabledIsCovered /\ DialogCovered
  <2>1. FormOK
    BY <1>1, Balances DEF ConvertInit, FormOK
  <2>2. EnabledIsCovered
    BY ConvertAssumption DEF ConvertInit, EnabledIsCovered
  <2> QED
    BY <2>1, <2>2 DEF ConvertInit, DialogCovered
<1>3. conversion = [i \in Conversions |-> conversion[i]] /\ ConversionsSound
  BY DEF ConvertInit, ConversionsSound
<1> QED
  BY <1>2, <1>3 DEF ConvertInv

(* A step of the screen, which may orphan its conversions.                 *)
LEMMA ScreenMoves ==
    ASSUME ConvertInv, FormOK', EnabledIsCovered', DialogCovered',
           conversion' \in {conversion, Orphaned}
    PROVE  ConvertInv'
<1>1. PICK rest : rest = conversion'
  OBVIOUS
<1>2. /\ rest = [i \in Conversions |-> rest[i]]
      /\ \A i \in Conversions : rest[i] = [at |-> "none"] \/ Sound(rest[i])
  BY <1>1, RestSound
<1>3. ConversionsSound' /\ conversion' = [i \in Conversions |-> conversion'[i]]
  BY <1>1, <1>2, Prime
<1> QED
  BY <1>3 DEF ConvertInv

LEMMA ScreenSound ==
    ASSUME ConvertInv,
           \/ OpenConvert \/ OpenAnother \/ GoBack \/ HandleFromValueChange
           \/ HandleMaxPress \/ SwapAssets \/ HandleClaim \/ Cancel
    PROVE  ConvertInv'
<1> USE DEF ConvertInv
<1>1. CASE OpenConvert
  <2>1. "Credits" \in Types /\ Other("Credits") = "Tokens"
    BY DEF Types, Other
  <2>2. FormOK' /\ EnabledIsCovered'
    <3>1. FormOK'
      BY <1>1, <2>1 DEF OpenConvert, FormOK, BalanceOf, Other
    <3>2. EnabledIsCovered'
      BY <1>1, ConvertAssumption DEF OpenConvert, EnabledIsCovered
    <3> QED
      BY <3>1, <3>2
  <2>3. DialogCovered'
    BY <1>1 DEF OpenConvert, DialogCovered, Nothing
  <2> QED
    BY <1>1, <2>2, <2>3, ScreenMoves DEF OpenConvert
<1>2. CASE OpenAnother
  <2>1. FormOK' /\ EnabledIsCovered' /\ DialogCovered'
    BY <1>2 DEF OpenAnother, FormOK, EnabledIsCovered, DialogCovered, form,
                BalanceOf, Other, Covered, Nothing
  <2> QED
    BY <1>2, <2>1, ScreenMoves DEF OpenAnother
<1>3. CASE GoBack
  <2>1. FormOK' /\ EnabledIsCovered' /\ DialogCovered'
    BY <1>3 DEF GoBack, FormOK, EnabledIsCovered, DialogCovered, form,
                BalanceOf, Other, Covered, Nothing
  <2> QED
    BY <1>3, <2>1, ScreenMoves DEF GoBack
<1>4. CASE HandleFromValueChange
  <2>1. PICK v \in Values \cup {NaN} :
           /\ value' = v
           /\ insufficient' = (v # NaN /\ v > fromBalance)
    BY <1>4 DEF HandleFromValueChange
  <2>2. v \in Nat \cup {NaN} /\ fromBalance \in Nat
    BY Balances, ConvertAssumption DEF FormOK
  <2>3. insufficient' \in BOOLEAN
    BY <2>1
  <2>4. FormOK'
    BY <1>4, <2>1, <2>2, <2>3 DEF HandleFromValueChange, FormOK, BalanceOf, Other
  <2>5. EnabledIsCovered'
    <3>1. fromBalance' = fromBalance
      BY <1>4 DEF HandleFromValueChange
    <3>2. SUFFICES ASSUME ~ insufficient', v # NaN PROVE v <= fromBalance
      BY <2>1, <3>1 DEF EnabledIsCovered
    <3>3. ~ (v > fromBalance)
      BY <2>1, <3>2
    <3> QED
      BY <2>2, <3>2, <3>3
  <2>6. DialogCovered'
    BY <1>4 DEF HandleFromValueChange, Editing, DialogCovered, Nothing
  <2> QED
    BY <1>4, <2>4, <2>5, <2>6, ScreenMoves DEF HandleFromValueChange
<1>5. CASE HandleMaxPress
  <2>1. fromBalance \in Nat
    BY Balances DEF FormOK
  <2>2. FormOK' /\ EnabledIsCovered'
    <3>1. FormOK'
      BY <1>5, <2>1 DEF HandleMaxPress, FormOK, BalanceOf, Other
    <3>2. EnabledIsCovered'
      BY <1>5, <2>1 DEF HandleMaxPress, EnabledIsCovered
    <3> QED
      BY <3>1, <3>2
  <2>3. DialogCovered'
    BY <1>5 DEF HandleMaxPress, Editing, DialogCovered, Nothing
  <2> QED
    BY <1>5, <2>2, <2>3, ScreenMoves DEF HandleMaxPress
<1>6. CASE SwapAssets
  <2>1. PICK t \in Types : t = fromAssetType
    BY DEF FormOK
  <2>2. /\ Other(t) \in Types /\ Other(Other(t)) = t
        /\ token \in Tokens /\ BalanceOf(Other(t), token) \in Nat
    BY Balances DEF FormOK
  <2>3. /\ fromAssetType' = Other(t) /\ value' = 0 /\ token' = token
        /\ fromBalance' = BalanceOf(Other(t), token)
        /\ toBalance' = BalanceOf(t, token)
        /\ UNCHANGED <<focused, insufficient>>
    BY <1>6, <2>1 DEF SwapAssets, FormOK
  <2>4. fromBalance' = BalanceOf(fromAssetType', token')
        /\ toBalance' = BalanceOf(Other(fromAssetType'), token')
    BY <2>2, <2>3
  <2>5. FormOK' /\ EnabledIsCovered'
    <3>1. FormOK'
      BY <2>2, <2>3, <2>4 DEF FormOK, BalanceOf, Other
    <3>2. EnabledIsCovered'
      BY <2>2, <2>3 DEF EnabledIsCovered
    <3> QED
      BY <3>1, <3>2
  <2>6. DialogCovered'
    BY <1>6 DEF SwapAssets, Editing, DialogCovered, Nothing
  <2> QED
    BY <1>6, <2>5, <2>6, ScreenMoves DEF SwapAssets
<1>7. CASE HandleClaim
  <2>1. FormOK' /\ EnabledIsCovered'
    BY <1>7 DEF HandleClaim, FormOK, EnabledIsCovered, form, BalanceOf, Other
  <2>2. PICK e : e = dialog'
    OBVIOUS
  <2>3. /\ e \in Exchange /\ e.amount = value
        /\ e.to = Other(fromAssetType) /\ e.token = token
    BY <1>7, <2>2, Balances DEF HandleClaim, FormOK, Exchange
  <2>4. Covered(e)
    <3>1. Other(e.to) = fromAssetType
      BY <2>3, Balances DEF FormOK
    <3>2. value # NaN => value <= fromBalance
      BY <1>7 DEF HandleClaim, EnabledIsCovered
    <3> QED
      BY <2>3, <3>1, <3>2 DEF Covered, FormOK
  <2>5. DialogCovered'
    BY <2>2, <2>3, <2>4
       DEF DialogCovered, Covered, BalanceOf, Other, Exchange, Types
  <2> QED
    BY <1>7, <2>1, <2>5, ScreenMoves DEF HandleClaim
<1>8. CASE Cancel
  <2>1. FormOK' /\ EnabledIsCovered' /\ DialogCovered'
    <3>1. FormOK' /\ EnabledIsCovered'
      BY <1>8 DEF Cancel, FormOK, EnabledIsCovered, form, BalanceOf, Other
    <3>2. DialogCovered'
      BY <1>8 DEF Cancel, DialogCovered, Nothing
    <3> QED
      BY <3>1, <3>2
  <2> QED
    BY <1>8, <2>1, ScreenMoves DEF Cancel
<1> QED
  BY <1>1, <1>2, <1>3, <1>4, <1>5, <1>6, <1>7, <1>8

-----------------------------------------------------------------------------
(* The conversions.                                                        *)

LEMMA OkSound ==
    ASSUME ConvertInv, NEW i \in Conversions, Ok(i)
    PROVE  ConvertInv'
<1>1. PICK s : s = [at |-> "authToken", mine |-> focused = "Convert",
                    asked |-> dialog, posted |-> Nothing]
  OBVIOUS
<1>2. dialog \in Exchange /\ Covered(dialog)
  BY DEF ConvertInv, DialogCovered, Ok
<1>3. (focused = "Convert") \in BOOLEAN
  OBVIOUS
<1>4. Sound(s)
  <2>1. s \in Confirmed
    BY <1>1, <1>2, <1>3 DEF Confirmed, Ats
  <2> QED
    BY <1>1, <1>2, <2>1 DEF Sound
<1>5. conversion' = [conversion EXCEPT ![i] = s] /\ UNCHANGED form
  BY <1>1 DEF Ok
<1>6. FormOK' /\ DialogCovered'
  BY DEF ConvertInv, Ok, FormOK, form, DialogCovered, Nothing, BalanceOf, Other
<1> QED
  BY <1>4, <1>5, <1>6, OneMoves

LEMMA EndsSound ==
    ASSUME ConvertInv, NEW i \in Conversions, Running(i),
           NEW alert \in {"success", "failed"}, Ends(i, alert)
    PROVE  ConvertInv'
<1>1. Sound(conversion[i]) /\ conversion[i].at # "none"
  BY DEF ConvertInv, ConversionsSound, Running
<1>2. /\ Orphaned[i] = [conversion[i] EXCEPT !.mine = FALSE]
      /\ i \in DOMAIN Orphaned
  BY <1>1 DEF Orphaned
<1>3. PICK s : s = [[conversion[i] EXCEPT !.mine = FALSE] EXCEPT !.at = alert]
  OBVIOUS
<1>4. Sound(s)
  <2>1. /\ s \in Confirmed /\ s.asked = conversion[i].asked
        /\ s.posted = conversion[i].posted
    BY <1>1, <1>3 DEF Sound, Confirmed, Ats
  <2> QED
    BY <1>1, <2>1 DEF Sound
<1>5. conversion' = [Orphaned EXCEPT ![i] = s] /\ UNCHANGED form
  BY <1>2, <1>3 DEF Ends
<1>6. FormOK' /\ DialogCovered'
  BY DEF ConvertInv, Ends, FormOK, form, DialogCovered, Nothing, BalanceOf,
         Other, Covered
<1> QED
  BY <1>4, <1>5, <1>6, OneMoves

LEMMA AnswersSound ==
    ASSUME ConvertInv, NEW i \in Conversions, Answers(i)
    PROVE  ConvertInv'
<1>1. Running(i)
  BY DEF Answers, AuthToken, Post, Text, Running
<1>2. Sound(conversion[i])
  BY <1>1 DEF ConvertInv, ConversionsSound, Running
<1>3. ASSUME UNCHANGED <<form, dialog>>, focused' = focused,
             NEW at \in Ats, NEW p \in {conversion[i].posted, RequestOf(i)},
             conversion' = [conversion EXCEPT
                ![i] = [[conversion[i] EXCEPT !.at = at] EXCEPT !.posted = p]]
      PROVE  ConvertInv'
  <2>1. PICK s : s = [[conversion[i] EXCEPT !.at = at] EXCEPT !.posted = p]
    OBVIOUS
  <2>2. Sound(s)
    <3>1. RequestOf(i) = RequestFor(conversion[i].asked)
      BY DEF RequestOf
    <3>2. conversion[i].asked \in Exchange
      BY <1>2 DEF Sound, Confirmed
    <3>3. p \in Request \cup {Nothing}
      BY <1>2, <3>1, <3>2, RequestIsRequest DEF Sound, Confirmed
    <3>4. s \in Confirmed /\ s.asked = conversion[i].asked /\ s.posted = p
      BY <1>2, <2>1, <3>3 DEF Sound, Confirmed
    <3> QED
      BY <1>2, <3>1, <3>4 DEF Sound
  <2>3. conversion' = [conversion EXCEPT ![i] = s] /\ UNCHANGED form
    BY <1>3, <2>1
  <2>4. FormOK' /\ DialogCovered'
    BY <1>3 DEF ConvertInv, FormOK, form, DialogCovered, Nothing, BalanceOf,
                Other, Covered
  <2> QED
    BY <2>2, <2>3, <2>4, OneMoves
<1>4. conversion[i] \in Confirmed
  BY <1>2 DEF Sound
<1>5. CASE AuthToken(i)
  <2>1. \/ conversion' = [conversion EXCEPT ![i] =
              [[conversion[i] EXCEPT !.at = "rejected"]
                  EXCEPT !.posted = conversion[i].posted]]
        \/ conversion' = [conversion EXCEPT ![i] =
              [[conversion[i] EXCEPT !.at = "post"]
                  EXCEPT !.posted = RequestOf(i)]]
    BY <1>4, <1>5 DEF AuthToken, Confirmed
  <2> QED
    BY <1>3, <1>5, <2>1 DEF AuthToken, Ats
<1>6. CASE Post(i)
  <2>1. CASE Ends(i, "failed")
    BY <1>1, <2>1, EndsSound
  <2>2. CASE /\ conversion' = [conversion EXCEPT ![i].at = "text"]
             /\ UNCHANGED <<focused, form, dialog>>
    <3>1. conversion' = [conversion EXCEPT ![i] =
              [[conversion[i] EXCEPT !.at = "text"]
                  EXCEPT !.posted = conversion[i].posted]]
      BY <1>4, <2>2 DEF Confirmed
    <3> QED
      BY <1>3, <2>2, <3>1 DEF Ats
  <2> QED
    BY <1>6, <2>1, <2>2 DEF Post
<1>7. CASE Text(i)
  BY <1>1, <1>7, EndsSound DEF Text
<1> QED
  BY <1>5, <1>6, <1>7 DEF Answers

-----------------------------------------------------------------------------
LEMMA InvHolds == ConvertSpec => []ConvertInv
<1>1. ConvertInit => ConvertInv
  BY InitSound
<1>2. ConvertInv /\ [ConvertNext]_convertVars => ConvertInv'
  <2> SUFFICES ASSUME ConvertInv, [ConvertNext]_convertVars
               PROVE  ConvertInv'
    OBVIOUS
  <2>1. ASSUME NEW i \in Conversions, Ok(i) \/ Answers(i)
        PROVE  ConvertInv'
    BY <2>1, OkSound, AnswersSound
  <2>2. CASE UNCHANGED convertVars
    <3>1. FormOK' /\ EnabledIsCovered' /\ DialogCovered'
      BY <2>2 DEF convertVars, form, ConvertInv, FormOK, EnabledIsCovered,
                  DialogCovered, Covered, BalanceOf, Other, Nothing
    <3> QED
      BY <2>2, <3>1, ScreenMoves DEF convertVars
  <2> QED
    BY <2>1, <2>2, ScreenSound DEF ConvertNext
<1> QED
  BY <1>1, <1>2, PTL DEF ConvertSpec

(* The form, the dialog and every conversion have the types of the code's  *)
(* state, for any balances and number of conversions.                      *)
THEOREM ConvertTypeCorrect == ConvertSpec => []ConvertTypeOK
<1>1. ConvertInv => ConvertTypeOK
  <2> SUFFICES ASSUME ConvertInv PROVE ConvertTypeOK
    OBVIOUS
  <2>1. fromBalance \in Nat /\ toBalance \in Nat
    BY Balances DEF ConvertInv, FormOK
  <2>2. \A i \in Conversions : conversion[i] \in Conversion
    BY DEF ConvertInv, ConversionsSound, Sound, Conversion, Confirmed, Ats
  <2>3. conversion \in [Conversions -> Conversion]
    BY <2>2 DEF ConvertInv
  <2>4. dialog \in Exchange \cup {Nothing}
    BY DEF ConvertInv, DialogCovered
  <2> QED
    BY <2>1, <2>3, <2>4 DEF ConvertInv, FormOK, ConvertTypeOK
<1> QED
  BY <1>1, InvHolds, PTL

(* What is known of a request.                                             *)
LEMMA Posted ==
    ASSUME ConvertInv, NEW i \in Conversions,
           conversion[i].at # "none", conversion[i].posted # Nothing
    PROVE  /\ conversion[i].asked \in Exchange /\ Covered(conversion[i].asked)
           /\ conversion[i].posted = RequestFor(conversion[i].asked)
  BY DEF ConvertInv, ConversionsSound, Sound, Confirmed

(* No request asks for more than the balance of what it converts: an       *)
(* enabled button is an invariant of the form, kept by the swap.           *)
THEOREM ConversionsCovered == ConvertSpec => []ConvertWithinBalance
<1>1. ConvertInv => ConvertWithinBalance
  <2> SUFFICES ASSUME ConvertInv, NEW i \in Conversions,
                      conversion[i].at # "none", conversion[i].posted # Nothing,
                      conversion[i].posted.amount # Null
               PROVE  conversion[i].posted.amount <=
                         BalanceOf(Other(conversion[i].posted.to),
                                   conversion[i].asked.token)
    BY DEF ConvertWithinBalance
  <2> QED
    BY Posted, RequestIsRequest DEF Covered
<1> QED
  BY <1>1, InvHolds, PTL

(* Every request is what its dialog asked, however the form has changed,   *)
(* but for an amount of NaN and for the token when that is not STOP.       *)
THEOREM StopConversionsAsAsked == ConvertSpec => []PostedAsAskedIfStop
<1>1. ConvertInv => PostedAsAskedIfStop
  <2> SUFFICES ASSUME ConvertInv, NEW i \in Conversions,
                      conversion[i].at # "none", conversion[i].posted # Nothing
               PROVE  LET posted == conversion[i].posted
                          asked == conversion[i].asked
                      IN  /\ posted.to = asked.to
                          /\ posted.amount = IF asked.amount = NaN
                                             THEN Null ELSE asked.amount
                          /\ posted.token = asked.token <=> asked.token = STOP
    BY DEF PostedAsAskedIfStop
  <2>1. conversion[i].asked.token \in Tokens
    BY Posted DEF Exchange
  <2> QED
    BY <2>1, Posted, RequestIsRequest, ConvertAssumption
<1> QED
  BY <1>1, InvHolds, PTL

-----------------------------------------------------------------------------
(* The conversions as orders.                                              *)

Ordered == [i \in Conversions |-> OrderOf(conversion[i])]

(* A conversion that loses its screen is the same order.                   *)
LEMMA OrphanedOrder ==
    ASSUME ConvertInv, NEW i \in Conversions
    PROVE  OrderOf(Orphaned[i]) = OrderOf(conversion[i])
<1>1. CASE conversion[i] = [at |-> "none"]
  BY <1>1 DEF Orphaned
<1>2. CASE Sound(conversion[i])
  <2>1. /\ Orphaned[i] = [conversion[i] EXCEPT !.mine = FALSE]
        /\ conversion[i] \in Confirmed
    BY <1>2 DEF Orphaned, Sound, Confirmed, Ats
  <2>2. /\ Orphaned[i].at = conversion[i].at
        /\ Orphaned[i].asked = conversion[i].asked
        /\ Orphaned[i].posted = conversion[i].posted
    BY <2>1 DEF Confirmed
  <2> QED
    BY <2>2 DEF OrderOf, IsOrder
<1> QED
  BY <1>1, <1>2 DEF ConvertInv, ConversionsSound

(* What one order becomes, when conversion i becomes s and the others are  *)
(* at most orphaned.                                                       *)
LEMMA OneOrder ==
    ASSUME ConvertInv, NEW i \in Conversions, NEW s,
           NEW rest \in {conversion, Orphaned},
           conversion' = [rest EXCEPT ![i] = s]
    PROVE  Ordered' = [Ordered EXCEPT ![i] = OrderOf(s)]
<1>1. rest = [j \in Conversions |-> rest[j]]
  BY RestSound
<1>2. \A j \in Conversions : OrderOf(rest[j]) = OrderOf(conversion[j])
  BY OrphanedOrder
<1>3. conversion'[i] = s /\ \A j \in Conversions \ {i} : conversion'[j] = rest[j]
  BY <1>1
<1>4. \A j \in Conversions : OrderOf(conversion'[j]) =
                              IF j = i THEN OrderOf(s) ELSE Ordered[j]
  BY <1>2, <1>3 DEF Ordered
<1>5. Ordered' = [j \in Conversions |-> OrderOf(conversion'[j])]
  BY DEF Ordered, OrderOf, IsOrder, Sayable
<1> QED
  BY <1>4, <1>5 DEF Ordered

(* A conversion that is no order before its step and after it.             *)
LEMMA NoOrder ==
    ASSUME ConvertInv, NEW i \in Conversions, NEW s,
           NEW rest \in {conversion, Orphaned},
           ~ IsOrder(conversion[i]), ~ IsOrder(s),
           conversion' = [rest EXCEPT ![i] = s]
    PROVE  Ordered' = Ordered
<1>1. OrderOf(s) = OrderOf(conversion[i])
  BY DEF OrderOf
<1>2. Ordered' = [Ordered EXCEPT ![i] = OrderOf(s)]
  BY OneOrder
<1> QED
  BY <1>1, <1>2 DEF Ordered

LEMMA ScreenKeepsOrders ==
    ASSUME ConvertInv, conversion' \in {conversion, Orphaned}
    PROVE  Ordered' = Ordered
<1>1. \A j \in Conversions : OrderOf(conversion'[j]) = OrderOf(conversion[j])
  BY OrphanedOrder
<1>2. Ordered' = [j \in Conversions |-> OrderOf(conversion'[j])]
  BY DEF Ordered, OrderOf, IsOrder, Sayable
<1> QED
  BY <1>1, <1>2 DEF Ordered

LEMMA OkConfirms ==
    ASSUME ConvertInv, NEW i \in Conversions, Ok(i)
    PROVE  Orders!Confirm(i) \/ Ordered' = Ordered
<1>1. PICK s : s = [at |-> "authToken", mine |-> focused = "Convert",
                    asked |-> dialog, posted |-> Nothing]
  OBVIOUS
<1>2. dialog \in Exchange
  BY DEF ConvertInv, DialogCovered, Ok
<1>3. conversion' = [conversion EXCEPT ![i] = s]
  BY <1>1 DEF Ok
<1>4. ~ IsOrder(conversion[i]) /\ (IsOrder(s) <=> Sayable(dialog))
  BY <1>1 DEF IsOrder, Ok
<1>5. CASE Sayable(dialog)
  <2>1. OrderOf(s) = [at |-> "confirmed", terms |-> dialog, posted |-> Nothing]
    BY <1>1, <1>4, <1>5 DEF OrderOf
  <2>2. Ordered' = [Ordered EXCEPT ![i] = OrderOf(s)]
    BY <1>3, OneOrder
  <2>3. Ordered[i] = [at |-> "none"] /\ Ordered'[i] = OrderOf(s)
    BY <1>4, <2>2 DEF Ordered, OrderOf
  <2>4. /\ Ordered'[i].at = "confirmed" /\ Ordered'[i].terms \in Exchange
        /\ OrderOf(s) = Orders!Confirmed(Ordered'[i].terms)
    BY <1>2, <2>1, <2>3 DEF Orders!Confirmed
  <2> HIDE DEF Orders!Confirmed
  <2> QED
    BY <2>2, <2>3, <2>4 DEF Orders!Confirm, Orders!Free, Ordered
<1>6. CASE ~ Sayable(dialog)
  BY <1>3, <1>4, <1>6, NoOrder
<1> QED
  BY <1>5, <1>6

(* A conversion whose request is made, and one that ends.                  *)
LEMMA Posts ==
    ASSUME ConvertInv, NEW i \in Conversions, AuthToken(i),
           Sayable(conversion[i].asked),
           conversion' # [conversion EXCEPT ![i].at = "rejected"]
    PROVE  Orders!Post(i)
<1>1. conversion[i].at = "authToken" /\ Sound(conversion[i])
  BY DEF ConvertInv, ConversionsSound, AuthToken
<1>2. PICK s : s = [conversion[i] EXCEPT !.at = "post",
                                         !.posted = RequestOf(i)]
  OBVIOUS
<1>3. /\ s.at = "post" /\ s.asked = conversion[i].asked
      /\ s.posted = conversion[i].asked
  <2>1. conversion[i].asked \in Exchange
    BY <1>1 DEF Sound, Confirmed
  <2>2. RequestOf(i) = conversion[i].asked
    BY <2>1, SayableIsPosted DEF RequestOf
  <2> QED
    BY <1>1, <1>2, <2>2 DEF Sound, Confirmed
<1>4. conversion' = [conversion EXCEPT ![i] = s]
  BY <1>1, <1>2 DEF AuthToken, Sound, Confirmed
<1>5. Ordered' = [Ordered EXCEPT ![i] = OrderOf(s)]
  BY <1>4, OneOrder
<1>6. /\ Ordered[i].at = "confirmed" /\ Ordered[i].terms = conversion[i].asked
      /\ OrderOf(s) = [at |-> "posted", terms |-> conversion[i].asked,
                       posted |-> conversion[i].asked]
  BY <1>1, <1>3 DEF Ordered, OrderOf, IsOrder
<1> QED
  BY <1>5, <1>6 DEF Orders!Post, Ordered

LEMMA EndsOrder ==
    ASSUME ConvertInv, NEW i \in Conversions, Running(i),
           Sayable(conversion[i].asked),
           NEW rest \in {conversion, Orphaned},
           NEW at \in {"rejected", "success", "failed"},
           conversion' = [rest EXCEPT ![i].at = at]
    PROVE  Orders!End(i)
<1>1. conversion[i].at \in {"authToken", "post", "text"} /\ Sound(conversion[i])
  BY DEF ConvertInv, ConversionsSound, Running
<1>2. /\ rest = [j \in Conversions |-> rest[j]]
      /\ rest[i] \in {conversion[i], [conversion[i] EXCEPT !.mine = FALSE]}
  BY <1>1, RestSound DEF Orphaned, Sound, Confirmed, Ats
<1>3. PICK s : s = [rest[i] EXCEPT !.at = at]
  OBVIOUS
<1>4. /\ s.at = at /\ s.asked = conversion[i].asked
      /\ s.posted = conversion[i].posted
  BY <1>1, <1>2, <1>3 DEF Sound, Confirmed
<1>5. conversion' = [rest EXCEPT ![i] = s]
  BY <1>2, <1>3
<1>6. Ordered' = [Ordered EXCEPT ![i] = OrderOf(s)]
  BY <1>5, OneOrder
<1>7. /\ Ordered[i].at \in {"confirmed", "posted"}
      /\ Ordered[i].terms = conversion[i].asked
      /\ Ordered[i].posted = conversion[i].posted
  BY <1>1 DEF Ordered, OrderOf, IsOrder
<1>8. OrderOf(s) = [at |-> "over", terms |-> conversion[i].asked,
                    posted |-> conversion[i].posted]
  BY <1>4 DEF OrderOf, IsOrder
<1> QED
  BY <1>6, <1>7, <1>8 DEF Orders!End, Ordered

LEMMA AnswersOrder ==
    ASSUME ConvertInv, NEW i \in Conversions, Answers(i),
           Sayable(conversion[i].asked)
    PROVE  Orders!OrdersNext \/ Ordered' = Ordered
<1>1. Running(i) /\ Sound(conversion[i])
  BY DEF Answers, AuthToken, Post, Text, Running, ConvertInv, ConversionsSound
<1>2. ASSUME NEW at \in {"success", "failed"}, Ends(i, at)
      PROVE  Orders!OrdersNext
  BY <1>1, <1>2, EndsOrder DEF Ends, Orders!OrdersNext
<1>3. CASE AuthToken(i)
  <2>1. CASE conversion' = [conversion EXCEPT ![i].at = "rejected"]
    BY <1>1, <2>1, EndsOrder DEF Orders!OrdersNext
  <2> QED
    BY <1>3, <2>1, Posts DEF Orders!OrdersNext
<1>4. CASE Post(i)
  <2>1. CASE conversion' = [conversion EXCEPT ![i].at = "text"]
    <3>1. PICK s : s = [conversion[i] EXCEPT !.at = "text"]
      OBVIOUS
    <3>2. OrderOf(s) = OrderOf(conversion[i])
      BY <1>1, <1>4, <3>1 DEF Post, OrderOf, IsOrder, Sound, Confirmed
    <3>3. conversion' = [conversion EXCEPT ![i] = s]
      BY <2>1, <3>1
    <3> QED
      BY <3>2, <3>3, OneOrder DEF Ordered
  <2> QED
    BY <1>2, <1>4, <2>1 DEF Post
<1>5. CASE Text(i)
  BY <1>2, <1>5 DEF Text
<1> QED
  BY <1>3, <1>4, <1>5 DEF Answers

(* A conversion that no request can put moves past the orders.             *)
LEMMA OthersAreNoOrders ==
    ASSUME ConvertInv, NEW i \in Conversions, Answers(i),
           ~ Sayable(conversion[i].asked)
    PROVE  Ordered' = Ordered
<1>1. conversion[i] \in Confirmed
  BY DEF Answers, AuthToken, Post, Text, ConvertInv, ConversionsSound, Sound
<1>2. ASSUME NEW rest \in {conversion, Orphaned}, NEW s,
             s.asked = conversion[i].asked,
             conversion' = [rest EXCEPT ![i] = s]
      PROVE  Ordered' = Ordered
  BY <1>2, NoOrder DEF IsOrder
<1>3. ASSUME NEW rest \in {conversion, Orphaned}, NEW at,
             conversion' = [rest EXCEPT ![i].at = at]
      PROVE  Ordered' = Ordered
  <2>1. rest[i] \in {conversion[i], [conversion[i] EXCEPT !.mine = FALSE]}
    BY DEF Orphaned
  <2>2. PICK s : s = [rest[i] EXCEPT !.at = at]
    OBVIOUS
  <2>3. s.asked = conversion[i].asked
    BY <1>1, <2>1, <2>2 DEF Confirmed
  <2>4. conversion' = [rest EXCEPT ![i] = s]
    BY <1>3, <2>2
  <2> QED
    BY <1>2, <2>3, <2>4
<1>4. ASSUME NEW p, conversion' = [conversion EXCEPT ![i].at = "post",
                                                    ![i].posted = p]
      PROVE  Ordered' = Ordered
  <2>1. PICK s : s = [conversion[i] EXCEPT !.at = "post", !.posted = p]
    OBVIOUS
  <2>2. s.asked = conversion[i].asked
    BY <1>1, <2>1 DEF Confirmed
  <2>3. conversion' = [conversion EXCEPT ![i] = s]
    BY <1>4, <2>1
  <2> QED
    BY <1>2, <2>2, <2>3
<1>5. CASE AuthToken(i)
  BY <1>3, <1>4, <1>5 DEF AuthToken
<1>6. CASE Post(i) \/ Text(i)
  BY <1>3, <1>6 DEF Post, Text, Ends
<1> QED
  BY <1>5, <1>6 DEF Answers

(* Each conversion of STOP by a number is an order, posted at most once, as*)
(* its dialog said, the token included, and never after its alert, whatever*)
(* the form and the other conversions do meanwhile.  For other tokens and  *)
(* for NaN it fails at SayableIsPosted.                                    *)
THEOREM StopConversionsAreOrders == ConvertSpec => StopConversionsKeepOrders
<1>1. ConvertInit => Orders!OrdersInit
  BY DEF ConvertInit, Orders!OrdersInit, Orders!Free, OrderOf, IsOrder
<1>2. ConvertInv /\ [ConvertNext]_convertVars =>
         [Orders!OrdersNext]_Ordered
  <2> SUFFICES ASSUME ConvertInv, [ConvertNext]_convertVars
               PROVE  Orders!OrdersNext \/ Ordered' = Ordered
    OBVIOUS
  <2>1. ASSUME NEW i \in Conversions, Ok(i) \/ Answers(i)
        PROVE  Orders!OrdersNext \/ Ordered' = Ordered
    BY <2>1, OkConfirms, AnswersOrder, OthersAreNoOrders DEF Orders!OrdersNext
  <2>2. CASE conversion' \in {conversion, Orphaned}
    BY <2>2, ScreenKeepsOrders
  <2> QED
    BY <2>1, <2>2
       DEF ConvertNext, convertVars, OpenConvert, OpenAnother, GoBack,
           HandleFromValueChange, HandleMaxPress, SwapAssets, HandleClaim,
           Cancel
<1>3. ConvertInv /\ [ConvertNext]_convertVars =>
         [Orders!OrdersNext]_[i \in Conversions |-> OrderOf(conversion[i])]
  BY <1>2 DEF Ordered
<1> QED
  BY <1>1, <1>3, InvHolds, PTL
     DEF ConvertSpec, StopConversionsKeepOrders, Orders!OrdersSteps
-----------------------------------------------------------------------------
(* The screen of a conversion that is out is the open one, unless it was   *)
(* closed and the conversion knows it.                                     *)
MineIsOpen ==
    \A i \in Conversions :
        Running(i) /\ conversion[i].mine => focused = "Convert"

OwnedInv == ConvertInv /\ MineIsOpen

LEMMA OrphanedIsNotMine ==
    ASSUME ConvertInv, NEW i \in Conversions, conversion[i].at # "none"
    PROVE  ~ Orphaned[i].mine
<1>1. ASSUME NEW r \in Confirmed PROVE ~ [r EXCEPT !.mine = FALSE].mine
  BY DEF Confirmed
<1>2. conversion[i] \in Confirmed
  BY DEF ConvertInv, ConversionsSound, Sound
<1>3. Orphaned[i] = [conversion[i] EXCEPT !.mine = FALSE]
  BY DEF Orphaned
<1>4. QED
  BY <1>1, <1>2, <1>3

(* A running conversion is one that ran before, as it was, or a new one.   *)
LEMMA OneRuns ==
    ASSUME OwnedInv, NEW i \in Conversions, NEW s,
           conversion' = [conversion EXCEPT ![i] = s],
           UNCHANGED focused,
           s.at \in {"authToken", "post", "text"} /\ s.mine => focused = "Convert"
    PROVE  MineIsOpen'
<1>1. \A j \in Conversions : conversion'[j] = IF j = i THEN s ELSE conversion[j]
  BY DEF OwnedInv, ConvertInv
<1>2. QED
  BY <1>1 DEF OwnedInv, MineIsOpen, Running

(* A conversion that ends takes its screen, and with it every other one,   *)
(* from the conversions of that screen.                                    *)
LEMMA EndsOwned ==
    ASSUME OwnedInv, NEW i \in Conversions, Running(i),
           NEW alert \in {"success", "failed"}, Ends(i, alert)
    PROVE  MineIsOpen' /\ focused' = "WalletDashboard"
<1>1. PICK s : s = [Orphaned[i] EXCEPT !.at = alert]
  OBVIOUS
<1>2. s.at = alert
  <2>1. ASSUME NEW r \in Confirmed
        PROVE  [[r EXCEPT !.mine = FALSE] EXCEPT !.at = alert].at = alert
    BY DEF Confirmed
  <2>2. conversion[i] \in Confirmed /\ conversion[i].at # "none"
    BY DEF OwnedInv, ConvertInv, ConversionsSound, Sound, Running
  <2>3. Orphaned[i] = [conversion[i] EXCEPT !.mine = FALSE]
    BY <2>2 DEF Orphaned
  <2>4. QED
    BY <1>1, <2>1, <2>2, <2>3
<1>3. conversion' = [Orphaned EXCEPT ![i] = s] /\ focused' = "WalletDashboard"
  BY <1>1 DEF Ends
<1>4. \A j \in Conversions : conversion'[j] = IF j = i THEN s ELSE Orphaned[j]
  BY <1>3 DEF Orphaned
<1>5. ASSUME NEW j \in Conversions, Running(j)' PROVE ~ conversion'[j].mine
  <2>1. j # i
    BY <1>2, <1>4, <1>5 DEF Running
  <2>2. conversion'[j] = Orphaned[j]
    BY <1>4, <2>1
  <2>3. conversion[j].at # "none"
    BY <1>5, <2>2 DEF Orphaned, Running
  <2>4. QED
    BY <2>2, <2>3, OrphanedIsNotMine DEF OwnedInv
<1>6. QED
  BY <1>3, <1>5 DEF MineIsOpen

LEMMA AnswersOwned ==
    ASSUME OwnedInv, NEW i \in Conversions, Answers(i)
    PROVE  MineIsOpen'
<1>1. conversion[i] \in Confirmed /\ Running(i)
  <2>1. Running(i)
    BY DEF Answers, AuthToken, Post, Text, Running
  <2>2. QED
    BY <2>1 DEF OwnedInv, ConvertInv, ConversionsSound, Sound, Running
<1>2. conversion[i].mine => focused = "Convert"
  BY <1>1 DEF OwnedInv, MineIsOpen
<1>3. ASSUME NEW at PROVE [conversion[i] EXCEPT !.at = at].mine = conversion[i].mine
  BY <1>1 DEF Confirmed
<1>4. ASSUME NEW at, UNCHANGED focused,
             conversion' = [conversion EXCEPT ![i].at = at]
      PROVE  MineIsOpen'
  <2>1. PICK s : s = [conversion[i] EXCEPT !.at = at]
    OBVIOUS
  <2>2. s.mine = conversion[i].mine
    BY <1>3, <2>1
  <2>3. conversion' = [conversion EXCEPT ![i] = s]
    BY <1>4, <2>1
  <2>4. QED
    BY <1>2, <1>4, <2>2, <2>3, OneRuns
<1>5. ASSUME UNCHANGED focused,
             conversion' = [conversion EXCEPT ![i].at = "post",
                                              ![i].posted = RequestOf(i)]
      PROVE  MineIsOpen'
  <2>1. PICK s : s = [conversion[i] EXCEPT !.at = "post",
                                           !.posted = RequestOf(i)]
    OBVIOUS
  <2>2. s.mine = conversion[i].mine
    <3>1. ASSUME NEW x
          PROVE  [conversion[i] EXCEPT !.at = "post", !.posted = x].mine =
                 conversion[i].mine
      BY <1>1 DEF Confirmed
    <3>2. QED
      BY <2>1, <3>1
  <2>3. conversion' = [conversion EXCEPT ![i] = s]
    BY <1>5, <2>1 DEF OwnedInv, ConvertInv
  <2>4. QED
    BY <1>2, <1>5, <2>2, <2>3, OneRuns
<1>6. CASE AuthToken(i)
  BY <1>4, <1>5, <1>6 DEF AuthToken, form
<1>7. CASE Post(i)
  BY <1>1, <1>4, <1>7, EndsOwned DEF Post
<1>8. CASE Text(i)
  BY <1>1, <1>8, EndsOwned DEF Text
<1>9. QED
  BY <1>6, <1>7, <1>8 DEF Answers

LEMMA StepOwned == ASSUME OwnedInv, [ConvertNext]_convertVars PROVE MineIsOpen'
<1>1. CASE OpenConvert \/ OpenAnother
  BY <1>1 DEF OpenConvert, OpenAnother, OwnedInv, MineIsOpen, Running
<1>2. CASE GoBack
  <2>1. conversion' = Orphaned
    BY <1>2 DEF GoBack
  <2>2. ASSUME NEW i \in Conversions, Running(i)' PROVE ~ conversion'[i].mine
    <3>1. conversion[i].at # "none"
      BY <2>1, <2>2 DEF Orphaned, Running
    <3>2. QED
      BY <2>1, <3>1, OrphanedIsNotMine DEF OwnedInv
  <2>3. QED
    BY <2>2 DEF MineIsOpen
<1>3. CASE \/ HandleFromValueChange \/ HandleMaxPress \/ SwapAssets
           \/ HandleClaim \/ Cancel \/ UNCHANGED convertVars
  <2>1. UNCHANGED <<focused, conversion>>
    BY <1>3 DEF HandleFromValueChange, HandleMaxPress, SwapAssets, HandleClaim,
       Cancel, convertVars
  <2>2. QED
    BY <2>1 DEF OwnedInv, MineIsOpen, Running
<1>4. ASSUME NEW i \in Conversions, Ok(i) PROVE MineIsOpen'
  <2>1. PICK s : s = [at |-> "authToken", mine |-> focused = "Convert",
                      asked |-> dialog, posted |-> Nothing]
    OBVIOUS
  <2>2. s.mine => focused = "Convert"
    BY <2>1
  <2>3. conversion' = [conversion EXCEPT ![i] = s] /\ UNCHANGED focused
    BY <1>4, <2>1 DEF Ok
  <2>4. QED
    BY <2>2, <2>3, OneRuns
<1>5. QED
  BY <1>1, <1>2, <1>3, <1>4, AnswersOwned DEF ConvertNext

(* A conversion closes the screen it was started from, or one that came    *)
(* when that screen was no longer there: never one that is open above its  *)
(* own, although several of them close screens over the same stack.        *)
THEOREM ConversionsCloseTheirOwn == ConvertSpec => ClosesItsOwn
<1> DEFINE Step ==
      \A i \in Conversions :
         Running(i) /\ conversion'[i].at \in {"success", "failed"} =>
            /\ focused' = "WalletDashboard"
            /\ conversion[i].mine => focused = "Convert"
<1>1. ConvertInit => MineIsOpen
  BY DEF ConvertInit, MineIsOpen, Running
<1>2. ConvertInv /\ MineIsOpen /\ [ConvertNext]_convertVars => MineIsOpen'
  BY StepOwned DEF OwnedInv
<1>3. ConvertInv /\ MineIsOpen /\ [ConvertNext]_convertVars =>
         [Step]_convertVars
  <2> SUFFICES ASSUME ConvertInv, MineIsOpen, ConvertNext,
                      NEW i \in Conversions, Running(i),
                      conversion'[i].at \in {"success", "failed"}
               PROVE  /\ focused' = "WalletDashboard"
                      /\ conversion[i].mine => focused = "Convert"
    OBVIOUS
  <2>1. conversion[i].mine => focused = "Convert"
    BY DEF MineIsOpen
  <2>2. conversion[i] \in Confirmed /\ conversion[i].at # "none"
    BY DEF ConvertInv, ConversionsSound, Sound, Running
  <2>3. focused' = "WalletDashboard"
    <3>1. CASE GoBack
      BY <3>1 DEF GoBack
    <3>2. CASE \/ OpenConvert \/ OpenAnother \/ HandleFromValueChange
               \/ HandleMaxPress \/ SwapAssets \/ HandleClaim \/ Cancel
      <4>1. UNCHANGED conversion
        BY <3>2 DEF OpenConvert, OpenAnother, HandleFromValueChange,
           HandleMaxPress, SwapAssets, HandleClaim, Cancel
      <4>2. QED
        BY <4>1 DEF Running
    <3>3. ASSUME NEW j \in Conversions, Ok(j) PROVE FALSE
      <4>1. conversion[j].at = "none" /\ j # i
        BY <2>2, <3>3 DEF Ok
      <4>2. conversion'[i] = conversion[i]
        BY <3>3, <4>1 DEF Ok, ConvertInv
      <4>3. QED
        BY <4>2 DEF Running
    <3>4. ASSUME NEW j \in Conversions, Answers(j)
          PROVE  focused' = "WalletDashboard"
      <4>1. ASSUME NEW s, s.at \notin {"success", "failed"},
                   conversion' = [conversion EXCEPT ![j] = s]
            PROVE  FALSE
        <5>1. conversion'[i] = IF i = j THEN s ELSE conversion[i]
          BY <4>1 DEF ConvertInv
        <5>2. QED
          BY <4>1, <5>1 DEF Running
      <4>2. Running(j)
        BY <3>4 DEF Answers, AuthToken, Post, Text, Running
      <4>3. conversion[j] \in Confirmed
        BY <4>2 DEF ConvertInv, ConversionsSound, Sound, Running
      <4>4. ASSUME NEW at, at \notin {"success", "failed"},
                   conversion' = [conversion EXCEPT ![j].at = at]
            PROVE  FALSE
        <5>1. PICK s : s = [conversion[j] EXCEPT !.at = at]
          OBVIOUS
        <5>2. s.at = at
          BY <4>3, <5>1 DEF Confirmed
        <5>3. QED
          BY <4>1, <4>4, <5>1, <5>2
      <4>5. ASSUME conversion' = [conversion EXCEPT ![j].at = "post",
                                                    ![j].posted = RequestOf(j)]
            PROVE  FALSE
        <5>1. PICK s : s = [conversion[j] EXCEPT !.at = "post",
                                                 !.posted = RequestOf(j)]
          OBVIOUS
        <5>2. s.at = "post"
          <6>1. ASSUME NEW x
                PROVE  [conversion[j] EXCEPT !.at = "post", !.posted = x].at =
                       "post"
            BY <4>3 DEF Confirmed
          <6>2. QED
            BY <5>1, <6>1
        <5>3. conversion' = [conversion EXCEPT ![j] = s]
          BY <4>5, <5>1 DEF ConvertInv
        <5>4. QED
          BY <4>1, <5>2, <5>3
      <4>6. ~ AuthToken(j)
        BY <4>4, <4>5 DEF AuthToken
      <4>7. QED
        BY <3>4, <4>4, <4>6 DEF Answers, Post, Text, Ends
    <3>5. QED
      BY <3>1, <3>2, <3>3, <3>4 DEF ConvertNext
  <2>4. QED
    BY <2>1, <2>3
<1>4. QED
  BY <1>1, <1>2, <1>3, InvHolds, PTL DEF ConvertSpec, ClosesItsOwn
=============================================================================

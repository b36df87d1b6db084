-------------------------- MODULE PaymentDocument --------------------------
(***************************************************************************)
(* What a QR code is made of.  First a person types the requisites of an   *)
(* organisation into the form, slips now and then, and saves what the      *)
(* validators accept.  Then the templates of a CRM send requests for the   *)
(* saved organisation: each becomes a payload (GOST R 56042), read by the  *)
(* payer's bank, and an idempotency key, by which the customer is charged. *)
(*                                                                         *)
(* The characters of a number are those str.isdigit accepts: the digits    *)
(* themselves, the digits of another script (a fullwidth seven, an Arabic  *)
(* two), which int() reads as the same figures, and Odd, a character such  *)
(* as a superscript two, which int() refuses.  The characters of a text    *)
(* are words (no white space inside) and the separators the code treats on *)
(* their own; any white space in a request is the character Unit.          *)
(***************************************************************************)
EXTENDS Integers, FiniteSets, SequencesExt

CONSTANTS
  Starts,      \* the valid forms that typing starts from
  Words,       \* characters of a text that are neither blank nor a bar
  Edited,      \* fields of a request that templates fill in
  Sums,        \* the figures of the sums templates carry, as one character
  Fees,        \* rates typed into the form, in basis points
  Checks,      \* average checks typed into the form, in kopecks
  MaxPayload,  \* MAX_PAYLOAD_LENGTH, in the characters of this module
  None,
  MaxSlips,    \* bound: slips accepted one after another
  TextLength   \* bound: characters of a text

Digits == 0..9
Foreign == 10..19  \* the digits of another script, in the same order
Odd == 20
Char == Digits \cup Foreign \cup {Odd}
DefaultFee == 70
Form == [bic: Seq(Char), personal_acc: Seq(Char), corresp_acc: Seq(Char),
         payee_inn: Seq(Char), kpp: Seq(Char)]

Blank == "blank"  \* what " ".join puts between words
Bar == "bar"      \* SEPARATOR of the payload
Unit == "unit"    \* FIELD_SEPARATOR of the key, white space to str.split
Symbols == Words \cup {Bar, Unit}
Texts == UNION {[1..n -> Symbols] : n \in 0..TextLength}
TextFields == <<"purpose", "last_name", "first_name", "middle_name", "phone">>
\* PaymentRequest with its payer.
Request == [sum_kopecks: Sums \cup {None},
            text: [Range(TextFields) -> Texts \cup {None}]]
NoText == [sum_kopecks |-> None, text |-> [f \in Range(TextFields) |-> None]]

ASSUME DocumentAssumption ==
  /\ IsFiniteSet(Starts) /\ Starts \subseteq Form
  /\ Words \cap {Blank, Bar, Unit} = {}
  /\ Edited \subseteq Range(TextFields)
  /\ Sums \cap (Words \cup {Blank, Bar, Unit}) = {}
  /\ Fees \subseteq 0..10000
  /\ Checks \subseteq Nat
  /\ MaxPayload \in Nat /\ MaxSlips \in Nat /\ TextLength \in Nat

VARIABLES
  stage,    \* "form" while requisites are typed, "sale" when requests come
  saved,    \* the requisites in the database
  rate,     \* acquiring_fee_bps and average_check_kopecks in the database
  form,     \* what the form holds
  slip,     \* what went wrong since the form was right, or None
  slips,    \* slips accepted so far
  request,  \* the template's latest request
  held      \* a request an invoice was charged for

vars == <<stage, saved, rate, form, slip, slips, request, held>>

---------------------------------------------------------------------------
(* Validation of requisites *)

\* str.isdigit, of any mixture of characters; the length is exact.
LooksLike(value, length) == Len(value) = length
\* int() reads every character.
Numeric(value) == \A i \in DOMAIN value : value[i] # Odd
\* ... and what it reads: the figure, in whatever script.
Value(c) == IF c \in Foreign THEN c - 10 ELSE c
Ints(value) == [i \in DOMAIN value |-> Value(value[i])]

SumOf(value, weights) ==
  LET sum[i \in 0..Len(value)] ==
        IF i = 0 THEN 0 ELSE sum[i - 1] + weights[i] * value[i]
  IN sum[Len(value)]

ValidBic(bic) == LooksLike(bic, 9)

\* startswith compares characters, not figures.
IsCorrespondent(account) == SubSeq(account, 1, 5) = <<3, 0, 1, 0, 1>>

\* The three digits put before the account, by its type.
Prefix(account, bic) ==
  IF IsCorrespondent(account) THEN <<0>> \o SubSeq(bic, 5, 6) ELSE SubSeq(bic, 7, 9)

\* ACCOUNT_CHECKSUM_WEIGHTS, repeated.
AccountWeights == [i \in 1..23 |-> <<7, 1, 3>>[((i - 1) % 3) + 1]]

ValidAccount(account, bic) ==
  LET digits == Prefix(account, bic) \o account IN
  /\ LooksLike(account, 20) /\ ValidBic(bic)
  /\ Numeric(digits)
  /\ SumOf(Ints(digits), AccountWeights) % 10 = 0

CompanyWeights == <<2, 4, 10, 3, 5, 9, 4, 6, 8>>
PersonWeightsFirst == <<7>> \o CompanyWeights
PersonWeightsSecond == <<3>> \o PersonWeightsFirst

Remainder(inn, weights) ==
  SumOf(SubSeq(inn, 1, Len(weights)), weights) % 11
ControlDigit(inn, weights) == Remainder(inn, weights) % 10

\* Mutant: of an entrepreneur's two control digits only the first is compared.
ValidInn_first_digit(inn) ==
  LET digits == Ints(inn) IN
  /\ LooksLike(inn, 10) \/ LooksLike(inn, 12)
  /\ Numeric(inn)
  /\ IF Len(inn) = 10 THEN ControlDigit(digits, CompanyWeights) = digits[10]
     ELSE ControlDigit(digits, PersonWeightsFirst) = digits[11]

ValidInn(inn) ==
  LET digits == Ints(inn) IN
  /\ LooksLike(inn, 10) \/ LooksLike(inn, 12)
  /\ Numeric(inn)
  /\ IF Len(inn) = 10 THEN ControlDigit(digits, CompanyWeights) = digits[10]
     ELSE /\ ControlDigit(digits, PersonWeightsFirst) = digits[11]
          /\ ControlDigit(digits, PersonWeightsSecond) = digits[12]

\* An entrepreneur has none; None becomes an empty field of the form again.
ValidKpp(kpp) == kpp = <<>> \/ LooksLike(kpp, 9)

\* _validated_fields: everything a saved organisation has passed.
Accepted(f) ==
  /\ ValidBic(f.bic)
  /\ ValidAccount(f.personal_acc, f.bic)
  /\ ValidAccount(f.corresp_acc, f.bic)
  /\ ValidInn(f.payee_inn)
  /\ ValidKpp(f.kpp)

ASSUME StartsAssumption == Starts # {} /\ \A start \in Starts : Accepted(start)

---------------------------------------------------------------------------
(* Rates and sums as text *)

Comma == 10
Point == 11

\* The digits of a number, without leading zeros.
Figures(n) ==
  LET figures[m \in 0..n] ==
        IF m < 10 THEN <<m>> ELSE Append(figures[m \div 10], m % 10)
  IN figures[n]
TwoFigures(n) == <<n \div 10, n % 10>>
NumberOf(figures) ==
  LET number[i \in 0..Len(figures)] ==
        IF i = 0 THEN 0 ELSE 10 * number[i - 1] + figures[i]
  IN number[Len(figures)]

\* format_fee_percent, as fee_input shows it: no zeros and no comma at the end.
FeeText(bps) ==
  Figures(bps \div 100) \o
    CASE bps % 100 = 0 -> <<>>
      [] bps % 10 = 0 /\ bps % 100 # 0 -> <<Comma, (bps % 100) \div 10>>
      [] OTHER -> <<Comma>> \o TwoFigures(bps % 100)

\* roubles_input: always two figures of kopecks; no sum is no text.
SumText(kopecks) ==
  IF kopecks = None THEN <<>>
  ELSE Figures(kopecks \div 100) \o <<Point>> \o TwoFigures(kopecks % 100)

\* What stands on both sides of the comma or the point.
PointAt(text) ==
  LET points == {i \in DOMAIN text : text[i] \in {Comma, Point}}
  IN IF points = {} THEN Len(text) + 1 ELSE CHOOSE i \in points : TRUE
Units(text) == SubSeq(text, 1, PointAt(text) - 1)
Hundredths(text) == SubSeq(text, PointAt(text) + 1, Len(text))

\* Mutant: the fraction is read as a number of hundredths.
Hundredfold_misplaced(text) == NumberOf(Units(text)) * 100 + NumberOf(Hundredths(text))

\* Decimal() times a hundred, where at most two figures follow the point.
Hundredfold(text) ==
  NumberOf(Units(text) \o Hundredths(text)) * <<100, 10, 1>>[Len(Hundredths(text)) + 1]

\* to_requisites: an empty rate is the default one, an empty sum is none.
ParsedFee(text, default) == IF text = <<>> THEN default ELSE Hundredfold(text)
ParsedCheck(text) == IF text = <<>> THEN None ELSE Hundredfold(text)

---------------------------------------------------------------------------
(* Key and payload *)

\* A blank between two words, and one only.
Pad(text) == IF text = <<>> \/ Last(text) = Blank THEN text ELSE Append(text, Blank)

Collapsed(text, space) ==
  LET collapsed[i \in 0..Len(text)] ==
        IF i = 0 THEN <<>>
        ELSE IF text[i] \in space THEN Pad(collapsed[i - 1])
        ELSE Append(collapsed[i - 1], text[i])
  IN collapsed[Len(text)]

Trimmed(text) == IF text # <<>> /\ Last(text) = Blank THEN Front(text) ELSE text

\* " ".join(value.split()) with the given characters for white space.
Squeeze(text, space) == Trimmed(Collapsed(text, space))

\* Mutant: the value goes into the key as it came.
Normalize_as_is(text) == IF text = None THEN <<>> ELSE text

Normalize(text) == IF text = None THEN <<>> ELSE Squeeze(text, {Unit})

Clean(text) == Squeeze(text, {Unit, Bar})

\* build_idempotency_key before the hash, which keeps different keys apart.
\* Version and organisation are the same for all requests here.
Key(r) ==
  LET key[i \in 0..Len(TextFields)] ==
        IF i = 0 THEN IF r.sum_kopecks = None THEN <<>> ELSE <<r.sum_kopecks>>
        ELSE key[i - 1] \o (<<Unit>> \o Normalize(r.text[TextFields[i]]))
  IN key[Len(TextFields)]

\* build_gost_payload: the requisites, then the fields that a request adds.
Payload(r) ==
  LET payload[i \in 0..Len(TextFields)] ==
        IF i = 0
        THEN <<"requisites">> \o
               IF r.sum_kopecks = None THEN <<>> ELSE <<Bar, "sum", r.sum_kopecks>>
        ELSE LET f == TextFields[i] IN
             payload[i - 1] \o
               IF r.text[f] = None THEN <<>> ELSE <<Bar, f>> \o Clean(r.text[f])
  IN payload[Len(TextFields)]

---------------------------------------------------------------------------
(* The form *)

Init ==
  /\ \/ /\ stage = "form"
        /\ saved \in Starts
        /\ rate \in [acquiring_fee_bps: Fees, average_check_kopecks: Checks \cup {None}]
     \/ /\ stage = "sale"
        /\ saved = CHOOSE start \in Starts : TRUE
        /\ rate = [acquiring_fee_bps |-> DefaultFee, average_check_kopecks |-> None]
  /\ form = saved
  /\ slip = None
  /\ slips = 0
  /\ request = NoText
  /\ held = NoText

\* One character of a right form is mistyped.
Mistype(field, i, c) ==
  /\ stage = "form" /\ form = saved /\ slips < MaxSlips
  /\ i \in DOMAIN form[field] /\ form[field][i] # c
  /\ form' = [form EXCEPT ![field][i] = c]
  /\ slip' = [field |-> field, places |-> {i}]
  /\ UNCHANGED <<stage, saved, rate, slips, request, held>>

\* Two neighbouring characters of a right form change places.
Transpose(field, i) ==
  /\ stage = "form" /\ form = saved /\ slips < MaxSlips
  /\ i \in DOMAIN form[field] /\ i + 1 \in DOMAIN form[field]
  /\ form[field][i] # form[field][i + 1]
  /\ form' = [form EXCEPT ![field][i] = form[field][i + 1], ![field][i + 1] = form[field][i]]
  /\ slip' = [field |-> field, places |-> {i, i + 1}]
  /\ UNCHANGED <<stage, saved, rate, slips, request, held>>

\* The form is sent: what the validators accept is saved, and rate and check
\* go through their texts; anything else comes back to be corrected.
SaveForm ==
  /\ stage = "form" /\ form # saved
  /\ IF Accepted(form)
     THEN /\ saved' = form
          /\ slips' = slips + 1
          /\ rate' = [acquiring_fee_bps |-> ParsedFee(FeeText(rate.acquiring_fee_bps), DefaultFee),
                      average_check_kopecks |-> ParsedCheck(SumText(rate.average_check_kopecks))]
     ELSE UNCHANGED <<saved, slips, rate>>
  /\ form' = saved'
  /\ slip' = None
  /\ UNCHANGED <<stage, request, held>>

---------------------------------------------------------------------------
(* The templates *)

FillIn(field, text) ==
  /\ stage = "sale"
  /\ request' = [request EXCEPT !.text[field] = text]
  /\ UNCHANGED <<stage, saved, rate, form, slip, slips, held>>

SetSum(sum) ==
  /\ stage = "sale"
  /\ request' = [request EXCEPT !.sum_kopecks = sum]
  /\ UNCHANGED <<stage, saved, rate, form, slip, slips, held>>

\* The request is answered and its invoice charged: the payload fits.
Charge ==
  /\ stage = "sale"
  /\ Len(Payload(request)) <= MaxPayload
  /\ held' = request
  /\ UNCHANGED <<stage, saved, rate, form, slip, slips, request>>

Next ==
  \/ \E field \in DOMAIN form : \E i \in DOMAIN form[field] :
       Transpose(field, i) \/ \E c \in Char : Mistype(field, i, c)
  \/ SaveForm
  \/ \E field \in Edited, text \in Texts \cup {None} : FillIn(field, text)
  \/ \E sum \in Sums \cup {None} : SetSum(sum)
  \/ Charge

Spec == Init /\ [][Next]_vars

---------------------------------------------------------------------------
(* Properties *)

AccountFields == {"personal_acc", "corresp_acc"}

\* The places of the BIC that take part in the check of some account.
CheckedBic ==
  UNION {IF IsCorrespondent(saved[f]) THEN {5, 6} ELSE {7, 8, 9} : f \in AccountFields}

\* Every figure is what it was: only its script is another one.
SameFigures(f) ==
  \A i \in f.places : Value(form[f.field][i]) = Value(saved[f.field][i])

\* Neighbours that differ by five: the weights differ by even numbers.
FiveApart(f) ==
  Cardinality(f.places) = 2 /\
  \A i, j \in f.places :
    Value(saved[f.field][i]) - Value(saved[f.field][j]) \in {0, 5, -5}

\* A remainder of ten and one of nought give the same control digit.
SameControl(weights) ==
  {Remainder(Ints(saved.payee_inn), weights), Remainder(Ints(form.payee_inn), weights)} = {0, 10}

\* A saved form that differs from the right one by one mistyped character or
\* two transposed neighbours has been accepted only where the control digits
\* cannot tell: in a KPP; in the places of the BIC no account is checked
\* with; where the figures are the right ones in another script; for
\* neighbours that differ by five; where the slip turns an account into one
\* of the other type, which is checked with other digits; and in an INN when
\* a remainder goes from nought to ten or a control digit moved.  The README
\* of the sources promises more: no slip in an account number (582).
SlipsShow ==
  slip # None /\ Accepted(form) =>
    \/ slip.field = "kpp"
    \/ slip.field = "bic" /\ slip.places \cap CheckedBic = {}
    \/ SameFigures(slip)
    \/ slip.field \in AccountFields \cup {"bic"} /\ FiveApart(slip)
    \/ /\ slip.field \in AccountFields
       /\ IsCorrespondent(form[slip.field]) # IsCorrespondent(saved[slip.field])
    \/ /\ slip.field = "payee_inn"
       /\ \/ \E weights \in {CompanyWeights, PersonWeightsFirst, PersonWeightsSecond} :
               SameControl(weights)
          \/ Cardinality(slip.places) = 2 /\ \E i \in slip.places : i >= 10

\* Saving a form again, whatever else was edited in it, leaves the rate of the
\* bank and the average check as they are: the texts of the form are read back
\* to the numbers they were made of.
UntouchedFieldsKept == [][rate' = rate]_vars

\* What the payer's bank reads: the values between two bars, blank ones apart.
Read(payload) ==
  LET bars == {i \in DOMAIN payload : payload[i] = Bar} \cup {Len(payload) + 1} IN
  {SubSeq(payload, p[1] + 1, p[2] - 1) : p \in
     {q \in bars \X bars : q[1] + 2 < q[2] /\ \A k \in bars : ~(q[1] < k /\ k < q[2])}}

\* Requests with one key are one document for the bank, so a free repetition
\* never carries another payment; requests with different keys, which are
\* charged apart, are different documents unless one has a bar in a text; and
\* the bank reads every field that has a word in it.
KeyMeansDocument ==
  LET keys == {Key(request), Key(held)}
      documents == {Read(Payload(request)), Read(Payload(held))}
  IN
  /\ Cardinality(keys) = 1 => Cardinality(documents) = 1
  /\ Cardinality(documents) = 1 =>
       \/ Cardinality(keys) = 1
       \/ \E r \in {request, held}, f \in Edited : r.text[f] # None /\ Contains(r.text[f], Bar)
  /\ {field[1] : field \in Read(Payload(request)) \ {<<"sum", request.sum_kopecks>>}} =
       {f \in Edited : request.text[f] # None /\ \E word \in Words : Contains(request.text[f], word)}
=============================================================================

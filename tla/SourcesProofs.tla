---------------------------- MODULE SourcesProofs ----------------------------
(***************************************************************************)
(* Proofs about what the server reads from other services.  Sources and    *)
(* Money: what was exported is read back, a preview accounts for every     *)
(* invoice that stayed outstanding while it was made, and no source record *)
(* is imported twice, for every list of invoices, page size, limit and     *)
(* number of changes.  FinancialSystems (the last sections): the overview  *)
(* says what the services answered, for every catalog and every list of    *)
(* integrations.                                                           *)
(***************************************************************************)
EXTENDS Sources, FinancialSystems, SequenceTheorems, FiniteSetTheorems, WellFoundedInduction, TLAPS

-----------------------------------------------------------------------------
(* Amounts                                                                 *)

LEMMA CentsDigits ==
  ASSUME NEW a \in Digits, NEW b \in Digits
  PROVE  Cents(<<a, b>>) = 10 * a + b
  BY DEF Cents, Digits

LEMMA TextFraction ==
  ASSUME NEW t \in Text
  PROVE  Cents(t.fraction) \in 0 .. 99
<1>1. CASE t.fraction = <<>>
  BY <1>1 DEF Cents
<1>2. ASSUME NEW d \in Digits, t.fraction = <<d>>
      PROVE  Cents(t.fraction) \in 0 .. 99
  <2>1. Len(<<d>>) = 1 /\ <<d>>[1] = d
    OBVIOUS
  <2>2. Cents(<<d>>) = 10 * d
    BY <2>1 DEF Cents
  <2> QED BY <1>2, <2>2 DEF Digits
<1>3. ASSUME NEW a \in Digits, NEW b \in Digits, t.fraction = <<a, b>>
      PROVE  Cents(t.fraction) \in 0 .. 99
  <2>1. 10 * a + b \in 0 .. 99
    BY DEF Digits
  <2> QED BY <1>3, <2>1, CentsDigits
<1>4. t.fraction \in {<<>>} \cup {<<d>> : d \in Digits} \cup (Digits \X Digits)
  BY DEF Text
<1>5. CASE t.fraction \in Digits \X Digits
  <2>1. PICK a \in Digits, b \in Digits : t.fraction = <<a, b>>
    BY <1>5
  <2> QED BY <2>1, <1>3
<1>6. CASE t.fraction \in {<<d>> : d \in Digits}
  BY <1>2, <1>6
<1> QED BY <1>1, <1>4, <1>5, <1>6

LEMMA MoneyIsInt ==
  ASSUME NEW t \in Text
  PROVE  Money(t) \in Int
<1>1. Cents(t.fraction) \in Int /\ t.whole \in Nat
  BY TextFraction DEF Text
<1> QED BY <1>1 DEF Money

(* Decimal and Money are inverse to each other on every amount below the   *)
(* largest that Validate accepts (guidance/model.go: Money, Decimal).      *)
THEOREM DecimalIsRead ==
  ASSUME NEW n \in Int, Magnitude(n) < MaxAmount
  PROVE  Decimal(n) \in Text /\ IsMoney(Decimal(n)) /\ Money(Decimal(n)) = n
<1> DEFINE m == Magnitude(n)
           tens == (m % 100) \div 10
           ones == m % 10
<1>1. m \in Nat /\ m < 100 * WholeLimit /\ WholeLimit \in Nat
  BY MoneyAssumption DEF Magnitude, MaxAmount
<1>2. m = 100 * (m \div 100) + (m % 100) /\ m % 100 \in 0 .. 99 /\ m \div 100 \in Nat
  BY <1>1
<1>3. tens \in Digits /\ ones \in Digits /\ 10 * tens + ones = m % 100
  BY <1>1 DEF Digits
<1>4. m \div 100 < WholeLimit
  BY <1>1, <1>2
<1>5. /\ Decimal(n).negative = (n < 0) /\ Decimal(n).whole = m \div 100
      /\ Decimal(n).fraction = <<tens, ones>>
      /\ Decimal(n) = [negative |-> n < 0, whole |-> m \div 100, fraction |-> <<tens, ones>>]
  BY DEF Decimal
<1>6. Decimal(n) \in Text
  <2>1. <<tens, ones>> \in Digits \X Digits /\ (n < 0) \in BOOLEAN
    BY <1>3
  <2> QED BY <1>2, <1>5, <2>1 DEF Text
<1>7. Cents(Decimal(n).fraction) = m % 100
  BY <1>3, <1>5, CentsDigits
<1>8. IsMoney(Decimal(n))
  BY <1>4, <1>5 DEF IsMoney
<1>9. Money(Decimal(n)) = IF n < 0 THEN -m ELSE m
  <2>1. 100 * Decimal(n).whole + Cents(Decimal(n).fraction) = m
    BY <1>2, <1>5, <1>7
  <2>2. Decimal(n).negative = (n < 0)
    BY <1>5
  <2> QED BY <2>1, <2>2 DEF Money
<1> QED BY <1>6, <1>8, <1>9 DEF Magnitude

-----------------------------------------------------------------------------
(* The invariant                                                           *)

Reading ==
  [state : {"paging", "over"}, offset : Nat, rows : Seq(Movement), foreign : SUBSET STRING,
   limited : BOOLEAN, refs : SUBSET STRING, claims : SUBSET Invoice]

Preview ==
  [rows : Seq(Movement), boxes : SUBSET Nat, foreign : SUBSET STRING, limited : BOOLEAN,
   claims : SUBSET Invoice]

SourcesTypeOK ==
  /\ TypeOK
  /\ reading = NoReading \/ reading \in Reading
  /\ shown \in Preview

(* Where a preview that is being made stands with an invoice that has been *)
(* outstanding since it began: cut off, still to come, or among its rows.  *)
Reported(inv) ==
  /\ Importable(inv) => InvoiceMovement(inv) \in Elements(reading.rows)
  /\ Foreign(inv) => inv.id \in reading.foreign

ToCome(inv) ==
  /\ reading.state = "paging"
  /\ \E i \in DOMAIN invoices : i > reading.offset /\ invoices[i] = inv

PreviewOnItsWay ==
  reading \in Reading =>
    \A inv \in reading.claims : reading.limited \/ ToCome(inv) \/ Reported(inv)

(* Boxes drawn for the draft of now offer nothing that it holds.           *)
OfferedOnce ==
  picker /\ ~replaced => \A i \in shown.boxes : shown.rows[i].ref \notin Refs(draft)

(* A preview is cut only with its last page.                               *)
CutAtTheEnd == reading \in Reading /\ reading.state = "paging" => ~reading.limited

SourcesInv ==
  /\ SourcesTypeOK /\ Valid(saved) /\ OfferedOnce /\ CutAtTheEnd
  /\ PreviewOnItsWay /\ CutIsAnnounced

-----------------------------------------------------------------------------
(* Sequences                                                               *)

LEMMA AscendingFacts ==
  ASSUME NEW n \in Nat, NEW S \in SUBSET (1 .. n), NEW f \in Ascending(S)
  PROVE  /\ Cardinality(S) \in Nat
         /\ f \in [1 .. Cardinality(S) -> S]
         /\ \A i \in S : \E j \in 1 .. Cardinality(S) : f[j] = i
<1>1. IsFiniteSet(S)
  <2>1. IsFiniteSet(1 .. n)
    BY FS_Interval
  <2> QED BY <2>1, FS_Subset
<1>2. Cardinality(S) \in Nat
  BY <1>1, FS_CardinalityType
<1>3. f \in [1 .. Cardinality(S) -> S] /\ \A i \in S : \E j \in DOMAIN f : f[j] = i
  BY DEF Ascending
<1> QED BY <1>2, <1>3

LEMMA ElementsOfConcat ==
  ASSUME NEW T, NEW s \in Seq(T), NEW t \in Seq(T)
  PROVE  s \o t \in Seq(T) /\ Elements(s \o t) = Elements(s) \cup Elements(t)
<1>1. /\ s \o t \in Seq(T) /\ Len(s) \in Nat /\ Len(t) \in Nat
      /\ DOMAIN s = 1 .. Len(s) /\ DOMAIN t = 1 .. Len(t)
      /\ DOMAIN (s \o t) = 1 .. Len(s) + Len(t)
      /\ \A i \in 1 .. Len(s) + Len(t) :
           (s \o t)[i] = IF i <= Len(s) THEN s[i] ELSE t[i - Len(s)]
  BY ConcatProperties, LenProperties
<1>2. ASSUME NEW i \in DOMAIN (s \o t)
      PROVE  (s \o t)[i] \in Elements(s) \cup Elements(t)
  BY <1>1 DEF Elements
<1>3. ASSUME NEW i \in DOMAIN s
      PROVE  s[i] \in Elements(s \o t)
  <2>1. i \in DOMAIN (s \o t) /\ (s \o t)[i] = s[i]
    BY <1>1
  <2> QED BY <2>1 DEF Elements
<1>4. ASSUME NEW i \in DOMAIN t
      PROVE  t[i] \in Elements(s \o t)
  <2>1. i + Len(s) \in DOMAIN (s \o t) /\ (s \o t)[i + Len(s)] = t[i]
    BY <1>1
  <2> QED BY <2>1 DEF Elements
<1> QED BY <1>1, <1>2, <1>3, <1>4 DEF Elements

LEMMA RefsOfElements ==
  ASSUME NEW rows
  PROVE  Refs(rows) = {m.ref : m \in Elements(rows)} \ {Blank}
  BY DEF Refs, Elements

LEMMA PartOfSequence ==
  ASSUME NEW T, NEW s \in Seq(T), NEW m \in 1 .. Len(s) + 1, NEW n \in 0 .. Len(s)
  PROVE  SubSeq(s, m, n) \in Seq(T) /\ Elements(SubSeq(s, m, n)) \subseteq Elements(s)
<1>1. Len(s) \in Nat /\ DOMAIN s = 1 .. Len(s) /\ \A j \in 1 .. Len(s) : s[j] \in T
  BY LenProperties
<1>2. \A j \in m .. n : j \in 1 .. Len(s) /\ s[j] \in T
  BY <1>1
<1>3. /\ SubSeq(s, m, n) \in Seq(T)
      /\ Len(SubSeq(s, m, n)) = IF m <= n THEN n - m + 1 ELSE 0
      /\ \A j \in 1 .. n - m + 1 : SubSeq(s, m, n)[j] = s[m + j - 1]
  BY <1>1, <1>2, SubSeqProperties
<1>4. DOMAIN SubSeq(s, m, n) = 1 .. Len(SubSeq(s, m, n))
  BY <1>3, LenProperties
<1>5. ASSUME NEW j \in DOMAIN SubSeq(s, m, n)
      PROVE  SubSeq(s, m, n)[j] \in Elements(s)
  <2>1. j \in 1 .. n - m + 1 /\ m + j - 1 \in m .. n
    BY <1>1, <1>3, <1>4
  <2>2. m + j - 1 \in DOMAIN s /\ SubSeq(s, m, n)[j] = s[m + j - 1]
    BY <1>1, <1>2, <1>3, <2>1
  <2> QED BY <2>2 DEF Elements
<1> QED BY <1>3, <1>5 DEF Elements

LEMMA WithoutOne ==
  ASSUME NEW T, NEW s \in Seq(T), NEW i \in DOMAIN s
  PROVE  /\ SubSeq(s, 1, i - 1) \o SubSeq(s, i + 1, Len(s)) \in Seq(T)
         /\ Elements(SubSeq(s, 1, i - 1) \o SubSeq(s, i + 1, Len(s))) \subseteq Elements(s)
<1>1. Len(s) \in Nat /\ DOMAIN s = 1 .. Len(s)
  BY LenProperties
<1>2. SubSeq(s, 1, i - 1) \in Seq(T) /\ Elements(SubSeq(s, 1, i - 1)) \subseteq Elements(s)
  BY <1>1, PartOfSequence
<1>3. SubSeq(s, i + 1, Len(s)) \in Seq(T) /\ Elements(SubSeq(s, i + 1, Len(s))) \subseteq Elements(s)
  BY <1>1, PartOfSequence
<1> DEFINE before == SubSeq(s, 1, i - 1)
           after == SubSeq(s, i + 1, Len(s))
<1>4. before \in Seq(T) /\ after \in Seq(T)
  BY <1>2, <1>3
<1> HIDE DEF before, after
<1>5. before \o after \in Seq(T) /\ Elements(before \o after) = Elements(before) \cup Elements(after)
  BY <1>4, ElementsOfConcat
<1> QED BY <1>2, <1>3, <1>5 DEF before, after

(* What imported CSV rows and other movements look like.                   *)
LEMMA MovementType ==
  ASSUME NEW ref \in STRING \cup {Blank}, NEW kind \in AnyKind, NEW amount \in Int,
         NEW certainty \in AnyCertainty, NEW date \in {Blank, "inside", "outside"}
  PROVE  [ref |-> ref, kind |-> kind, amount |-> amount, certainty |-> certainty,
          date |-> date] \in Movement
  BY DEF Movement

LEMMA InvoiceMovementType ==
  ASSUME NEW inv \in Invoice, Importable(inv)
  PROVE  InvoiceMovement(inv) \in Movement
<1>1. inv.id \in STRING /\ inv.residual \in Int
  BY DEF Invoice
<1>2. InvoiceKind(inv.type) \in AnyKind
  <2>1. InvoiceKind(inv.type) # Blank
    BY DEF Importable
  <2>2. InvoiceKind(inv.type) \in {"payment", "receipt", Blank}
    BY DEF InvoiceKind
  <2> QED BY <2>1, <2>2 DEF AnyKind, Kinds
<1>3. FloatMinor(inv.residual) \in Int
  <2>1. (Magnitude(inv.residual) + 5) \div 10 \in Int
    BY <1>1 DEF Magnitude
  <2> QED BY <1>1, <2>1 DEF FloatMinor
<1>4. "contracted" \in AnyCertainty
  BY DEF AnyCertainty, Certainties
<1> QED BY <1>1, <1>2, <1>3, <1>4, MovementType DEF InvoiceMovement

LEMMA LedgerMovementType ==
  ASSUME NEW row \in Forecast
  PROVE  LedgerMovement(row) \in Movement
<1>1. row.ref \in STRING /\ row.amount \in Int /\ row.date \in {"inside", "outside"}
  BY DEF Forecast
<1>2. Magnitude(row.amount) \in Int
  BY <1>1 DEF Magnitude
<1>3. (IF row.amount < 0 THEN "payment" ELSE "receipt") \in AnyKind
  BY DEF AnyKind, Kinds
<1>4. "estimated" \in AnyCertainty
  BY DEF AnyCertainty, Certainties
<1> QED BY <1>1, <1>2, <1>3, <1>4, MovementType DEF LedgerMovement

LEMMA LineMovementType ==
  ASSUME NEW line \in Line
  PROVE  LineMovement(line) \in Movement /\ LineMovement(line).ref = Blank
<1>1. line.kind \in AnyKind /\ line.certainty \in AnyCertainty /\ Money(line.amount) \in Int
  BY MoneyIsInt DEF Line
<1>2. (IF line.certainty # Blank THEN line.certainty
       ELSE IF line.kind = "financing" THEN "proposed" ELSE "estimated") \in AnyCertainty
  BY <1>1 DEF AnyCertainty, Certainties
<1> QED BY <1>1, <1>2, MovementType DEF LineMovement

LEMMA CSVMovementsType ==
  ASSUME NEW file \in Seq(Line)
  PROVE  /\ CSVMovements(file) \in Seq(Movement)
         /\ Refs(CSVMovements(file)) = {}
<1>1. Len(file) \in Nat /\ DOMAIN file = 1 .. Len(file) /\ \A i \in 1 .. Len(file) : file[i] \in Line
  BY LenProperties
<1>2. \A i \in 1 .. Len(file) : LineMovement(file[i]) \in Movement /\ LineMovement(file[i]).ref = Blank
  BY <1>1, LineMovementType
<1> QED BY <1>1, <1>2 DEF CSVMovements, Refs

-----------------------------------------------------------------------------
(* The initial states and the company at work                              *)

LEMMA NoReadingIsNone ==
  /\ NoReading \notin Reading /\ NoReading.state = "none"
  /\ \A r \in Reading : r.state \in {"paging", "over"} /\ r # NoReading
<1>1. NoReading.state = "none"
  BY DEF NoReading
<1>2. \A r \in Reading : r.state \in {"paging", "over"}
  BY DEF Reading
<1> QED BY <1>1, <1>2

LEMMA InitSourcesInv == Init => SourcesInv
<1> SUFFICES ASSUME Init PROVE SourcesInv
  OBVIOUS
<1>1. invoices \in Seq(Invoice)
  BY SourcesAssumption DEF Init
<1>2. <<>> \in Seq(Movement) /\ Len(<<>>) = 0 /\ DOMAIN <<>> = {}
  BY EmptySeq
<1>3. NothingShown \in Preview
  BY <1>2 DEF NothingShown, Preview
<1>4. TypeOK
  BY <1>1, <1>2 DEF Init, TypeOK, NothingShown
<1>5. Valid(saved)
  BY <1>2, SourcesAssumption DEF Init, Valid, ValidIgnoringRefs, DistinctRefs
<1>6. PreviewOnItsWay /\ CutAtTheEnd /\ OfferedOnce /\ CutIsAnnounced
  BY NoReadingIsNone DEF Init, PreviewOnItsWay, CutAtTheEnd, OfferedOnce, CutIsAnnounced, NothingShown
<1> QED BY <1>3, <1>4, <1>5, <1>6 DEF SourcesInv, SourcesTypeOK, Init

(* Only a preview that is being made depends on what the company does.     *)
LEMMA ConsoleUntouched ==
  ASSUME SourcesInv, UNCHANGED <<picker, shown, draft, saved, replaced>>,
         invoices' \in Seq(Invoice),
         reading' = NoReading \/ reading' \in Reading,
         PreviewOnItsWay', CutAtTheEnd'
  PROVE  SourcesInv'
<1>1. TypeOK' /\ shown' \in Preview
  BY DEF SourcesInv, SourcesTypeOK, TypeOK
<1>2. Valid(saved)' /\ OfferedOnce' /\ CutIsAnnounced'
  BY DEF SourcesInv, Valid, ValidIgnoringRefs, DistinctRefs, OfferedOnce, CutIsAnnounced
<1> QED BY <1>1, <1>2 DEF SourcesInv, SourcesTypeOK

LEMMA PostKeepsInv ==
  ASSUME SourcesInv, NEW inv \in NewInvoices, Post(inv)
  PROVE  SourcesInv'
<1>1. /\ invoices' = <<inv>> \o invoices /\ UNCHANGED <<reading, picker, shown, draft, saved, replaced>>
      /\ invoices \in Seq(Invoice) /\ inv \in Invoice
  BY SourcesAssumption DEF Post, SourcesInv, SourcesTypeOK, TypeOK
<1>2. <<inv>> \in Seq(Invoice) /\ Len(<<inv>>) = 1
  BY <1>1
<1>3. /\ invoices' \in Seq(Invoice) /\ Len(invoices) \in Nat
      /\ DOMAIN invoices = 1 .. Len(invoices) /\ DOMAIN invoices' = 1 .. 1 + Len(invoices)
      /\ \A i \in 1 .. 1 + Len(invoices) :
           invoices'[i] = IF i <= 1 THEN <<inv>>[i] ELSE invoices[i - 1]
  BY <1>1, <1>2, ConcatProperties, LenProperties
<1>4. ASSUME NEW c, ToCome(c), reading \in Reading
      PROVE  ToCome(c)'
  <2>1. PICK i \in DOMAIN invoices : i > reading.offset /\ invoices[i] = c
    BY <1>4 DEF ToCome
  <2>2. reading.offset \in Nat
    BY <1>4 DEF Reading
  <2>3. i + 1 \in DOMAIN invoices' /\ invoices'[i + 1] = c /\ i + 1 > reading.offset
    BY <1>3, <2>1, <2>2
  <2> QED BY <1>1, <1>4, <2>3 DEF ToCome
<1>5. PreviewOnItsWay' /\ CutAtTheEnd'
  BY <1>1, <1>4 DEF SourcesInv, PreviewOnItsWay, CutAtTheEnd, Reported
<1>6. reading' = NoReading \/ reading' \in Reading
  BY <1>1 DEF SourcesInv, SourcesTypeOK
<1> QED BY <1>1, <1>3, <1>5, <1>6, ConsoleUntouched

LEMMA PayKeepsInv ==
  ASSUME SourcesInv, NEW i \in DOMAIN invoices, Pay(i)
  PROVE  SourcesInv'
<1>1. /\ invoices' = [invoices EXCEPT ![i].residual = 0]
      /\ reading' = IF reading.state = "none" THEN reading
                    ELSE [reading EXCEPT !.claims = @ \ {invoices[i]}]
      /\ UNCHANGED <<picker, shown, draft, saved, replaced>>
      /\ invoices \in Seq(Invoice) /\ invoices[i] \in Invoice
  BY ElementOfSeq DEF Pay, SourcesInv, SourcesTypeOK, TypeOK
<1>2. [invoices[i] EXCEPT !.residual = 0] \in Invoice
  BY <1>1 DEF Invoice
<1>3. /\ invoices' \in Seq(Invoice) /\ DOMAIN invoices' = DOMAIN invoices
      /\ \A j \in DOMAIN invoices : j # i => invoices'[j] = invoices[j]
  BY <1>1, <1>2
<1>4. CASE reading = NoReading
  <2>1. reading' = NoReading
    BY <1>1, <1>4, NoReadingIsNone
  <2>2. PreviewOnItsWay' /\ CutAtTheEnd'
    BY <2>1, NoReadingIsNone DEF PreviewOnItsWay, CutAtTheEnd
  <2> QED BY <1>1, <1>3, <2>1, <2>2, ConsoleUntouched
<1>5. CASE reading \in Reading
  <2>1. reading' = [reading EXCEPT !.claims = @ \ {invoices[i]}]
    BY <1>1, <1>5, NoReadingIsNone
  <2>2. /\ reading' \in Reading /\ reading'.claims = reading.claims \ {invoices[i]}
        /\ reading'.state = reading.state /\ reading'.offset = reading.offset
        /\ reading'.rows = reading.rows /\ reading'.foreign = reading.foreign
        /\ reading'.limited = reading.limited
    BY <1>5, <2>1 DEF Reading
  <2>3. ASSUME NEW c \in reading'.claims, ToCome(c)
        PROVE  ToCome(c)'
    <3>1. PICK j \in DOMAIN invoices : j > reading.offset /\ invoices[j] = c
      BY <2>3 DEF ToCome
    <3>2. j # i
      BY <2>2, <3>1
    <3> QED BY <1>3, <2>2, <2>3, <3>1, <3>2 DEF ToCome
  <2>4. PreviewOnItsWay' /\ CutAtTheEnd'
    BY <1>5, <2>2, <2>3 DEF SourcesInv, PreviewOnItsWay, CutAtTheEnd, Reported
  <2> QED BY <1>1, <1>3, <2>2, <2>4, ConsoleUntouched
<1> QED BY <1>4, <1>5 DEF SourcesInv, SourcesTypeOK

LEMMA TakeBackKeepsInv ==
  ASSUME SourcesInv, NEW i \in DOMAIN invoices, TakeBack(i)
  PROVE  SourcesInv'
<1>1. /\ invoices' = SubSeq(invoices, 1, i - 1) \o SubSeq(invoices, i + 1, Len(invoices))
      /\ reading' = IF reading.state = "none" THEN reading ELSE [reading EXCEPT !.claims = {}]
      /\ UNCHANGED <<picker, shown, draft, saved, replaced>>
      /\ invoices \in Seq(Invoice)
  BY DEF TakeBack, SourcesInv, SourcesTypeOK, TypeOK
<1>2. invoices' \in Seq(Invoice)
  BY <1>1, WithoutOne
<1>3. \/ reading' = NoReading
      \/ /\ reading \in Reading /\ reading' \in Reading /\ reading'.claims = {}
         /\ reading'.state = reading.state /\ reading'.limited = reading.limited
  <2>1. CASE reading = NoReading
    BY <1>1, <2>1, NoReadingIsNone
  <2>2. CASE reading \in Reading
    <3>1. reading' = [reading EXCEPT !.claims = {}]
      BY <1>1, <2>2, NoReadingIsNone
    <3> QED BY <2>2, <3>1 DEF Reading
  <2> QED BY <2>1, <2>2 DEF SourcesInv, SourcesTypeOK
<1>4. PreviewOnItsWay' /\ CutAtTheEnd'
  BY <1>3, NoReadingIsNone DEF PreviewOnItsWay, CutAtTheEnd, SourcesInv
<1> QED BY <1>1, <1>2, <1>3, <1>4, ConsoleUntouched

-----------------------------------------------------------------------------
(* The preview                                                             *)

LEMMA RefsAreStrings ==
  ASSUME NEW rows \in Seq(Movement)
  PROVE  Refs(rows) \subseteq STRING
<1>1. DOMAIN rows = 1 .. Len(rows) /\ \A i \in 1 .. Len(rows) : rows[i] \in Movement
  BY LenProperties
<1> QED BY <1>1 DEF Refs, Movement

LEMMA AskOdooKeepsInv ==
  ASSUME SourcesInv, AskOdoo
  PROVE  SourcesInv'
<1>1. /\ reading' = [state |-> "paging", offset |-> 0, rows |-> <<>>, foreign |-> {},
                     limited |-> FALSE, refs |-> Refs(draft), claims |-> Elements(invoices)]
      /\ UNCHANGED <<invoices, picker, shown, draft, saved, replaced>>
      /\ invoices \in Seq(Invoice) /\ draft \in Seq(Movement)
  BY DEF AskOdoo, SourcesInv, SourcesTypeOK, TypeOK
<1>2. DOMAIN invoices = 1 .. Len(invoices) /\ \A i \in 1 .. Len(invoices) : invoices[i] \in Invoice
  BY <1>1, LenProperties
<1>3. Elements(invoices) \subseteq Invoice /\ Refs(draft) \subseteq STRING
  BY <1>1, <1>2, RefsAreStrings DEF Elements
<1>4. <<>> \in Seq(Movement)
  BY EmptySeq
<1>5. reading' \in Reading
  BY <1>1, <1>3, <1>4 DEF Reading
<1>6. ASSUME NEW c \in reading'.claims
      PROVE  ToCome(c)'
  <2>1. PICK i \in DOMAIN invoices : invoices[i] = c
    BY <1>1, <1>6 DEF Elements
  <2>2. i > 0 /\ reading'.offset = 0 /\ reading'.state = "paging"
    BY <1>1, <1>2
  <2> QED BY <1>1, <2>1, <2>2 DEF ToCome
<1>7. PreviewOnItsWay' /\ CutAtTheEnd'
  BY <1>1, <1>6 DEF PreviewOnItsWay, CutAtTheEnd
<1> QED BY <1>1, <1>5, <1>7, ConsoleUntouched

LEMMA AskLedgerKeepsInv ==
  ASSUME SourcesInv, NEW list \in LedgerAnswers, AskLedger(list)
  PROVE  SourcesInv'
<1> DEFINE S == {i \in DOMAIN list : list[i].amount # 0}
<1>1. /\ list \in Seq(Forecast) /\ draft \in Seq(Movement) /\ invoices \in Seq(Invoice)
      /\ UNCHANGED <<invoices, picker, shown, draft, saved, replaced>>
  BY SourcesAssumption DEF AskLedger, SourcesInv, SourcesTypeOK, TypeOK
<1>2. Len(list) \in Nat /\ DOMAIN list = 1 .. Len(list) /\ \A i \in 1 .. Len(list) : list[i] \in Forecast
  BY <1>1, LenProperties
<1>3. PICK f \in Ascending(S) :
        reading' = [state |-> "over", offset |-> 0, foreign |-> {}, limited |-> FALSE,
                    rows |-> [n \in DOMAIN f |-> LedgerMovement(list[f[n]])],
                    refs |-> Refs(draft), claims |-> {}]
  BY DEF AskLedger
<1>4. Cardinality(S) \in Nat /\ f \in [1 .. Cardinality(S) -> S]
  BY <1>2, AscendingFacts
<1>5. \A n \in 1 .. Cardinality(S) : LedgerMovement(list[f[n]]) \in Movement
  BY <1>2, <1>4, LedgerMovementType
<1>6. [n \in DOMAIN f |-> LedgerMovement(list[f[n]])] \in Seq(Movement)
  <2>1. DOMAIN f = 1 .. Cardinality(S)
    BY <1>4
  <2>2. [n \in DOMAIN f |-> LedgerMovement(list[f[n]])] \in [1 .. Cardinality(S) -> Movement]
    BY <1>5, <2>1
  <2> QED BY <1>4, <2>2
<1>7. reading' \in Reading /\ reading'.claims = {}
  BY <1>1, <1>3, <1>6, RefsAreStrings DEF Reading
<1>8. PreviewOnItsWay' /\ CutAtTheEnd'
  BY <1>3, <1>7 DEF PreviewOnItsWay, CutAtTheEnd
<1> QED BY <1>1, <1>7, <1>8, ConsoleUntouched

LEMMA ReadFailsKeepsInv ==
  ASSUME SourcesInv, ReadFails
  PROVE  SourcesInv'
<1>1. /\ reading' = NoReading /\ UNCHANGED <<invoices, picker, shown, draft, saved, replaced>>
      /\ invoices \in Seq(Invoice)
  BY DEF ReadFails, SourcesInv, SourcesTypeOK, TypeOK
<1>2. PreviewOnItsWay' /\ CutAtTheEnd'
  BY <1>1, NoReadingIsNone DEF PreviewOnItsWay, CutAtTheEnd
<1> QED BY <1>1, <1>2, ConsoleUntouched

LEMMA PageFacts ==
  ASSUME invoices \in Seq(Invoice), NEW offset \in Nat
  PROVE  /\ Page(offset) \in Seq(Invoice)
         /\ Len(Page(offset)) \in Nat /\ DOMAIN Page(offset) = 1 .. Len(Page(offset))
         /\ \A i \in 1 .. Len(Page(offset)) : Page(offset)[i] = invoices[offset + i]
         /\ \A i \in DOMAIN invoices : i > offset /\ i <= offset + PageSize =>
              i - offset \in 1 .. Len(Page(offset))
         /\ (\E i \in DOMAIN invoices : i > offset + PageSize) => ~IsLastPage(Page(offset))
<1> DEFINE last == Smaller(offset + PageSize, Len(invoices))
<1>1. /\ Len(invoices) \in Nat /\ DOMAIN invoices = 1 .. Len(invoices) /\ PageSize \in Nat \ {0}
      /\ \A i \in 1 .. Len(invoices) : invoices[i] \in Invoice
  BY LenProperties, SourcesAssumption
<1>2. last \in Nat /\ last <= Len(invoices) /\ last <= offset + PageSize
      /\ (last = offset + PageSize \/ last = Len(invoices))
  <2>1. \A a, b \in Nat : /\ Smaller(a, b) \in {a, b}
                          /\ Smaller(a, b) <= a /\ Smaller(a, b) <= b
    BY DEF Smaller
  <2>2. offset + PageSize \in Nat
    BY <1>1
  <2> QED BY <1>1, <2>1, <2>2
<1>3. \A i \in offset + 1 .. last : invoices[i] \in Invoice
  BY <1>1, <1>2
<1>4. /\ Page(offset) \in Seq(Invoice)
      /\ Len(Page(offset)) = IF offset + 1 <= last THEN last - (offset + 1) + 1 ELSE 0
      /\ \A i \in 1 .. last - (offset + 1) + 1 : Page(offset)[i] = invoices[offset + 1 + i - 1]
  <2>1. offset + 1 \in Int /\ last \in Int
    BY <1>2
  <2> QED BY <1>3, <2>1, SubSeqProperties DEF Page
<1>5. Len(Page(offset)) \in Nat /\ DOMAIN Page(offset) = 1 .. Len(Page(offset))
  BY <1>4, LenProperties
<1>6. ASSUME NEW i \in 1 .. Len(Page(offset))
      PROVE  Page(offset)[i] = invoices[offset + i]
  <2>1. i \in 1 .. last - (offset + 1) + 1 /\ offset + 1 + i - 1 = offset + i
    BY <1>2, <1>4
  <2> QED BY <1>4, <2>1
<1>7. ASSUME NEW i \in DOMAIN invoices, i > offset, i <= offset + PageSize
      PROVE  i - offset \in 1 .. Len(Page(offset))
  BY <1>1, <1>2, <1>4, <1>7
<1>8. ASSUME NEW i \in DOMAIN invoices, i > offset + PageSize
      PROVE  ~IsLastPage(Page(offset))
  BY <1>1, <1>2, <1>4, <1>8 DEF IsLastPage
<1> QED BY <1>4, <1>5, <1>6, <1>7, <1>8

(* The rows of a page: every invoice of it that can be imported.           *)
LEMMA MovementsFacts ==
  ASSUME NEW list \in Seq(Invoice), NEW rows \in Movements(list)
  PROVE  /\ rows \in Seq(Movement)
         /\ \A i \in DOMAIN list : Importable(list[i]) => InvoiceMovement(list[i]) \in Elements(rows)
<1> DEFINE S == {i \in DOMAIN list : Importable(list[i])}
<1>1. Len(list) \in Nat /\ DOMAIN list = 1 .. Len(list) /\ \A i \in 1 .. Len(list) : list[i] \in Invoice
  BY LenProperties
<1>2. PICK f \in Ascending(S) : rows = [n \in DOMAIN f |-> InvoiceMovement(list[f[n]])]
  BY DEF Movements
<1>3. /\ Cardinality(S) \in Nat /\ f \in [1 .. Cardinality(S) -> S]
      /\ \A i \in S : \E j \in 1 .. Cardinality(S) : f[j] = i
  BY <1>1, AscendingFacts
<1>4. \A n \in 1 .. Cardinality(S) : InvoiceMovement(list[f[n]]) \in Movement
  BY <1>1, <1>3, InvoiceMovementType
<1>5. rows \in Seq(Movement)
  BY <1>2, <1>3, <1>4
<1>6. ASSUME NEW i \in DOMAIN list, Importable(list[i])
      PROVE  InvoiceMovement(list[i]) \in Elements(rows)
  <2>1. PICK j \in 1 .. Cardinality(S) : f[j] = i
    BY <1>3, <1>6
  <2>2. j \in DOMAIN rows /\ rows[j] = InvoiceMovement(list[i])
    BY <1>2, <1>3, <2>1
  <2> QED BY <2>2 DEF Elements
<1> QED BY <1>5, <1>6

LEMMA ReadPageKeepsInv ==
  ASSUME SourcesInv, ReadPage
  PROVE  SourcesInv'
<1> DEFINE page == Page(reading.offset)
           next == reading.offset + PageSize
           skipped == {page[i].id : i \in {j \in DOMAIN page : Foreign(page[j])}}
           full == ~IsLastPage(page) /\ next = MaxInvoices
           over == IsLastPage(page) \/ next = MaxInvoices
<1>1. /\ reading \in Reading /\ reading.state = "paging" /\ reading.offset \in Nat
      /\ invoices \in Seq(Invoice) /\ UNCHANGED <<invoices, picker, shown, draft, saved, replaced>>
  BY NoReadingIsNone DEF ReadPage, SourcesInv, SourcesTypeOK, TypeOK, Reading
<1>2. PICK rows \in Movements(page) :
        reading' = [reading EXCEPT !.rows = @ \o rows, !.foreign = @ \cup skipped,
                                   !.limited = full,
                                   !.state = IF over THEN "over" ELSE "paging",
                                   !.offset = next]
  BY DEF ReadPage
<1>3. page \in Seq(Invoice) /\ DOMAIN page = 1 .. Len(page) /\ Len(page) \in Nat
  BY <1>1, PageFacts
<1>4. rows \in Seq(Movement)
  BY <1>3, MovementsFacts
<1>5. /\ reading.rows \o rows \in Seq(Movement)
      /\ Elements(reading.rows \o rows) = Elements(reading.rows) \cup Elements(rows)
  BY <1>1, <1>4, ElementsOfConcat DEF Reading
<1>6. skipped \subseteq STRING
  <2>1. \A i \in DOMAIN page : page[i] \in Invoice
    BY <1>3, LenProperties
  <2> QED BY <2>1 DEF Invoice
<1>7. next \in Nat
  BY <1>1, SourcesAssumption
<1>8. PICK b \in BOOLEAN, state \in {"over", "paging"} :
        /\ b = full /\ state = IF over THEN "over" ELSE "paging"
        /\ reading' = [reading EXCEPT !.rows = @ \o rows, !.foreign = @ \cup skipped,
                                      !.limited = b, !.state = state, !.offset = next]
  <2>1. full \in BOOLEAN /\ (IF over THEN "over" ELSE "paging") \in {"over", "paging"}
    BY DEF IsLastPage
  <2> QED BY <1>2, <2>1
<1> HIDE DEF page, next, skipped, full, over
<1>9. /\ reading' \in Reading /\ reading'.claims = reading.claims
      /\ reading'.rows = reading.rows \o rows /\ reading'.foreign = reading.foreign \cup skipped
      /\ reading'.limited = b /\ reading'.state = state /\ reading'.offset = next
  BY <1>1, <1>5, <1>6, <1>7, <1>8 DEF Reading
<1>10. ASSUME NEW c \in reading'.claims
       PROVE  reading'.limited \/ ToCome(c)' \/ Reported(c)'
  <2>1. reading.limited \/ ToCome(c) \/ Reported(c)
    BY <1>1, <1>9 DEF SourcesInv, PreviewOnItsWay
  <2>2. CASE Reported(c)
    BY <1>5, <1>9, <2>2 DEF Reported
  <2>3. CASE ToCome(c)
    <3>1. PICK i \in DOMAIN invoices : i > reading.offset /\ invoices[i] = c
      BY <2>3 DEF ToCome
    <3>2. DOMAIN invoices = 1 .. Len(invoices) /\ Len(invoices) \in Nat
      BY <1>1, LenProperties
    <3>3. CASE i <= next
      <4>1. i - reading.offset \in DOMAIN page /\ page[i - reading.offset] = c
        <5>1. i - reading.offset \in 1 .. Len(page)
          BY <1>1, <3>1, <3>3, PageFacts DEF page, next
        <5>2. page[i - reading.offset] = invoices[reading.offset + (i - reading.offset)]
          BY <1>1, <5>1, PageFacts DEF page
        <5>3. reading.offset + (i - reading.offset) = i
          BY <1>1, <3>2
        <5> QED BY <1>3, <3>1, <5>1, <5>2, <5>3
      <4>2. Importable(c) => InvoiceMovement(c) \in Elements(rows)
        BY <1>3, <4>1, MovementsFacts
      <4>3. Foreign(c) => c.id \in skipped
        BY <4>1 DEF skipped
      <4> QED BY <1>5, <1>9, <4>2, <4>3 DEF Reported
    <3>4. CASE i > next
      <4>1. ~IsLastPage(page)
        BY <1>1, <3>1, <3>4, PageFacts DEF page, next
      <4>2. CASE next = MaxInvoices
        BY <1>8, <1>9, <4>1, <4>2 DEF full
      <4>3. CASE next # MaxInvoices
        <5>1. state = "paging"
          BY <1>8, <4>1, <4>3 DEF over
        <5> QED BY <1>1, <1>9, <3>1, <3>4, <5>1 DEF ToCome
      <4> QED BY <4>2, <4>3
    <3> QED BY <1>7, <3>2, <3>3, <3>4
  <2>4. CASE reading.limited
    BY <1>1, <2>4 DEF SourcesInv, CutAtTheEnd
  <2> QED BY <2>1, <2>2, <2>3, <2>4
<1>11. PreviewOnItsWay' /\ CutAtTheEnd'
  <2>1. state = "paging" => ~b
    BY <1>8 DEF full, over
  <2> QED BY <1>9, <1>10, <2>1 DEF PreviewOnItsWay, CutAtTheEnd
<1>12. invoices' \in Seq(Invoice) /\ UNCHANGED <<picker, shown, draft, saved, replaced>>
  BY <1>1
<1> QED BY <1>9, <1>11, <1>12, ConsoleUntouched

-----------------------------------------------------------------------------
(* The console                                                             *)

LEMMA ShowKeepsInv ==
  ASSUME SourcesInv, Show
  PROVE  SourcesInv'
<1> DEFINE new == {i \in DOMAIN reading.rows : reading.rows[i].ref \notin Refs(draft)}
<1>1. /\ reading \in Reading /\ reading.state = "over"
      /\ shown' = [rows |-> reading.rows, boxes |-> new, foreign |-> reading.foreign,
                   limited |-> reading.limited, claims |-> reading.claims]
      /\ reading' = NoReading /\ replaced' = FALSE /\ UNCHANGED <<invoices, picker, draft, saved>>
  BY NoReadingIsNone DEF Show, Imported, SourcesInv, SourcesTypeOK
<1>2. /\ reading.rows \in Seq(Movement) /\ DOMAIN reading.rows = 1 .. Len(reading.rows)
      /\ Len(reading.rows) \in Nat
  BY <1>1, LenProperties DEF Reading
<1>3. new \subseteq DOMAIN reading.rows /\ new \in SUBSET Nat
  BY <1>2
<1>4. /\ shown'.rows = reading.rows /\ shown'.boxes = new /\ shown'.claims = reading.claims
      /\ shown'.limited = reading.limited /\ shown'.foreign = reading.foreign
  BY <1>1
<1>5. shown' \in Preview
  BY <1>1, <1>3 DEF Reading, Preview
<1>6. TypeOK'
  BY <1>1, <1>2, <1>3, <1>4 DEF SourcesInv, SourcesTypeOK, TypeOK
<1>7. OfferedOnce'
  BY <1>1, <1>4 DEF OfferedOnce
<1>8. CutIsAnnounced'
  <2>1. \A c \in reading.claims : reading.limited \/ Reported(c)
    BY <1>1 DEF SourcesInv, PreviewOnItsWay, ToCome
  <2> QED BY <1>4, <2>1 DEF CutIsAnnounced, Reported
<1>9. PreviewOnItsWay' /\ CutAtTheEnd'
  BY <1>1, NoReadingIsNone DEF PreviewOnItsWay, CutAtTheEnd
<1>10. Valid(saved)'
  BY <1>1 DEF SourcesInv, Valid, ValidIgnoringRefs, DistinctRefs
<1> QED BY <1>1, <1>5, <1>6, <1>7, <1>8, <1>9, <1>10 DEF SourcesInv, SourcesTypeOK

(* What the editor and the picker do leaves the preview under way alone.   *)
LEMMA PreviewUntouched ==
  ASSUME SourcesInv, UNCHANGED <<invoices, reading>>,
         picker' \in BOOLEAN, replaced' \in BOOLEAN, draft' \in Seq(Movement), OfferedOnce',
         shown' \in {shown, NothingShown}, saved' \in {saved, draft}, Valid(saved)'
  PROVE  SourcesInv'
<1>1. <<>> \in Seq(Movement) /\ DOMAIN <<>> = {}
  BY EmptySeq
<1>2. NothingShown \in Preview /\ NothingShown.rows = <<>> /\ NothingShown.boxes = {}
      /\ NothingShown.claims = {}
  BY <1>1 DEF NothingShown, Preview
<1>3. shown' \in Preview /\ shown'.rows \in Seq(Movement) /\ shown'.boxes \subseteq DOMAIN shown'.rows
  BY <1>1, <1>2 DEF SourcesInv, SourcesTypeOK, TypeOK
<1>4. TypeOK'
  BY <1>3 DEF SourcesInv, SourcesTypeOK, TypeOK
<1>5. CutIsAnnounced'
  BY <1>2 DEF SourcesInv, CutIsAnnounced
<1>6. PreviewOnItsWay' /\ CutAtTheEnd'
  BY DEF SourcesInv, PreviewOnItsWay, CutAtTheEnd, ToCome, Reported
<1>7. reading' = NoReading \/ reading' \in Reading
  BY DEF SourcesInv, SourcesTypeOK
<1> QED BY <1>3, <1>4, <1>5, <1>6, <1>7 DEF SourcesInv, SourcesTypeOK

(* A draft that holds no other records than before is offered none of them *)
(* anew.                                                                   *)
LEMMA DraftKeepsInv ==
  ASSUME SourcesInv, UNCHANGED <<invoices, reading, picker, shown, replaced>>,
         draft' \in Seq(Movement), Refs(draft') \subseteq Refs(draft),
         saved' \in {saved, draft}, Valid(saved)'
  PROVE  SourcesInv'
<1>1. OfferedOnce' /\ picker' \in BOOLEAN /\ replaced' \in BOOLEAN
  BY DEF SourcesInv, SourcesTypeOK, TypeOK, OfferedOnce
<1> QED BY <1>1, PreviewUntouched

(* A closed picker offers nothing.                                         *)
LEMMA ClosedKeepsInv ==
  ASSUME SourcesInv, UNCHANGED <<invoices, reading, shown, replaced>>, picker' = FALSE,
         draft' \in Seq(Movement), saved' \in {saved, draft}, Valid(saved)'
  PROVE  SourcesInv'
<1>1. OfferedOnce' /\ replaced' \in BOOLEAN
  BY DEF OfferedOnce, SourcesInv, SourcesTypeOK, TypeOK
<1> QED BY <1>1, PreviewUntouched

LEMMA SavedStays ==
  ASSUME SourcesInv, UNCHANGED saved
  PROVE  Valid(saved)'
  BY DEF SourcesInv, Valid, ValidIgnoringRefs, DistinctRefs

LEMMA PickerKeepsInv ==
  ASSUME SourcesInv, OpenPicker \/ ClosePicker
  PROVE  SourcesInv'
<1>1. draft \in Seq(Movement) /\ draft' = draft /\ Valid(saved)' /\ saved' = saved
  BY SavedStays DEF SourcesInv, SourcesTypeOK, TypeOK, OpenPicker, ClosePicker
<1>2. CASE OpenPicker
  <2>1. shown' = NothingShown /\ picker' = TRUE /\ replaced' = FALSE /\ UNCHANGED <<invoices, reading>>
    BY <1>2 DEF OpenPicker
  <2>2. OfferedOnce'
    BY <2>1 DEF OfferedOnce, NothingShown
  <2> QED BY <1>1, <2>1, <2>2, PreviewUntouched
<1>3. CASE ClosePicker
  BY <1>1, <1>3, ClosedKeepsInv DEF ClosePicker
<1> QED BY <1>2, <1>3

LEMMA ApplyKeepsInv ==
  ASSUME SourcesInv, NEW picks \in SUBSET shown.boxes, Apply(picks)
  PROVE  SourcesInv'
<1> DEFINE S == {i \in picks : shown.rows[i].date # "outside"}
<1>1. PICK f \in Ascending(S) : draft' = draft \o [n \in DOMAIN f |-> shown.rows[f[n]]]
  BY DEF Apply
<1>2. /\ draft \in Seq(Movement) /\ shown.rows \in Seq(Movement)
      /\ shown.boxes \subseteq DOMAIN shown.rows
      /\ picker' = FALSE /\ UNCHANGED <<invoices, reading, shown, saved, replaced>>
  BY DEF Apply, SourcesInv, SourcesTypeOK, TypeOK
<1>3. /\ DOMAIN shown.rows = 1 .. Len(shown.rows) /\ Len(shown.rows) \in Nat
      /\ \A i \in 1 .. Len(shown.rows) : shown.rows[i] \in Movement
  BY <1>2, LenProperties
<1>4. S \in SUBSET (1 .. Len(shown.rows))
  BY <1>2, <1>3
<1>5. Cardinality(S) \in Nat /\ f \in [1 .. Cardinality(S) -> S]
  BY <1>3, <1>4, AscendingFacts
<1>6. \A n \in 1 .. Cardinality(S) : shown.rows[f[n]] \in Movement
  BY <1>3, <1>4, <1>5
<1>7. [n \in DOMAIN f |-> shown.rows[f[n]]] \in Seq(Movement)
  <2> DEFINE k == Cardinality(S)
  <2>1. k \in Nat /\ DOMAIN f = 1 .. k
    BY <1>5
  <2>2. \A n \in 1 .. k : shown.rows[f[n]] \in Movement
    BY <1>6
  <2> HIDE DEF k
  <2>3. [n \in 1 .. k |-> shown.rows[f[n]]] \in Seq(Movement)
    BY <2>1, <2>2
  <2> QED BY <2>1, <2>3
<1>8. draft' \in Seq(Movement)
  BY <1>1, <1>2, <1>7, ConcatProperties
<1> QED BY <1>2, <1>8, SavedStays, ClosedKeepsInv

(* Opened anew with the picker open, the editor has another draft than the *)
(* boxes were drawn for.                                                   *)
LEMMA OpenEditorKeepsInv ==
  ASSUME SourcesInv, OpenEditor
  PROVE  SourcesInv'
<1>1. /\ draft' = saved /\ replaced' = picker /\ UNCHANGED <<invoices, reading, picker, shown, saved>>
      /\ saved \in Seq(Movement) /\ picker \in BOOLEAN
  BY DEF OpenEditor, SourcesInv, SourcesTypeOK, TypeOK
<1>2. OfferedOnce'
  BY <1>1 DEF OfferedOnce
<1> QED BY <1>1, <1>2, SavedStays, PreviewUntouched

LEMMA GiveDatesKeepsRefs ==
  ASSUME draft \in Seq(Movement), GiveDates
  PROVE  draft' \in Seq(Movement) /\ Refs(draft') \subseteq Refs(draft)
<1>1. Len(draft) \in Nat /\ DOMAIN draft = 1 .. Len(draft) /\ \A i \in 1 .. Len(draft) : draft[i] \in Movement
  BY LenProperties
<1>2. \A m \in Movement : /\ [m EXCEPT !.date = IF @ = Blank THEN "inside" ELSE @] \in Movement
                           /\ [m EXCEPT !.date = IF @ = Blank THEN "inside" ELSE @].ref = m.ref
  BY DEF Movement
<1>3. draft' = [i \in DOMAIN draft |-> [draft[i] EXCEPT !.date = IF @ = Blank THEN "inside" ELSE @]]
  BY DEF GiveDates
<1>4. draft' \in Seq(Movement)
  BY <1>1, <1>2, <1>3
<1>5. DOMAIN draft' = DOMAIN draft /\ \A i \in DOMAIN draft : draft'[i].ref = draft[i].ref
  BY <1>1, <1>2, <1>3
<1> QED BY <1>4, <1>5 DEF Refs

LEMMA EditorKeepsInv ==
  ASSUME SourcesInv,
         \/ GiveDates
         \/ \E i \in DOMAIN draft : Remove(i)
         \/ \E m \in ManualRows : Enter(m)
  PROVE  SourcesInv'
<1>1. UNCHANGED <<invoices, reading, picker, shown, saved, replaced>> /\ draft \in Seq(Movement)
  BY DEF GiveDates, Remove, Enter, SourcesInv, SourcesTypeOK, TypeOK
<1>2. draft' \in Seq(Movement) /\ Refs(draft') \subseteq Refs(draft)
  <2>1. CASE GiveDates
    BY <1>1, <2>1, GiveDatesKeepsRefs
  <2>2. ASSUME NEW i \in DOMAIN draft, Remove(i)
        PROVE  draft' \in Seq(Movement) /\ Refs(draft') \subseteq Refs(draft)
    <3>1. draft' \in Seq(Movement) /\ Elements(draft') \subseteq Elements(draft)
      BY <1>1, <2>2, WithoutOne DEF Remove
    <3> QED BY <3>1, RefsOfElements
  <2>3. ASSUME NEW m \in ManualRows, Enter(m)
        PROVE  draft' \in Seq(Movement) /\ Refs(draft') \subseteq Refs(draft)
    <3>1. m \in Movement /\ m.ref = Blank /\ draft' = Append(draft, m)
      BY <2>3, SourcesAssumption DEF Enter
    <3>2. draft' \in Seq(Movement) /\ Elements(draft') \subseteq Elements(draft) \cup {m}
      BY <1>1, <3>1, AppendProperties, LenProperties DEF Elements
    <3> QED BY <3>1, <3>2, RefsOfElements
  <2> QED BY <2>1, <2>2, <2>3
<1> QED BY <1>1, <1>2, SavedStays, DraftKeepsInv

LEMMA SaveKeepsInv ==
  ASSUME SourcesInv, Save
  PROVE  SourcesInv'
<1>1. /\ Valid(draft) /\ saved' = draft /\ draft \in Seq(Movement)
      /\ UNCHANGED <<invoices, reading, picker, shown, draft, replaced>>
  BY DEF Save, SourcesInv, SourcesTypeOK, TypeOK
<1>2. Valid(saved)'
  <2>1. Valid(draft')
    BY <1>1
  <2> QED BY <1>1, <2>1
<1> QED BY <1>1, <1>2, DraftKeepsInv

(* The rows of a file bring no references, so nothing that is offered      *)
(* becomes one the draft holds.                                            *)
LEMMA ImportKeepsInv ==
  ASSUME SourcesInv, NEW file \in Files, ImportCSV(file)
  PROVE  SourcesInv'
<1>1. /\ draft' = draft \o CSVMovements(file) /\ UNCHANGED <<invoices, reading, picker, shown, saved, replaced>>
      /\ draft \in Seq(Movement) /\ file \in Seq(Line)
  BY SourcesAssumption DEF ImportCSV, SourcesInv, SourcesTypeOK, TypeOK
<1>2. CSVMovements(file) \in Seq(Movement) /\ Refs(CSVMovements(file)) = {}
  BY <1>1, CSVMovementsType
<1>3. draft' \in Seq(Movement) /\ Elements(draft') = Elements(draft) \cup Elements(CSVMovements(file))
  BY <1>1, <1>2, ElementsOfConcat
<1>4. Refs(draft') = Refs(draft)
  BY <1>2, <1>3, RefsOfElements
<1> QED BY <1>1, <1>3, <1>4, SavedStays, DraftKeepsInv

-----------------------------------------------------------------------------
(* The theorems                                                            *)

LEMMA NextKeepsSourcesInv ==
  ASSUME SourcesInv, [Next]_vars
  PROVE  SourcesInv'
<1>1. ASSUME NEW inv \in NewInvoices, Post(inv) PROVE SourcesInv'
  BY <1>1, PostKeepsInv
<1>2. ASSUME NEW i \in DOMAIN invoices, Pay(i) \/ TakeBack(i) PROVE SourcesInv'
  BY <1>2, PayKeepsInv, TakeBackKeepsInv
<1>3. CASE AskOdoo
  BY <1>3, AskOdooKeepsInv
<1>4. CASE ReadPage
  BY <1>4, ReadPageKeepsInv
<1>5. CASE ReadFails
  BY <1>5, ReadFailsKeepsInv
<1>6. CASE Show
  BY <1>6, ShowKeepsInv
<1>7. ASSUME NEW list \in LedgerAnswers, AskLedger(list) PROVE SourcesInv'
  BY <1>7, AskLedgerKeepsInv
<1>8. CASE OpenPicker \/ ClosePicker
  BY <1>8, PickerKeepsInv
<1>9. ASSUME NEW picks \in SUBSET shown.boxes, Apply(picks) PROVE SourcesInv'
  BY <1>9, ApplyKeepsInv
<1>10. CASE OpenEditor \/ GiveDates
  BY <1>10, OpenEditorKeepsInv, EditorKeepsInv
<1>11. ASSUME NEW i \in DOMAIN draft, Remove(i) PROVE SourcesInv'
  BY <1>11, EditorKeepsInv
<1>12. ASSUME NEW m \in ManualRows, Enter(m) PROVE SourcesInv'
  BY <1>12, EditorKeepsInv
<1>13. CASE Save
  BY <1>13, SaveKeepsInv
<1>14. ASSUME NEW file \in Files, ImportCSV(file) PROVE SourcesInv'
  BY <1>14, ImportKeepsInv
<1>15. CASE UNCHANGED vars
  <2>1. UNCHANGED <<picker, shown, draft, saved, replaced>> /\ invoices' = invoices /\ reading' = reading
    BY <1>15 DEF vars
  <2>2. PreviewOnItsWay' /\ CutAtTheEnd'
    BY <2>1 DEF SourcesInv, PreviewOnItsWay, CutAtTheEnd, ToCome, Reported
  <2> QED BY <2>1, <2>2, ConsoleUntouched DEF SourcesInv, SourcesTypeOK, TypeOK
<1> QED BY <1>1, <1>2, <1>3, <1>4, <1>5, <1>6, <1>7, <1>8, <1>9, <1>10, <1>11, <1>12,
           <1>13, <1>14, <1>15 DEF Next

(* Whatever Odoo, Ledger, the user and his files do, the draft, the        *)
(* previews and the saved schedule keep the invariant of the imports.      *)
THEOREM SourcesCorrect == Spec => []SourcesInv
<1>1. SourcesInv /\ [Next]_vars => SourcesInv'
  BY NextKeepsSourcesInv
<1> QED BY <1>1, InitSourcesInv, PTL DEF Spec

(* Lists, previews, drafts and saved schedules keep their types.           *)
THEOREM SourcesTyped == Spec => []TypeOK
<1>1. SourcesInv => TypeOK
  BY DEF SourcesInv, SourcesTypeOK
<1> QED BY <1>1, SourcesCorrect, PTL

(* No source record is saved twice, whenever previews and files arrive and *)
(* the editor is opened; and none is offered again while the draft holds   *)
(* it, unless the editor was opened anew over the boxes that offer it.     *)
THEOREM SourcesImportOnce == Spec => []NoRecordTwice
<1>1. SourcesInv => NoRecordTwice
  BY DEF SourcesInv, Valid, OfferedOnce, NoRecordTwice
<1> QED BY <1>1, SourcesCorrect, PTL

(* A preview is complete or says that it was cut, for every page size and  *)
(* limit, while invoices are posted and paid.                              *)
THEOREM SourcesPreviewsComplete == Spec => []CutIsAnnounced
<1>1. SourcesInv => CutIsAnnounced
  BY DEF SourcesInv
<1> QED BY <1>1, SourcesCorrect, PTL

(* An export of the saved schedule is within the limits of the import.     *)
LEMMA ExportIsRead ==
  ASSUME SourcesInv
  PROVE  ExportReimports
<1> DEFINE file == Export(saved)
<1> SUFFICES ASSUME \A i \in DOMAIN saved : saved[i].amount < MaxAmount
             PROVE  /\ Readable(file)
                    /\ \A i \in DOMAIN saved :
                         /\ CSVMovements(file)[i].kind = saved[i].kind
                         /\ CSVMovements(file)[i].amount = saved[i].amount
                         /\ CSVMovements(file)[i].certainty = saved[i].certainty
  BY DEF ExportReimports
<1>1. /\ saved \in Seq(Movement) /\ Len(saved) \in Nat /\ DOMAIN saved = 1 .. Len(saved)
      /\ \A i \in 1 .. Len(saved) : saved[i] \in Movement
  BY LenProperties DEF SourcesInv, SourcesTypeOK, TypeOK
<1>2. /\ Len(saved) <= MaxMovements
      /\ \A i \in DOMAIN saved : 0 < saved[i].amount /\ ValidCertainty(saved[i])
  BY DEF SourcesInv, Valid, ValidIgnoringRefs
<1>3. ASSUME NEW i \in DOMAIN saved
      PROVE  /\ Decimal(saved[i].amount) \in Text /\ IsMoney(Decimal(saved[i].amount))
             /\ Money(Decimal(saved[i].amount)) = saved[i].amount /\ saved[i].amount > 0
             /\ saved[i].certainty # Blank /\ saved[i].kind \in AnyKind
             /\ saved[i].certainty \in AnyCertainty
  <2>1. saved[i].amount \in Int /\ saved[i].kind \in AnyKind /\ saved[i].certainty \in AnyCertainty
    BY <1>1 DEF Movement
  <2>2. saved[i].amount > 0 /\ Magnitude(saved[i].amount) < MaxAmount
    BY <1>2, <2>1 DEF Magnitude
  <2>3. saved[i].certainty \in Certainties
    BY <1>2 DEF ValidCertainty, Certainties
  <2> QED BY <2>1, <2>2, <2>3, DecimalIsRead, SourcesAssumption
<1>4. /\ DOMAIN file = 1 .. Len(saved)
      /\ \A i \in 1 .. Len(saved) : /\ file[i].kind = saved[i].kind
                                    /\ file[i].amount = Decimal(saved[i].amount)
                                    /\ file[i].certainty = saved[i].certainty
                                    /\ file[i] \in Line
  <2>1. \A i \in 1 .. Len(saved) :
          file[i] = [kind |-> saved[i].kind, amount |-> Decimal(saved[i].amount),
                     certainty |-> saved[i].certainty]
    BY <1>1 DEF Export
  <2> QED BY <1>1, <1>3, <2>1 DEF Export, Line
<1>5. file \in Seq(Line) /\ Len(file) = Len(saved)
  <2>1. file \in [1 .. Len(saved) -> Line]
    BY <1>1, <1>4 DEF Export
  <2>2. file \in Seq(Line)
    BY <1>1, <2>1
  <2> QED BY <1>1, <1>4, <2>2, LenProperties
<1> HIDE DEF file
<1>6. Readable(file)
  <2>1. ~TooManyLines(file)
    BY <1>1, <1>2, <1>5, SourcesAssumption DEF TooManyLines
  <2>2. ASSUME NEW i \in DOMAIN file
        PROVE  IsMoney(file[i].amount) /\ Money(file[i].amount) > 0
    <3>1. i \in DOMAIN saved /\ file[i].amount = Decimal(saved[i].amount)
      BY <1>1, <1>4
    <3> QED BY <1>3, <3>1
  <2> QED BY <2>1, <2>2 DEF Readable
<1>7. ASSUME NEW i \in DOMAIN saved
      PROVE  /\ CSVMovements(file)[i].kind = saved[i].kind
             /\ CSVMovements(file)[i].amount = saved[i].amount
             /\ CSVMovements(file)[i].certainty = saved[i].certainty
  <2>1. CSVMovements(file)[i] = LineMovement(file[i])
    BY <1>1, <1>4 DEF CSVMovements
  <2>2. /\ file[i].kind = saved[i].kind
        /\ file[i].amount = Decimal(saved[i].amount)
        /\ file[i].certainty = saved[i].certainty
    BY <1>1, <1>4
  <2>3. LineMovement(file[i]).kind = file[i].kind
    BY DEF LineMovement
  <2>4. LineMovement(file[i]).amount = saved[i].amount
    BY <1>3, <2>2 DEF LineMovement
  <2>5. LineMovement(file[i]).certainty = file[i].certainty
    BY <1>3, <2>2 DEF LineMovement
  <2> QED BY <2>1, <2>2, <2>3, <2>4, <2>5
<1> QED BY <1>6, <1>7

(* Whatever schedule was saved, csvPreview reads the CSV file csvExport    *)
(* writes of it and brings back its kinds, amounts and certainties.        *)
THEOREM SourcesExportsReturn == Spec => []ExportReimports
<1>1. SourcesInv => ExportReimports
  BY ExportIsRead
<1> QED BY <1>1, SourcesCorrect, PTL

-----------------------------------------------------------------------------
(***************************************************************************)
(* The overview of the financial systems.  The pass over the tools of the  *)
(* catalog is a recursive function, so it takes an induction over their    *)
(* positions.                                                              *)
(***************************************************************************)

LEMMA LeastNumber ==
  ASSUME NEW S \in SUBSET Nat, S # {}
  PROVE  \E n \in S : \A m \in S : n <= m
<1>1. PICK n \in S : \A m \in S : ~ (<<m, n>> \in OpToRel(<, Nat))
  BY NatLessThanWellFounded, WFMin
<1>2. \A m \in S : ~ (m < n)
  BY <1>1 DEF OpToRel
<1> QED BY <1>2

LEMMA CountUp ==
  ASSUME NEW n \in Nat, NEW T, 0 \in T,
         \A m \in 0 .. n - 1 : m \in T => m + 1 \in T
  PROVE  \A m \in 0 .. n : m \in T
<1> SUFFICES ASSUME NEW k \in 0 .. n, k \notin T PROVE FALSE
  OBVIOUS
<1>1. ASSUME NEW S, S = {m \in 0 .. n : m \notin T} PROVE FALSE
  <2>1. S \in SUBSET Nat /\ S # {}
    BY <1>1
  <2>2. PICK m \in S : \A l \in S : m <= l
    BY <2>1, LeastNumber
  <2>3. m \in 0 .. n /\ m \notin T /\ m # 0
    BY <1>1
  <2>4. m - 1 \in 0 .. n - 1 /\ m - 1 \in 0 .. n /\ ~ (m <= m - 1) /\ (m - 1) + 1 = m
    BY <2>3
  <2>5. m - 1 \in T
    BY <1>1, <2>2, <2>4
  <2> QED BY <2>3, <2>4, <2>5
<1> QED BY <1>1

(* The largest of some positions is one of them.                           *)
LEMMA LastIsOne ==
  ASSUME NEW n \in Nat, NEW S \in SUBSET (1 .. n), S # {}
  PROVE  Last(S) \in S
<1>1. ASSUME NEW B, B = {k \in Nat : \A m \in S : m <= k} PROVE \E k \in S : \A m \in S : m <= k
  <2>1. B \in SUBSET Nat /\ n \in B
    BY <1>1
  <2>2. PICK k \in B : \A l \in B : k <= l
    BY <2>1, LeastNumber
  <2>3. k \in Nat /\ \A m \in S : m <= k /\ m \in Nat /\ 1 <= m
    BY <1>1
  <2>4. CASE k \in S
    BY <2>3, <2>4
  <2>5. CASE k \notin S
    <3>1. \A m \in S : m <= k - 1
      BY <2>3, <2>5
    <3>2. k - 1 \in Nat
      <4>1. PICK m : m \in S
        OBVIOUS
      <4>2. m \in Nat /\ 1 <= m /\ m <= k
        BY <2>3, <4>1
      <4> QED BY <2>3, <4>2
    <3>3. k - 1 \in B
      BY <1>1, <3>1, <3>2, Zenon
    <3>4. ~ (k <= k - 1)
      BY <2>3
    <3> QED BY <2>2, <3>3, <3>4
  <2> QED BY <2>4, <2>5
<1>2. \E k \in S : \A m \in S : m <= k
  BY <1>1
<1> QED BY <1>2, Zenon DEF Last

IsKeys(keys) ==
  keys = [n \in 0 .. Len(tools) |->
            IF n = 0 THEN Aliases ELSE WithTool(keys[n - 1], tools[n])]

LEMMA KeysUnfold ==
  ASSUME Len(tools) \in Nat
  PROVE  IsKeys(KeysAfter)
<1> DEFINE L == Len(tools)
           At(w, m) == IF m = 0 THEN Aliases ELSE WithTool(w[m - 1], tools[m])
           UpTo(w, n) == w = [m \in 0 .. n |-> At(w, m)]
           T == {n \in 0 .. L : \E w : UpTo(w, n)}
<1>1. 0 \in T
  <2> DEFINE w == [m \in 0 .. 0 |-> Aliases]
  <2>1. UpTo(w, 0)
    OBVIOUS
  <2> HIDE DEF w
  <2> QED BY <2>1
<1>2. ASSUME NEW n \in 0 .. L - 1, n \in T PROVE n + 1 \in T
  <2>1. PICK w : UpTo(w, n)
    BY <1>2
  <2> DEFINE x == [m \in 0 .. n + 1 |-> At(w, m)]
  <2>2. ASSUME NEW m \in 0 .. n PROVE x[m] = w[m]
    BY <2>1
  <2>3. ASSUME NEW m \in 0 .. n + 1 PROVE x[m] = At(x, m)
    <3>1. CASE m = 0
      BY <3>1
    <3>2. CASE m # 0
      <4>1. m - 1 \in 0 .. n
        BY <3>2
      <4>2. x[m - 1] = w[m - 1]
        BY <2>2, <4>1
      <4>3. x[m] = At(w, m)
        OBVIOUS
      <4> QED BY <3>2, <4>2, <4>3
    <3> QED BY <3>1, <3>2
  <2>4. UpTo(x, n + 1)
    BY <2>3
  <2>5. n + 1 \in 0 .. L
    OBVIOUS
  <2> HIDE DEF x, UpTo
  <2> QED BY <2>4, <2>5
<1>3. L \in T
  <2> HIDE DEF T
  <2>1. \A m \in 0 .. L : m \in T
    BY <1>1, <1>2, CountUp
  <2> QED BY <2>1
<1>4. PICK w : UpTo(w, L)
  BY <1>3
<1>5. \E v : IsKeys(v)
  BY <1>4 DEF IsKeys
<1> QED BY <1>5 DEF KeysAfter, IsKeys


LEMMA AliasesAreBuiltIn ==
  /\ \A k \in BuiltIn : k \in DOMAIN Aliases /\ Aliases[k] = k
  /\ \A k \in DOMAIN Aliases : Aliases[k] \in BuiltIn
BY DEF Aliases, BuiltIn

(* A key that no tool declares as its connection type.                     *)
Untaken(k) == \A m \in DOMAIN tools : tools[m].connection # k

(* The map after some tools: it has the built-in names, a key no tool      *)
(* takes stands for what it always stood for, and every tool added so far  *)
(* is in it under its own key.                                             *)
KeepsMeaning(keys) ==
  /\ DOMAIN Aliases \subseteq DOMAIN keys
  /\ \A k \in DOMAIN keys : Untaken(k) =>
       keys[k] = IF k \in DOMAIN Aliases THEN Aliases[k] ELSE k

HasAdded(keys, n) ==
  \A m \in 1 .. n : Adds(KeysAfter[m - 1], tools[m]) =>
    tools[m].key \in DOMAIN keys /\ tools[m].key \notin DOMAIN Aliases

LEMMA WithToolKeepsMeaning ==
  ASSUME NEW g, KeepsMeaning(g), NEW m \in DOMAIN tools
  PROVE  /\ KeepsMeaning(WithTool(g, tools[m]))
         /\ DOMAIN g \subseteq DOMAIN WithTool(g, tools[m])
         /\ Adds(g, tools[m]) => /\ tools[m].key \in DOMAIN WithTool(g, tools[m])
                                 /\ tools[m].key \notin DOMAIN Aliases
<1> DEFINE t == tools[m]
           new == {t.key} \cup ({t.connection} \ {None})
           h == [k \in DOMAIN g \cup new |-> IF k \in new THEN t.key ELSE g[k]]
<1>1. CASE ~Adds(g, t)
  BY <1>1 DEF WithTool
<1>2. CASE Adds(g, t)
  <2>1. WithTool(g, t) = h
    BY <1>2, Zenon DEF WithTool
  <2>2. DOMAIN h = DOMAIN g \cup new /\ t.key \in new
    OBVIOUS
  <2>3. t.key \notin DOMAIN g /\ t.key \notin DOMAIN Aliases
    BY <1>2 DEF Adds, KeepsMeaning
  <2>4. ASSUME NEW k \in DOMAIN h, Untaken(k)
        PROVE  h[k] = IF k \in DOMAIN Aliases THEN Aliases[k] ELSE k
    <3>1. CASE k \in new
      <4>1. k = t.key
        BY <2>4, <3>1 DEF Untaken
      <4> QED BY <2>3, <4>1
    <3>2. CASE k \notin new
      <4>1. k \in DOMAIN g /\ h[k] = g[k]
        BY <2>2, <3>2
      <4> QED BY <2>4, <4>1 DEF KeepsMeaning
    <3> QED BY <3>1, <3>2
  <2> HIDE DEF h
  <2>5. KeepsMeaning(h)
    BY <2>2, <2>4 DEF KeepsMeaning
  <2> QED BY <2>1, <2>2, <2>3, <2>5
<1> QED BY <1>1, <1>2

LEMMA KeysKeepMeaning ==
  ASSUME Len(tools) \in Nat, DOMAIN tools = 1 .. Len(tools)
  PROVE  /\ KeepsMeaning(KeysAfter[Len(tools)])
         /\ HasAdded(KeysAfter[Len(tools)], Len(tools))
<1> DEFINE L == Len(tools)
           K == KeysAfter
           T == {n \in 0 .. L : KeepsMeaning(K[n]) /\ HasAdded(K[n], n)}
<1>1. K[0] = Aliases /\ \A n \in 1 .. L : K[n] = WithTool(K[n - 1], tools[n])
  BY KeysUnfold DEF IsKeys
<1>2. 0 \in T
  BY <1>1 DEF KeepsMeaning, HasAdded
<1>3. ASSUME NEW n \in 0 .. L - 1, n \in T PROVE n + 1 \in T
  <2>1. n + 1 \in 1 .. L /\ n + 1 \in 0 .. L /\ (n + 1) - 1 = n /\ n + 1 \in DOMAIN tools
    OBVIOUS
  <2>2. K[n + 1] = WithTool(K[n], tools[n + 1])
    BY <1>1, <2>1
  <2>3. KeepsMeaning(K[n]) /\ HasAdded(K[n], n)
    BY <1>3
  <2> HIDE DEF K, L, T
  <2>4. /\ KeepsMeaning(K[n + 1]) /\ DOMAIN K[n] \subseteq DOMAIN K[n + 1]
        /\ Adds(K[n], tools[n + 1]) => /\ tools[n + 1].key \in DOMAIN K[n + 1]
                                       /\ tools[n + 1].key \notin DOMAIN Aliases
    BY <2>1, <2>2, <2>3, WithToolKeepsMeaning
  <2>5. ASSUME NEW m \in 1 .. n + 1, Adds(K[m - 1], tools[m])
        PROVE  tools[m].key \in DOMAIN K[n + 1] /\ tools[m].key \notin DOMAIN Aliases
    <3>1. CASE m = n + 1
      BY <2>1, <2>4, <2>5, <3>1
    <3>2. CASE m # n + 1
      <4>1. m \in 1 .. n
        BY <1>3, <3>2
      <4> QED BY <2>3, <2>4, <2>5, <4>1 DEF HasAdded, K
    <3> QED BY <3>1, <3>2
  <2>6. HasAdded(K[n + 1], n + 1)
    BY <2>5 DEF HasAdded, K
  <2> QED BY <2>1, <2>4, <2>6 DEF T
<1>4. \A n \in 0 .. L : n \in T
  <2> HIDE DEF T
  <2> QED BY <1>2, <1>3, CountUp
<1> QED BY <1>4


-----------------------------------------------------------------------------

Said == [catalog : CatalogAnswers, integrations : IntegrationAnswers,
         ledger : SourceAnswers, odoo : SourceAnswers, okioki : HealthAnswers]

(* What the goroutines have written is what the services answered.         *)
ReadsKeepAnswers ==
  /\ said \in Said
  /\ catalogOK = OwnCatalog /\ tools = said.catalog.list
  /\ integrationsOK = Complete(said.integrations)
  /\ integrations = said.integrations.list
  /\ DOMAIN configuration = BuiltIn
  /\ configuration["ledger"] = SourceConfiguration(said.ledger)
  /\ configuration["odoo"] = SourceConfiguration(said.odoo)
  /\ configuration["okioki"] = HealthConfiguration(said.okioki)
  /\ \A p \in BuiltIn \ Reads : configuration[p] = "Unavailable"

Overview ==
  [done      |-> TRUE,
   providers |-> [p \in Providers |-> [availability  |-> Availability(p),
                                       configuration |-> Configuration(p)]],
   systems   |-> [role \in Roles |-> System(role)]]

(* The answer is made after the last goroutine, of what they wrote.        *)
AnswerIsOfReads ==
  answer # NotAnswered => (\A g \in Reads : run[g] = "done") /\ answer = Overview

OverviewInv == ReadsKeepAnswers /\ AnswerIsOfReads

LEMMA InitOverviewInv == OverviewInit => OverviewInv
<1> SUFFICES ASSUME OverviewInit PROVE OverviewInv
  OBVIOUS
<1> DEFINE first == [catalog |-> Silent, integrations |-> Silent, ledger |-> "failed",
                     odoo |-> "failed", okioki |-> "silent"]
<1>1. said = first
  BY DEF OverviewInit
<1>2. first \in Said
  BY FinancialAssumption DEF Said, SourceAnswers, HealthAnswers
<1>3. Silent.status = 0 /\ Silent.list = <<>>
  BY DEF Silent
<1>4. ~OwnCatalog /\ ~Complete(said.integrations)
  BY <1>1, <1>3 DEF OwnCatalog, Complete
<1>5. tools = said.catalog.list /\ integrations = said.integrations.list
  BY <1>1, <1>3 DEF OverviewInit
<1>6. /\ SourceConfiguration(said.ledger) = "Unavailable"
      /\ SourceConfiguration(said.odoo) = "Unavailable"
      /\ HealthConfiguration(said.okioki) = "Unavailable"
  BY <1>1 DEF SourceConfiguration, HealthConfiguration
<1>7. \A p \in BuiltIn : configuration[p] = "Unavailable"
  BY DEF OverviewInit
<1>8. DOMAIN configuration = BuiltIn /\ {"ledger", "odoo", "okioki"} \subseteq BuiltIn
  BY DEF OverviewInit, BuiltIn
<1>9. catalogOK = FALSE /\ integrationsOK = FALSE /\ answer = NotAnswered
  BY DEF OverviewInit
<1>10. catalogOK = OwnCatalog /\ integrationsOK = Complete(said.integrations)
  BY <1>4, <1>9 DEF OwnCatalog, Complete
<1>11. ReadsKeepAnswers
  <2>1. \A p \in {"ledger", "odoo", "okioki"} : configuration[p] = "Unavailable"
    BY <1>7, <1>8
  <2> QED BY <1>1, <1>2, <1>5, <1>6, <1>7, <1>8, <1>10, <2>1 DEF ReadsKeepAnswers
<1> QED BY <1>9, <1>11 DEF OverviewInv, AnswerIsOfReads

LEMMA StepKeepsOverviewInv ==
  ASSUME OverviewInv, [OverviewNext]_overviewVars
  PROVE  OverviewInv'
<1> USE DEF OverviewInv
<1>1. CASE Expire
  <2>1. /\ UNCHANGED <<run, catalogOK, tools, integrationsOK, integrations, configuration,
                       said, answer>>
        /\ answer = NotAnswered
    BY <1>1 DEF Expire
  <2> QED BY <2>1 DEF ReadsKeepAnswers, OwnCatalog, AnswerIsOfReads
<1>2. CASE Respond
  <2>1. UNCHANGED <<run, expired, catalogOK, tools, integrationsOK, integrations,
                    configuration, said>>
    BY <1>2, Zenon DEF Respond
  <2>2. (\A g \in Reads : run[g] = "done") /\ answer' = Overview
    BY <1>2, Zenon DEF Respond, Overview
  <2>3. Overview' = Overview
    BY <2>1 DEF Overview, Providers, Availability, Configuration, System, Sound, Binding, Shown,
            Designations, Denoted, Keys, KeysAfter
  <2>4. ReadsKeepAnswers'
    BY <2>1 DEF ReadsKeepAnswers, OwnCatalog
  <2> QED BY <2>1, <2>2, <2>3, <2>4 DEF AnswerIsOfReads
<1>3. ASSUME NEW g \in Reads, ReadEnds(g) PROVE OverviewInv'
  <2>1. run[g] = "reading" /\ UNCHANGED answer
    BY <1>3, Zenon DEF ReadEnds, ReadCatalog, ReadIntegrations, ReadSource, ReadHealth, StillReading
  <2>2. answer = NotAnswered
    BY <2>1 DEF AnswerIsOfReads
  <2>3. CASE g = "catalog"
    <3>1. PICK a \in CatalogAnswers : ReadCatalog(a)
      BY <1>3, <2>3, Zenon DEF ReadEnds
    <3>2. /\ catalogOK' = (a.status = 200 /\ a.org = Org /\ a.valid) /\ tools' = a.list
          /\ said' = [said EXCEPT !["catalog"] = a]
          /\ UNCHANGED <<integrationsOK, integrations, configuration>>
      BY <3>1, Zenon DEF ReadCatalog, Heard
    <3>3. /\ said' \in Said /\ said'.catalog = a
          /\ said'.integrations = said.integrations /\ said'.ledger = said.ledger
          /\ said'.odoo = said.odoo /\ said'.okioki = said.okioki
      BY <3>2 DEF ReadsKeepAnswers, Said
    <3> QED BY <2>1, <2>2, <3>2, <3>3 DEF ReadsKeepAnswers, OwnCatalog, AnswerIsOfReads
  <2>4. CASE g = "integrations"
    <3>1. PICK a \in IntegrationAnswers : ReadIntegrations(a)
      BY <1>3, <2>4, Zenon DEF ReadEnds
    <3>2. /\ integrationsOK' = Complete(a) /\ integrations' = a.list
          /\ said' = [said EXCEPT !["integrations"] = a]
          /\ UNCHANGED <<catalogOK, tools, configuration>>
      BY <3>1, Zenon DEF ReadIntegrations, Heard
    <3>3. /\ said' \in Said /\ said'.integrations = a
          /\ said'.catalog = said.catalog /\ said'.ledger = said.ledger
          /\ said'.odoo = said.odoo /\ said'.okioki = said.okioki
      BY <3>2 DEF ReadsKeepAnswers, Said
    <3> QED BY <2>1, <2>2, <3>2, <3>3 DEF ReadsKeepAnswers, OwnCatalog, AnswerIsOfReads
  <2>5. CASE g \in {"ledger", "odoo"}
    <3>1. PICK a \in SourceAnswers : ReadSource(g, a)
      BY <1>3, <2>5, Zenon DEF ReadEnds
    <3>2. /\ configuration' = [configuration EXCEPT ![g] = SourceConfiguration(a)]
          /\ said' = [said EXCEPT ![g] = a]
          /\ UNCHANGED <<catalogOK, tools, integrationsOK, integrations>>
      BY <3>1, Zenon DEF ReadSource, Heard
    <3>3. /\ said' \in Said /\ said'.catalog = said.catalog
          /\ said'.integrations = said.integrations /\ said'.okioki = said.okioki
          /\ said'.ledger = IF g = "ledger" THEN a ELSE said.ledger
          /\ said'.odoo = IF g = "odoo" THEN a ELSE said.odoo
      BY <2>5, <3>2 DEF ReadsKeepAnswers, Said
    <3>4. /\ DOMAIN configuration' = BuiltIn
          /\ \A p \in BuiltIn :
               configuration'[p] = IF p = g THEN SourceConfiguration(a) ELSE configuration[p]
      BY <3>2 DEF ReadsKeepAnswers
    <3>5. {"ledger", "odoo", "okioki"} \subseteq BuiltIn /\ {"ledger", "odoo"} \subseteq Reads
      BY DEF BuiltIn, Reads
    <3>6. /\ configuration'["ledger"] = SourceConfiguration(said'.ledger)
          /\ configuration'["odoo"] = SourceConfiguration(said'.odoo)
          /\ configuration'["okioki"] = HealthConfiguration(said'.okioki)
          /\ \A p \in BuiltIn \ Reads : configuration'[p] = "Unavailable"
      BY <2>5, <3>3, <3>4, <3>5 DEF ReadsKeepAnswers
    <3> QED BY <2>1, <2>2, <3>2, <3>3, <3>4, <3>6 DEF ReadsKeepAnswers, OwnCatalog, AnswerIsOfReads
  <2>6. CASE g = "okioki"
    <3>1. PICK a \in HealthAnswers : ReadHealth(a)
      BY <1>3, <2>6, Zenon DEF ReadEnds
    <3>2. /\ configuration' = [configuration EXCEPT !["okioki"] = HealthConfiguration(a)]
          /\ said' = [said EXCEPT !["okioki"] = a]
          /\ UNCHANGED <<catalogOK, tools, integrationsOK, integrations>>
      BY <3>1, Zenon DEF ReadHealth, Heard
    <3>3. /\ said' \in Said /\ said'.catalog = said.catalog
          /\ said'.integrations = said.integrations /\ said'.okioki = a
          /\ said'.ledger = said.ledger /\ said'.odoo = said.odoo
      BY <3>2 DEF ReadsKeepAnswers, Said
    <3>4. /\ DOMAIN configuration' = BuiltIn
          /\ \A p \in BuiltIn :
               configuration'[p] = IF p = "okioki" THEN HealthConfiguration(a) ELSE configuration[p]
      BY <3>2 DEF ReadsKeepAnswers
    <3>5. {"ledger", "odoo", "okioki"} \subseteq BuiltIn /\ "okioki" \in Reads
      BY DEF BuiltIn, Reads
    <3>6. /\ configuration'["ledger"] = SourceConfiguration(said'.ledger)
          /\ configuration'["odoo"] = SourceConfiguration(said'.odoo)
          /\ configuration'["okioki"] = HealthConfiguration(said'.okioki)
          /\ \A p \in BuiltIn \ Reads : configuration'[p] = "Unavailable"
      BY <3>3, <3>4, <3>5 DEF ReadsKeepAnswers
    <3> QED BY <2>1, <2>2, <3>2, <3>3, <3>4, <3>6 DEF ReadsKeepAnswers, OwnCatalog, AnswerIsOfReads
  <2> QED BY <2>3, <2>4, <2>5, <2>6 DEF Reads
<1>4. CASE UNCHANGED overviewVars
  <2>1. UNCHANGED <<run, expired, catalogOK, tools, integrationsOK, integrations,
                    configuration, said, answer>>
    BY <1>4 DEF overviewVars
  <2>2. Overview' = Overview
    BY <2>1 DEF Overview, Providers, Availability, Configuration, System, Sound, Binding, Shown,
            Designations, Denoted, Keys, KeysAfter
  <2>3. ReadsKeepAnswers'
    BY <2>1 DEF ReadsKeepAnswers, OwnCatalog
  <2> QED BY <2>1, <2>2, <2>3 DEF AnswerIsOfReads
<1> QED BY <1>1, <1>2, <1>3, <1>4 DEF OverviewNext


LEMMA OverviewInvariant == OverviewSpec => []OverviewInv
BY InitOverviewInv, StepKeepsOverviewInv, PTL DEF OverviewSpec

-----------------------------------------------------------------------------

LEMMA CatalogPositions ==
  ASSUME ReadsKeepAnswers
  PROVE  Len(tools) \in Nat /\ DOMAIN tools = 1 .. Len(tools)
<1>1. tools \in Seq(Tool)
  BY FinancialAssumption DEF ReadsKeepAnswers, Said
<1> QED BY <1>1

(* A key that no tool takes keeps its meaning in the map of the pass.      *)
LEMMA KeyKeepsMeaning ==
  ASSUME ReadsKeepAnswers
  PROVE  /\ DOMAIN Aliases \subseteq DOMAIN Keys
         /\ \A k \in DOMAIN Keys : Takers(k) = {} =>
              Keys[k] = IF k \in DOMAIN Aliases THEN Aliases[k] ELSE k
<1>1. CASE ~catalogOK
  BY <1>1 DEF Keys
<1>2. CASE catalogOK
  <2>1. KeepsMeaning(KeysAfter[Len(tools)])
    BY CatalogPositions, KeysKeepMeaning
  <2>2. Keys = KeysAfter[Len(tools)]
    BY <1>2 DEF Keys
  <2>3. \A k : Takers(k) = {} => Untaken(k)
    BY DEF ReadsKeepAnswers, Takers, Untaken
  <2> QED BY <2>1, <2>2, <2>3 DEF KeepsMeaning
<1> QED BY <1>1, <1>2

LEMMA ProviderDenotesItself ==
  ASSUME ReadsKeepAnswers, NEW p \in Providers, Takers(p) = {}
  PROVE  Denoted(p) = p
<1>1. CASE p \in BuiltIn
  <2>1. p \in DOMAIN Aliases /\ Aliases[p] = p
    BY <1>1, AliasesAreBuiltIn
  <2>2. p \in DOMAIN Keys /\ Keys[p] = p
    BY <2>1, KeyKeepsMeaning
  <2> QED BY <2>2 DEF Denoted
<1>2. CASE p \notin BuiltIn
  <2>1. catalogOK
    BY <1>2 DEF Providers
  <2>2. PICK m \in DOMAIN tools : Adds(KeysAfter[m - 1], tools[m]) /\ p = tools[m].key
    BY <1>2, <2>1 DEF Providers
  <2>3. HasAdded(KeysAfter[Len(tools)], Len(tools)) /\ DOMAIN tools = 1 .. Len(tools)
    BY CatalogPositions, KeysKeepMeaning
  <2>4. p \in DOMAIN KeysAfter[Len(tools)] /\ p \notin DOMAIN Aliases
    BY <2>2, <2>3 DEF HasAdded
  <2>5. p \in DOMAIN Keys
    BY <2>1, <2>4 DEF Keys
  <2>6. Keys[p] = p
    BY <2>4, <2>5, KeyKeepsMeaning
  <2> QED BY <2>5, <2>6 DEF Denoted
<1> QED BY <1>1, <1>2

LEMMA AvailabilityFollows ==
  ASSUME ReadsKeepAnswers, NEW p \in Providers
  PROVE  /\ ~OwnCatalog => Availability(p) = "Unavailable"
         /\ Availability(p) = "Unavailable" => ~OwnCatalog \/ CatalogSays("Unavailable")
         /\ Availability(p) = "Not listed" /\ Takers(p) = {} =>
              \/ \A n \in DOMAIN said.catalog.list : said.catalog.list[n].key # p
              \/ CatalogSays("Not listed")
<1> DEFINE listed == {n \in DOMAIN tools : Denoted(tools[n].key) = p}
<1>1. catalogOK = OwnCatalog /\ tools = said.catalog.list
  BY DEF ReadsKeepAnswers
<1>2. CASE ~catalogOK
  <2>1. Availability(p) = "Unavailable"
    BY <1>2 DEF Availability
  <2> QED BY <1>1, <1>2, <2>1
<1>3. CASE catalogOK /\ listed = {}
  <2>1. Availability(p) = "Not listed"
    BY <1>3 DEF Availability
  <2>2. ASSUME Takers(p) = {}, NEW n \in DOMAIN tools PROVE tools[n].key # p
    BY <1>3, <2>2, ProviderDenotesItself
  <2> QED BY <1>1, <1>3, <2>1, <2>2
<1>4. CASE catalogOK /\ listed # {}
  <2>1. Availability(p) = tools[Last(listed)].status
    BY <1>4 DEF Availability
  <2>2. Len(tools) \in Nat /\ listed \in SUBSET (1 .. Len(tools))
    BY CatalogPositions
  <2>3. Last(listed) \in listed
    BY <1>4, <2>2, LastIsOne
  <2>4. CatalogSays(Availability(p))
    BY <1>1, <2>1, <2>3 DEF CatalogSays
  <2> QED BY <1>1, <1>4, <2>4
<1> QED BY <1>2, <1>3, <1>4

LEMMA ConfigurationFollows ==
  ASSUME ReadsKeepAnswers, NEW p \in Providers
  PROVE  /\ p \in {"ledger", "odoo"} => Configuration(p) = SourceConfiguration(said[p])
         /\ p = "okioki" => Configuration(p) = HealthConfiguration(said.okioki)
         /\ p \notin {"ledger", "odoo", "okioki"} =>
              /\ said.integrations.status # 200 => Configuration(p) = "Unavailable"
              /\ Configuration(p) = "Not set" /\ Takers(p) = {} =>
                   \A n \in DOMAIN said.integrations.list : said.integrations.list[n].type # p
<1> DEFINE own == IF p \in BuiltIn THEN configuration[p] ELSE "Unavailable"
           connections == {n \in DOMAIN integrations : Denoted(integrations[n].type) = p}
<1>1. {"ledger", "odoo", "okioki"} \subseteq BuiltIn
  BY DEF BuiltIn
<1>2. CASE p \in {"ledger", "odoo", "okioki"}
  <2>1. Configuration(p) = configuration[p]
    BY <1>1, <1>2 DEF Configuration
  <2> QED BY <1>2, <2>1 DEF ReadsKeepAnswers
<1>3. CASE p \notin {"ledger", "odoo", "okioki"}
  <2>1. own = "Unavailable"
    BY <1>3 DEF ReadsKeepAnswers, Reads, BuiltIn
  <2>2. integrationsOK = (said.integrations.status = 200) /\ integrations = said.integrations.list
    BY DEF ReadsKeepAnswers, Complete
  <2>3. CASE ~integrationsOK
    <3>1. Configuration(p) = "Unavailable"
      BY <2>1, <2>3 DEF Configuration
    <3> QED BY <1>3, <3>1
  <2>4. CASE integrationsOK /\ connections = {}
    <3>1. ASSUME Takers(p) = {}, NEW n \in DOMAIN integrations PROVE integrations[n].type # p
      BY <2>4, <3>1, ProviderDenotesItself
    <3> QED BY <1>3, <2>2, <2>4, <3>1
  <2>5. CASE integrationsOK /\ connections # {}
    <3>1. Configuration(p) = RecordedConnection(integrations[Last(connections)].grant)
      BY <1>3, <2>1, <2>5 DEF Configuration
    <3>2. \A grant : RecordedConnection(grant) # "Not set"
      BY DEF RecordedConnection
    <3> QED BY <1>3, <2>2, <2>5, <3>1, <3>2
  <2> QED BY <2>3, <2>4, <2>5
<1> QED BY <1>2, <1>3

(* The answer says of every provider what its services said, and shows no  *)
(* outage as an absence, whatever they answered and in whatever order      *)
(* (financial_systems.go: Server.financialSystems).                        *)
THEOREM OverviewStatusFollows == OverviewSpec => []StatusFollowsSources
<1>1. ASSUME OverviewInv PROVE StatusFollowsSources
  <2>1. SUFFICES ASSUME answer.done PROVE StatusFollowsSources
    BY DEF StatusFollowsSources
  <2>2. answer = Overview /\ ReadsKeepAnswers
    BY <1>1, <2>1 DEF OverviewInv, AnswerIsOfReads, NotAnswered
  <2>3. /\ DOMAIN answer.providers = Providers
        /\ \A p \in Providers : /\ answer.providers[p].availability = Availability(p)
                                /\ answer.providers[p].configuration = Configuration(p)
    BY <2>2 DEF Overview
  <2>4. ASSUME NEW p \in Providers, NEW entry, entry = answer.providers[p]
        PROVE  /\ ~OwnCatalog => entry.availability = "Unavailable"
               /\ entry.availability = "Unavailable" => ~OwnCatalog \/ CatalogSays("Unavailable")
               /\ entry.availability = "Not listed" /\ Takers(p) = {} =>
                    \/ \A n \in DOMAIN said.catalog.list : said.catalog.list[n].key # p
                    \/ CatalogSays("Not listed")
               /\ p \in {"ledger", "odoo"} => entry.configuration = SourceConfiguration(said[p])
               /\ p = "okioki" => entry.configuration = HealthConfiguration(said.okioki)
               /\ p \notin {"ledger", "odoo", "okioki"} =>
                    /\ said.integrations.status # 200 => entry.configuration = "Unavailable"
                    /\ entry.configuration = "Not set" /\ Takers(p) = {} =>
                         \A n \in DOMAIN said.integrations.list :
                           said.integrations.list[n].type # p
    <3>1. entry.availability = Availability(p) /\ entry.configuration = Configuration(p)
      BY <2>3, <2>4
    <3> QED BY <2>2, <3>1, AvailabilityFollows, ConfigurationFollows, Zenon
  <2> QED BY <2>3, <2>4, Zenon DEF StatusFollowsSources
<1> QED BY <1>1, OverviewInvariant, PTL


Records ==
  {n \in DOMAIN said.integrations.list :
     said.integrations.list[n].type = "financial_systems"}

Named(role) == {said.integrations.list[n].binding[role] : n \in Records} \ {None}

Known ==
  /\ said.integrations.status = 200
  /\ Cardinality(Records) <= 1
  /\ \A n \in Records : LET r == said.integrations.list[n]
                        IN r.sound /\ r.org = Org

LEMMA SystemFollows ==
  ASSUME ReadsKeepAnswers, NEW role \in Roles
  PROVE  /\ System(role).status = "Unavailable" <=> ~Known
         /\ Known => Named(role) = {System(role).provider} \ {None}
         /\ System(role).status = "Set" <=> Known /\ Named(role) # {}
         /\ System(role).status = "Set" /\ Takers(System(role).provider) = {} =>
              System(role).name = IF System(role).provider \in DOMAIN Aliases
                                  THEN Aliases[System(role).provider]
                                  ELSE System(role).provider
<1>1. integrations = said.integrations.list
  BY DEF ReadsKeepAnswers
<1>2. integrationsOK <=> said.integrations.status = 200
  BY DEF ReadsKeepAnswers, Complete
<1>3. Designations = Records
  BY <1>1 DEF Designations, Records
<1>4. Sound <=> Known
  BY <1>1, <1>2, <1>3, Zenon DEF Sound, Known
<1>5. Len(integrations) \in Nat /\ Records \subseteq 1 .. Len(integrations)
  <2>1. integrations \in Seq(Integration)
    BY FinancialAssumption DEF ReadsKeepAnswers, Said
  <2> QED BY <1>1, <2>1 DEF Records
<1>6. CASE ~Known
  <2>1. System(role) = [status |-> "Unavailable", provider |-> None, name |-> None, configuration |-> None]
    BY <1>4, <1>6 DEF System
  <2> QED BY <1>6, <2>1
<1>7. CASE Known
  <2>1. Named(role) = {Binding(role)} \ {None}
    <3>1. CASE Records = {}
      BY <1>3, <3>1 DEF Binding, Named
    <3>2. CASE Records # {}
      <4>1. IsFiniteSet(Records)
        <5>1. IsFiniteSet(1 .. Len(integrations))
          BY <1>5, FS_Interval
        <5> QED BY <1>5, <5>1, FS_Subset
      <4>2. Cardinality(Records) = 1
        BY <1>7, <3>2, <4>1, FS_CardinalityType, FS_EmptySet DEF Known
      <4>3. PICK n : Records = {n}
        BY <4>1, <4>2, FS_Singleton
      <4>4. n \in Nat
        BY <1>5, <4>3
      <4>5. Last(Records) = n
        BY <4>3, <4>4 DEF Last
      <4>6. Binding(role) = integrations[n].binding[role]
        BY <1>3, <3>2, <4>5 DEF Binding
      <4> QED BY <1>1, <4>3, <4>6 DEF Named
    <3> QED BY <3>1, <3>2
  <2>2. CASE Binding(role) = None
    <3>1. System(role) = [status |-> "Not set", provider |-> None, name |-> None, configuration |-> None]
      BY <1>4, <1>7, <2>2 DEF System
    <3>2. ASSUME NEW s, s = [status |-> "Not set", provider |-> None, name |-> None, configuration |-> None]
          PROVE  s.status = "Not set" /\ s.provider = None
      BY <3>2
    <3>3. System(role).status = "Not set" /\ System(role).provider = None
      BY <3>1, <3>2, Zenon
    <3> QED BY <1>7, <2>1, <2>2, <3>3
  <2>3. ASSUME NEW key, key # None, Takers(key) = {}
        PROVE  Shown(key) = IF key \in DOMAIN Aliases THEN Aliases[key] ELSE key
    <3>1. CASE key \in DOMAIN Keys
      <4>1. Keys[key] = IF key \in DOMAIN Aliases THEN Aliases[key] ELSE key
        BY <2>3, <3>1, KeyKeepsMeaning
      <4>2. Keys[key] # None
        BY <2>3, <4>1, AliasesAreBuiltIn, FinancialAssumption
      <4> QED BY <3>1, <4>1, <4>2 DEF Shown, Denoted
    <3>2. CASE key \notin DOMAIN Keys
      BY <3>2, KeyKeepsMeaning DEF Shown, Denoted
    <3> QED BY <3>1, <3>2
  <2>4. CASE Binding(role) # None
    <3>1. PICK connection : System(role) = [status |-> "Set", provider |-> Binding(role),
                                         name |-> Shown(Binding(role)), configuration |-> connection]
      BY <1>4, <1>7, <2>4 DEF System
    <3>2. /\ System(role).status = "Set" /\ System(role).provider = Binding(role)
          /\ System(role).name = Shown(Binding(role))
      BY <3>1
    <3> QED BY <1>7, <2>1, <2>3, <2>4, <3>2
  <2> QED BY <2>2, <2>4
<1> QED BY <1>6, <1>7

(* A system of record is the one the organization's only sound record      *)
(* names, whatever tools are installed and whatever the other services say *)
(* (financial_systems.go: readFinancialBindings).                          *)
THEOREM OverviewDesignationRecorded == OverviewSpec => []DesignationIsRecorded
<1>1. ASSUME OverviewInv PROVE DesignationIsRecorded
  <2>1. SUFFICES ASSUME answer.done PROVE DesignationIsRecorded
    BY DEF DesignationIsRecorded
  <2>2. answer = Overview /\ ReadsKeepAnswers
    BY <1>1, <2>1 DEF OverviewInv, AnswerIsOfReads, NotAnswered
  <2>3. \A role \in Roles : answer.systems[role] = System(role)
    BY <2>2 DEF Overview
  <2>4. ASSUME NEW role \in Roles, NEW system, system = System(role)
        PROVE  /\ system.status = "Unavailable" <=> ~Known
               /\ Known => Named(role) = {system.provider} \ {None}
               /\ system.status = "Set" <=> Known /\ Named(role) # {}
               /\ system.status = "Set" /\ Takers(system.provider) = {} =>
                    system.name = IF system.provider \in DOMAIN Aliases
                                  THEN Aliases[system.provider] ELSE system.provider
    BY <2>2, <2>4, SystemFollows, Zenon
  <2> QED BY <2>3, <2>4, Zenon DEF DesignationIsRecorded, Known, Named, Records
<1> QED BY <1>1, OverviewInvariant, PTL

LEMMA StepKeepsOverviewTypes ==
  ASSUME OverviewTypeOK, [OverviewNext]_overviewVars
  PROVE  OverviewTypeOK'
<1> USE DEF OverviewTypeOK
<1>1. CASE Expire \/ Respond \/ UNCHANGED overviewVars
  <2>1. /\ UNCHANGED <<run, catalogOK, tools, integrationsOK, integrations, configuration>>
        /\ expired' \in BOOLEAN
    BY <1>1, Zenon DEF Expire, Respond, overviewVars
  <2> QED BY <2>1
<1>2. ASSUME NEW g \in Reads, ReadEnds(g) PROVE OverviewTypeOK'
  <2>1. run' \in [Reads -> {"reading", "done"}] /\ UNCHANGED expired
    <3>1. run' = [run EXCEPT ![g] = "done"] /\ UNCHANGED expired
      BY <1>2, Zenon DEF ReadEnds, ReadCatalog, ReadIntegrations, ReadSource, ReadHealth, Done
    <3> QED BY <3>1
  <2>2. CASE g = "catalog"
    <3>1. PICK a \in CatalogAnswers : ReadCatalog(a)
      BY <1>2, <2>2, Zenon DEF ReadEnds
    <3>2. catalogOK' \in BOOLEAN /\ tools' = a.list
      BY <3>1, Zenon DEF ReadCatalog
    <3>3. UNCHANGED <<integrationsOK, integrations, configuration>>
      BY <3>1, Zenon DEF ReadCatalog
    <3> QED BY <2>1, <3>2, <3>3
  <2>3. CASE g = "integrations"
    <3>1. PICK a \in IntegrationAnswers : ReadIntegrations(a)
      BY <1>2, <2>3, Zenon DEF ReadEnds
    <3>2. integrationsOK' \in BOOLEAN /\ integrations' = a.list
      BY <3>1 DEF ReadIntegrations, Complete
    <3>3. UNCHANGED <<catalogOK, tools, configuration>>
      BY <3>1, Zenon DEF ReadIntegrations
    <3> QED BY <2>1, <3>2, <3>3
  <2>4. CASE g \in {"ledger", "odoo", "okioki"}
    <3>1. UNCHANGED <<catalogOK, tools, integrationsOK, integrations>>
      BY <1>2, <2>4, Zenon DEF ReadEnds, ReadSource, ReadHealth, ReadCatalog, ReadIntegrations
    <3>2. \A a : SourceConfiguration(a) \in Configurations /\ HealthConfiguration(a) \in Configurations
      BY DEF SourceConfiguration, HealthConfiguration, Configurations
    <3>3. PICK word \in Configurations : configuration' = [configuration EXCEPT ![g] = word]
      BY <1>2, <2>4, <3>2, Zenon DEF ReadEnds, ReadSource, ReadHealth
    <3> QED BY <2>1, <3>1, <3>3
  <2> QED BY <2>2, <2>3, <2>4 DEF Reads
<1> QED BY <1>1, <1>2 DEF OverviewNext

(* What the goroutines write keeps its type: every status shown for a      *)
(* built-in system is one of the words of the overview.                    *)
THEOREM OverviewTyped == OverviewSpec => []OverviewTypeOK
<1>1. ASSUME OverviewInit PROVE OverviewTypeOK
  <2>1. Silent \in CatalogAnswers /\ Silent \in IntegrationAnswers /\ Silent.list = <<>>
    BY FinancialAssumption DEF Silent
  <2> QED BY <1>1, <2>1 DEF OverviewInit, OverviewTypeOK, Configurations
<1> QED BY <1>1, StepKeepsOverviewTypes, PTL DEF OverviewSpec
=============================================================================

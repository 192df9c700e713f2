--------------------------- MODULE InvoiceTotals ---------------------------
(***************************************************************************)
(* The amounts of one invoice on their way from GHL to the documents: the  *)
(* mapper of packages/ghl, the schema of packages/core it has to satisfy,  *)
(* computeInvoiceTotals, and the sums buildCiiXml writes into the XML.     *)
(*                                                                         *)
(* Amounts and prices are integers counting tenths of a cent, quantities   *)
(* tenths of a unit, tax rates thousandths.  Exact sums of products count  *)
(* 1/10000 of that.  The code computes in doubles; their error shows only  *)
(* where a value lies halfway between two cents, and there the rounding    *)
(* is left open.  All amounts are finite.  Of the other fields the model   *)
(* has the ones whose fallback the schema may not accept: the countries of *)
(* the parties, and the dates.                                             *)
(***************************************************************************)
EXTENDS Integers, Sequences, FiniteSets, Functions

CONSTANTS
    RawLines,      \* the lines an invoice of GHL may have; None is a null
    MaxLines,      \* how many of them
    Discounts,     \* values of discountTotal
    Offsets,       \* by how much a reported total is off the sum of the lines
    Headers,       \* countries and dates of an invoice
    None           \* a field that is missing or is not a number

(***************************************************************************)
(* A country is the text GHL gives, trimmed and in upper case: two letters *)
(* A to Z, two characters that are not, or "other" for none and for a text *)
(* of another length.  Of a date the number of digits of its year matters. *)
(***************************************************************************)
Country == {"two letters", "two characters", "other"}
Date == {"four digits", "more digits", "none"}
Header == [buyer: Country, seller: Country, issueDate: Date, dueDate: Date]

Scale == 10000
Cent == 10 * Scale

ASSUME InvoiceTotalsAssumption ==
    /\ MaxLines \in Nat
    /\ None \notin Int
    /\ RawLines \subseteq [quantity: Int \cup {None}, unitPrice: Int \cup {None},
                           taxRate: Int \cup {None}] \cup {None}
    /\ Discounts \subseteq Int \cup {None}
    /\ Offsets \subseteq Int
    /\ Headers \subseteq Header

VARIABLES
    body,      \* the payload fetched from GHL
    stage,     \* how far MAP_CANONICAL and GENERATE_FACTURX are with it
    invoice,   \* canonical_payload
    totals,    \* the result of computeInvoiceTotals, in cents
    xml        \* the amounts written for each line and for each tax rate, in cents

vars == <<body, stage, invoice, totals, xml>>

Larger(a, b) == IF a >= b THEN a ELSE b
Distance(a, b) == IF a >= b THEN a - b ELSE b - a

\* round2 and toFixed(2) of an exact amount: a nearest cent, either one when
\* it lies halfway between two.
Cents(amount) ==
    {c \in {amount \div Cent, amount \div Cent + 1} : 2 * Distance(c * Cent, amount) <= Cent}

Basis(line) == line.quantity * line.unitPrice * 1000
Tax(line) == line.quantity * line.unitPrice * line.taxRate
SumOver(amount(_), lines) == SumFunction([i \in DOMAIN lines |-> amount(lines[i])])

(***************************************************************************)
(* The mapper.                                                             *)
(***************************************************************************)
asNumber(value, fallback) == IF value = None THEN fallback ELSE value

\* Mutant: a quantity that GHL gives is taken as it is.
mapLineUnchecked(row) ==
    [quantity  |-> asNumber(row.quantity, 10),
     unitPrice |-> Larger(asNumber(row.unitPrice, 0), 0),
     taxRate   |-> asNumber(row.taxRate, 0)]

mapLine(row) ==
    LET quantity  == asNumber(row.quantity, 10)
        unitPrice == asNumber(row.unitPrice, 0)
        taxRate   == asNumber(row.taxRate, 0)
    IN  [quantity  |-> IF quantity > 0 THEN quantity ELSE 10,
         unitPrice |-> Larger(unitPrice, 0),
         taxRate   |-> IF taxRate \in 0 .. 1000 THEN taxRate ELSE 0]

\* Reading a field of a null throws.
HasNullLine(input) == \E i \in DOMAIN input.lines : input.lines[i] = None

\* An invoice without lines gets one, priced by the field totalAmount.
extractLines(input) ==
    IF input.lines # <<>>
      THEN [i \in DOMAIN input.lines |-> mapLine(input.lines[i])]
      ELSE <<[quantity  |-> 10,
              unitPrice |-> IF input.inTotalAmount THEN asNumber(input.total, 0) ELSE 0,
              taxRate   |-> 0]>>

sumLines(lines) == SumOver(LAMBDA line : Basis(line) + Tax(line), lines)

\* What is to be paid by the lines; mapper and schema compute it alike.
expectedTotal(lines, discount) ==
    Larger(0, sumLines(lines) - Larger(0, discount) * Scale)

WithinTolerance(a, b) == Distance(a, b) <= Cent

\* FR stands in for what does not have two characters, the day of the run for what
\* is not a date.
normalizeCountry(text) == IF text = "other" THEN "two letters" ELSE text
normalizeDate(date) == IF date = "none" THEN "four digits" ELSE date

mapHeader(header) ==
    [buyer     |-> normalizeCountry(header.buyer),
     seller    |-> normalizeCountry(header.seller),
     issueDate |-> normalizeDate(header.issueDate),
     dueDate   |-> header.dueDate]

mapGhlToCanonical(input) ==
    LET lines    == extractLines(input)
        discount == asNumber(input.discount, 0)
        expected == expectedTotal(lines, discount)
        parsed   == IF input.total = None THEN expected ELSE input.total * Scale
    IN  [header      |-> mapHeader(input.header),
         lines       |-> lines,
         discount    |-> Larger(discount, 0),
         totalAmount |-> IF WithinTolerance(parsed, expected) THEN parsed ELSE expected]

HeaderIsCanonical(header) ==
    /\ header.buyer = "two letters" /\ header.seller = "two letters"
    /\ header.issueDate = "four digits" /\ header.dueDate # "more digits"

\* CanonicalInvoiceSchema
IsCanonical(inv) ==
    /\ HeaderIsCanonical(inv.header)
    /\ inv.lines # <<>>
    /\ \A i \in DOMAIN inv.lines :
          /\ inv.lines[i].quantity > 0
          /\ inv.lines[i].unitPrice >= 0
          /\ inv.lines[i].taxRate \in 0 .. 1000
    /\ inv.totalAmount >= 0
    /\ inv.discount >= 0
    /\ WithinTolerance(inv.totalAmount, expectedTotal(inv.lines, inv.discount))

(***************************************************************************)
(* Totals and XML.  taxBasisTotal is netTotal and dueTotal is grandTotal.  *)
(***************************************************************************)
\* Mutant: the discount is shown but not subtracted.
computeInvoiceTotalsWithoutDiscount(inv) ==
    {[netTotal |-> net, taxTotal |-> tax, discountTotal |-> discount,
      grandTotal |-> net + tax] :
        net \in Cents(SumOver(Basis, inv.lines)),
        tax \in Cents(SumOver(Tax, inv.lines)),
        discount \in Cents(inv.discount * Scale)}

computeInvoiceTotals(inv) ==
    {[netTotal |-> net, taxTotal |-> tax, discountTotal |-> discount,
      grandTotal |-> net + tax - discount] :
        net \in Cents(SumOver(Basis, inv.lines)),
        tax \in Cents(SumOver(Tax, inv.lines)),
        discount \in Cents(inv.discount * Scale)}

Rates(lines) == {lines[i].taxRate : i \in DOMAIN lines}

\* Mutant: a line that says nothing new about its rate is not added.
LinesAtFirst(lines, rate) ==
    Restrict(lines, {i \in DOMAIN lines : /\ lines[i].taxRate = rate
                                          /\ \A k \in 1 .. i - 1 : lines[k].taxRate # rate})

\* The lines of one rate, under their numbers.
LinesAt(lines, rate) == Restrict(lines, {i \in DOMAIN lines : lines[i].taxRate = rate})

\* The header has one group per rate; each line and each group is rounded on
\* its own.
RoundedEach(exact) ==
    {rounded \in [DOMAIN exact -> UNION {Cents(exact[k]) : k \in DOMAIN exact}] :
        \A k \in DOMAIN exact : rounded[k] \in Cents(exact[k])}

buildCiiXml(inv) ==
    LET rates == Rates(inv.lines)
    IN  [lineTotal : RoundedEach([i \in DOMAIN inv.lines |-> Basis(inv.lines[i])]),
         basis : RoundedEach([r \in rates |-> SumOver(Basis, LinesAt(inv.lines, r))]),
         tax   : RoundedEach([r \in rates |-> SumOver(Tax, LinesAt(inv.lines, r))])]

(***************************************************************************)
(* Behaviours: one body, through MAP_CANONICAL and GENERATE_FACTURX.       *)
(***************************************************************************)
ReportedTotals(input) ==
    LET expected == expectedTotal(extractLines(input), asNumber(input.discount, 0))
    IN  {None} \cup IF HasNullLine(input) THEN {}
                    ELSE {expected \div Scale + offset : offset \in Offsets}

Bodies == [header: Headers, lines: UNION {[1 .. n -> RawLines] : n \in 0 .. MaxLines},
           discount: Discounts, total: {None}, inTotalAmount: BOOLEAN]

Init ==
    /\ \E input \in Bodies : \E total \in ReportedTotals(input) :
          body = [input EXCEPT !.total = total]
    /\ stage = "fetched"
    /\ invoice = None /\ totals = None /\ xml = None

\* Mutant: the schema's verdict is not looked at.
MapUnparsed ==
    /\ stage = "fetched"
    /\ stage' = "mapped"
    /\ LET canonical == mapGhlToCanonical(body)
       IN  invoice' = IF ~HasNullLine(body) /\ IsCanonical(canonical) THEN canonical ELSE None
    /\ UNCHANGED <<body, totals, xml>>

\* MAP_CANONICAL: what the mapper cannot read or the schema refuses makes the
\* handler throw.
Map ==
    /\ stage = "fetched"
    /\ LET canonical == mapGhlToCanonical(body)
       IN  IF ~HasNullLine(body) /\ IsCanonical(canonical)
             THEN stage' = "mapped" /\ invoice' = canonical
             ELSE stage' = "rejected" /\ UNCHANGED invoice
    /\ UNCHANGED <<body, totals, xml>>

\* GENERATE_FACTURX: PDF and XML show the same totals.
Generate ==
    /\ stage = "mapped"
    /\ stage' = "generated"
    /\ totals' \in computeInvoiceTotals(invoice)
    /\ xml' \in buildCiiXml(invoice)
    /\ UNCHANGED <<body, invoice>>

Next == Map \/ Generate

Spec == Init /\ [][Next]_vars

-----------------------------------------------------------------------------
Body == [header: Headers, lines: Seq(RawLines), discount: Discounts, total: Int \cup {None},
         inTotalAmount: BOOLEAN]
CanonicalLine == [quantity: Int, unitPrice: Int, taxRate: Int]
CanonicalInvoice == [header: Header, lines: Seq(CanonicalLine), discount: Int, totalAmount: Int]

\* The variables have their types, and each stage has left its result.
TypeOK ==
    /\ body \in Body
    /\ stage \in {"fetched", "mapped", "rejected", "generated"}
    /\ stage \in {"fetched", "rejected"} => invoice = None
    /\ stage \in {"mapped", "generated"} => invoice \in CanonicalInvoice /\ IsCanonical(invoice)
    /\ stage = "generated" =>
          totals \in computeInvoiceTotals(invoice) /\ xml \in buildCiiXml(invoice)

\* MAP_CANONICAL throws only for a cause in the body: a null among the lines, a
\* country of two characters that are not letters, a date after the year 9999, or
\* a negative total, when the line it prices is the only one or the lines sum up
\* to no more than a cent after the discount.  Whatever else is missing, of the
\* wrong type or out of range is replaced by something the schema takes.
MappingFailsOnlyForCause ==
    stage = "rejected" =>
        \/ HasNullLine(body)
        \/ "two characters" \in {body.header.buyer, body.header.seller}
        \/ "more digits" \in {body.header.issueDate, body.header.dueDate}
        \/ /\ body.total # None /\ body.total < 0
           /\ \/ body.lines = <<>>
              \/ expectedTotal(extractLines(body), asNumber(body.discount, 0)) <= Cent

\* What the documents ask the buyer to pay is the total of the canonical
\* invoice up to roundings and the mapper's tolerance, unless the discount is
\* larger than the invoice: the mapper then says 0, the documents do not.
DocumentsAskForTheCanonicalTotal ==
    stage = "generated" =>
        \/ 2 * Distance(totals.grandTotal * Cent, invoice.totalAmount) <= 5 * Cent
        \/ sumLines(invoice.lines) < invoice.discount * Scale

AddsUp(parts, total) ==
    2 * Distance(SumFunction(parts), total) <= Cardinality(DOMAIN parts) + 1

\* The XML adds up: the lines and the groups per rate were rounded one by one,
\* and their sums differ from the totals by no more than that explains.
XmlAddsUp ==
    stage = "generated" =>
        /\ AddsUp(xml.lineTotal, totals.netTotal)
        /\ AddsUp(xml.basis, totals.netTotal)
        /\ AddsUp(xml.tax, totals.taxTotal)
=============================================================================

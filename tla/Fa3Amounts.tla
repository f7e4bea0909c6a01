------------------------------- MODULE Fa3Amounts -------------------------------
(***************************************************************************)
(* The amounts of build_fa3: every line's net value is rounded to grosze   *)
(* and added to the bucket of its VAT rate, its VAT is computed from the   *)
(* rounded value and rounded as well, and the buckets that are not zero    *)
(* are written as fields.  One step is one line of the invoice.            *)
(*                                                                         *)
(* A definition named Faulty... is the code with one plausible mistake in  *)
(* it: no action uses it; it shows that a property can be violated.        *)
(***************************************************************************)
EXTENDS Integers, Sequences, FiniteSets, Functions, SequencesExt

CONSTANTS Grosz,           \* units per grosz: quantities and prices are finer
          Amounts,         \* quantity * price of a line, in units
          Rates,           \* the coded VAT rates lines may carry
          MaxLines         \* bound: lines of an invoice

\* The rates that parse as a number, and the buckets there are.
Percent == [r \in {"23", "8", "7", "5", "0"} |->
              CASE r = "23" -> 23 [] r = "8" -> 8 [] r = "7" -> 7 [] r = "5" -> 5 [] OTHER -> 0]
Buckets == {"23", "8", "5", "0", "zw"}

ASSUME GroszAssumption   == Grosz \in Nat \ {0}
ASSUME AmountsAssumption == Amounts \subseteq Int
ASSUME LinesAssumption   == MaxLines \in Nat

IsNumeric(rate) == rate \in DOMAIN Percent

\* Exempt, not taxable and reverse-charged lines share a bucket.
Coded(rate) == IF IsNumeric(rate) THEN rate ELSE "zw"

\* Rounds down.
FaultyRound(x, unit) == x \div unit

\* Decimal.quantize: to the nearest, halves to the even neighbour.
Round(x, unit) ==
  LET low  == x \div unit
      rest == x % unit
  IN  IF 2 * rest < unit \/ (2 * rest = unit /\ low % 2 = 0) THEN low ELSE low + 1

NetOf(line) == Round(line.amount, Grosz)
VatOf(line) == IF IsNumeric(line.rate) THEN Round(NetOf(line) * Percent[line.rate], 100) ELSE 0

VARIABLES lines,           \* invoice.lines
          k,               \* lines added so far
          buckets, vatBy,  \* grosze by coded rate
          fields,          \* what the document says
          outcome

vars == <<lines, k, buckets, vatBy, fields, outcome>>

NoFields == [net |-> <<>>, vat |-> <<>>, total |-> 0]
Zero     == [b \in Buckets |-> 0]

Init == /\ lines \in SeqOf([amount : Amounts, rate : Rates], MaxLines)
        /\ k = 0 /\ buckets = Zero /\ vatBy = Zero
        /\ fields = NoFields /\ outcome = "none"

AddLine ==
  LET line == lines[k + 1]
      code == Coded(line.rate)
  IN  /\ outcome = "none" /\ k < Len(lines) /\ code \in Buckets
      /\ buckets' = [buckets EXCEPT ![code] = @ + NetOf(line)]
      /\ vatBy' = [vatBy EXCEPT ![code] = @ + VatOf(line)]
      /\ k' = k + 1
      /\ UNCHANGED <<lines, fields, outcome>>

\* A numeric rate without a bucket.
Reject == /\ outcome = "none" /\ k < Len(lines) /\ Coded(lines[k + 1].rate) \notin Buckets
          /\ outcome' = "value_error"
          /\ UNCHANGED <<lines, k, buckets, vatBy, fields>>

\* Leaves out the buckets without VAT, save the exempt one.
FaultyPrinted == {b \in Buckets : vatBy[b] # 0 \/ (b = "zw" /\ buckets[b] # 0)}

\* The buckets written as P_13_x and, but for the exempt one, P_14_x.
Printed == {b \in Buckets : buckets[b] # 0}

\* P_15, from all the buckets.
Total == SumFunction(buckets) + SumFunction(vatBy)

\* Writes a VAT field for the exempt bucket too.
FaultyEmit == /\ outcome = "none" /\ k = Len(lines)
              /\ fields' = [net   |-> [b \in Printed |-> buckets[b]],
                            vat   |-> [b \in Printed |-> vatBy[b]],
                            total |-> Total]
              /\ outcome' = "ok"
              /\ UNCHANGED <<lines, k, buckets, vatBy>>

Emit == /\ outcome = "none" /\ k = Len(lines)
        /\ fields' = [net   |-> [b \in Printed |-> buckets[b]],
                      vat   |-> [b \in Printed \ {"zw"} |-> vatBy[b]],
                      total |-> Total]
        /\ outcome' = "ok"
        /\ UNCHANGED <<lines, k, buckets, vatBy>>

Next == AddLine \/ Reject \/ Emit

Spec == Init /\ [][Next]_vars
--------------------------------------------------------------------------------
\* InvoiceData.total_gross in hundredths of a unit: nothing is rounded.
ExactGross ==
  LET exact == [i \in DOMAIN lines |->
                  lines[i].amount * (100 + (IF IsNumeric(lines[i].rate)
                                              THEN Percent[lines[i].rate] ELSE 0))]
  IN  SumFunction(exact)

TypeOK == /\ lines \in Seq([amount : Int, rate : Rates])
          /\ k \in 0 .. Len(lines)
          /\ buckets \in [Buckets -> Int] /\ vatBy \in [Buckets -> Int]
          /\ fields.total \in Int
          /\ DOMAIN fields.net \subseteq Buckets
          /\ DOMAIN fields.vat = DOMAIN fields.net \ {"zw"}
          /\ outcome \in {"none", "ok", "value_error"}

\* A document that is written adds up: the net fields are the sum of the line
\* values P_11 and, if no line is negative, P_15 is the sum of the net and the VAT
\* fields, although empty buckets are left out (fa3.py:139-160, 186).  With
\* negative lines the net of a bucket may cancel while its rounded VAT does not:
\* that VAT is in P_15 and in no field.
DocumentAddsUp ==
  outcome = "ok" =>
    /\ SumFunction(fields.net) = SumFunction([i \in DOMAIN lines |-> NetOf(lines[i])])
    /\ (\A i \in DOMAIN lines : lines[i].amount >= 0)
         => fields.total = SumFunction(fields.net) + SumFunction(fields.vat)

\* P_15 differs from total_gross, which is never rounded, by at most 1.115 grosze
\* a line: half a grosz of net with its VAT, and half a grosz of VAT
\* (fa3.py:57-74, 139-160).
GrossIsClose ==
  outcome = "ok" =>
    LET off == 100 * Grosz * fields.total - ExactGross
    IN  /\ 2 * off <= 223 * Grosz * Len(lines)
        /\ -2 * off <= 223 * Grosz * Len(lines)
================================================================================

--------------------------- MODULE Fa3Amounts_proofs ---------------------------
(***************************************************************************)
(* How far rounding moves one line of an invoice, for every amount and     *)
(* every fineness of quantities and prices.                                *)
(***************************************************************************)
EXTENDS Fa3Amounts, FiniteLemmas, TLAPS

\* Quotient and remainder.
LEMMA Division ==
  ASSUME NEW x \in Int, NEW unit \in Nat \ {0}
  PROVE  /\ x \div unit \in Int /\ x % unit \in 0 .. (unit - 1)
         /\ x = unit * (x \div unit) + (x % unit)
  OBVIOUS

\* Rounding moves a value by half a unit at most, and a half to the even
\* neighbour (Decimal.quantize, fa3.py:140, 147).
THEOREM RoundIsNearest ==
  ASSUME NEW x \in Int, NEW unit \in Nat \ {0}
  PROVE  /\ Round(x, unit) \in Int
         /\ 2 * (unit * Round(x, unit) - x) <= unit
         /\ 2 * (x - unit * Round(x, unit)) <= unit
<1> DEFINE low  == x \div unit
           rest == x % unit
<1>1. low \in Int /\ rest \in 0 .. (unit - 1) /\ x = unit * low + rest
  BY Division
<1>2. CASE 2 * rest < unit \/ (2 * rest = unit /\ low % 2 = 0)
  <2>1. Round(x, unit) = low
    BY <1>2 DEF Round
  <2> HIDE DEF low, rest
  <2> QED BY <1>1, <1>2, <2>1
<1>3. CASE ~(2 * rest < unit \/ (2 * rest = unit /\ low % 2 = 0))
  <2>1. Round(x, unit) = low + 1
    BY <1>3 DEF Round
  <2> HIDE DEF low, rest
  <2>2. unit * (low + 1) = unit * low + unit
    BY <1>1
  <2>3. 2 * rest >= unit
    BY <1>1, <1>3
  <2> QED BY <1>1, <2>1, <2>2, <2>3
<1> QED BY <1>2, <1>3

\* The VAT of a line in hundredths of the net, 0 for a rate that is no number.
RateOf(rate) == IF IsNumeric(rate) THEN Percent[rate] ELSE 0

LEMMA RateTypes == ASSUME NEW rate PROVE RateOf(rate) \in 0 .. 23
  BY DEF RateOf, IsNumeric, Percent

\* The VAT written for a line is the nearest to its rate of the net written.
LEMMA VatIsNearest ==
  ASSUME NEW line, NetOf(line) \in Int
  PROVE  /\ VatOf(line) \in Int
         /\ 2 * (100 * VatOf(line) - NetOf(line) * RateOf(line.rate)) <= 100
         /\ 2 * (NetOf(line) * RateOf(line.rate) - 100 * VatOf(line)) <= 100
<1>1. RateOf(line.rate) \in Int
  BY RateTypes
<1>2. CASE IsNumeric(line.rate)
  <2>1. RateOf(line.rate) = Percent[line.rate]
    BY <1>2 DEF RateOf
  <2>2. VatOf(line) = Round(NetOf(line) * RateOf(line.rate), 100)
    BY <1>2, <2>1 DEF VatOf
  <2>3. NetOf(line) * RateOf(line.rate) \in Int
    BY <1>1
  <2> QED BY <2>2, <2>3, RoundIsNearest
<1>3. CASE ~IsNumeric(line.rate)
  <2>1. VatOf(line) = 0 /\ RateOf(line.rate) = 0
    BY <1>3 DEF VatOf, RateOf
  <2> QED BY <2>1
<1> QED BY <1>2, <1>3

\* A product keeps the bounds of its first factor.
LEMMA Product ==
  ASSUME NEW a \in Int, NEW bound \in Nat, 2 * a <= bound, -bound <= 2 * a,
         NEW c \in Nat, NEW most \in Nat, c <= most
  PROVE  2 * (a * c) <= bound * most /\ -(bound * most) <= 2 * (a * c)
<1>1. 2 * (a * c) <= bound * c /\ -(bound * c) <= 2 * (a * c)
  OBVIOUS
<1>2. bound * c <= bound * most /\ bound * c \in Nat /\ bound * most \in Nat
  OBVIOUS
<1>3. a * c \in Int
  OBVIOUS
<1> QED BY <1>1, <1>2, <1>3

\* What a line adds to P_15 is within 1.115 grosze of its part of total_gross,
\* whatever its amount, its rate and the fineness of the amounts: the bound of
\* GrossIsClose line by line (fa3.py:57-74, 139-147).
THEOREM LineIsClose ==
  ASSUME NEW line, line.amount \in Int
  PROVE  LET written == 100 * Grosz * (NetOf(line) + VatOf(line))
             exact   == line.amount * (100 + RateOf(line.rate))
         IN  /\ 2 * (written - exact) <= 223 * Grosz
             /\ 2 * (exact - written) <= 223 * Grosz
<1> DEFINE net  == NetOf(line)
           vat  == VatOf(line)
           rate == RateOf(line.rate)
           off  == Grosz * net - line.amount
           more == 100 * vat - net * rate
<1>1. Grosz \in Nat \ {0} /\ rate \in 0 .. 23
  BY GroszAssumption, RateTypes
<1>2. net \in Int /\ 2 * off <= Grosz /\ -Grosz <= 2 * off
  <2>1. net = Round(line.amount, Grosz)
    BY DEF NetOf
  <2> HIDE DEF net
  <2>2. net \in Int /\ 2 * (Grosz * net - line.amount) <= Grosz
                    /\ 2 * (line.amount - Grosz * net) <= Grosz
    BY <1>1, <2>1, RoundIsNearest
  <2> QED BY <1>1, <2>2
<1>3. vat \in Int /\ 2 * more <= 100 /\ -100 <= 2 * more
  <2>1. vat \in Int /\ 2 * (100 * vat - net * rate) <= 100
                    /\ 2 * (net * rate - 100 * vat) <= 100
    BY <1>2, VatIsNearest
  <2> HIDE DEF net, vat, rate
  <2> QED BY <1>1, <1>2, <2>1
<1>4. line.amount \in Int
  OBVIOUS
<1> HIDE DEF net, vat, rate
<1>5. off \in Int /\ more \in Int
  BY <1>1, <1>2, <1>3
<1>6. 100 * Grosz * (net + vat) - line.amount * (100 + rate)
        = off * (100 + rate) + Grosz * more
  BY <1>1, <1>2, <1>3
<1> HIDE DEF off, more
<1>7. /\ 2 * (off * (100 + rate)) <= 123 * Grosz
      /\ -(123 * Grosz) <= 2 * (off * (100 + rate))
  <2>1. 100 + rate \in Nat /\ 100 + rate <= 123 /\ Grosz \in Nat
    BY <1>1
  <2> QED BY <1>2, <1>5, <2>1, Product
<1>8. /\ 2 * (Grosz * more) <= 100 * Grosz
      /\ -(100 * Grosz) <= 2 * (Grosz * more)
  <2>1. /\ 2 * (more * Grosz) <= 100 * Grosz
        /\ -(100 * Grosz) <= 2 * (more * Grosz)
    BY <1>1, <1>3, <1>5, Product
  <2> QED BY <1>1, <1>5, <2>1
<1>9. /\ 2 * (100 * Grosz * (net + vat) - line.amount * (100 + rate)) <= 223 * Grosz
      /\ 2 * (line.amount * (100 + rate) - 100 * Grosz * (net + vat)) <= 223 * Grosz
  <2> DEFINE a == off * (100 + rate)
             b == Grosz * more
             w == 100 * Grosz * (net + vat)
             e == line.amount * (100 + rate)
  <2>1. a \in Int /\ b \in Int /\ w \in Int /\ e \in Int
    BY <1>1, <1>2, <1>3, <1>4, <1>5
  <2>2. w - e = a + b /\ 2 * a <= 123 * Grosz /\ -(123 * Grosz) <= 2 * a
                      /\ 2 * b <= 100 * Grosz /\ -(100 * Grosz) <= 2 * b
    BY <1>6, <1>7, <1>8
  <2> HIDE DEF a, b, w, e
  <2>3. 2 * (w - e) <= 223 * Grosz /\ 2 * (e - w) <= 223 * Grosz
    BY <1>1, <2>1, <2>2
  <2> QED BY <2>3 DEF w, e
<1> QED BY <1>9 DEF net, vat, rate
--------------------------------------------------------------------------------
(* The totals, line by line. *)

Nets  == [i \in DOMAIN lines |-> NetOf(lines[i])]
Exact == [i \in DOMAIN lines |-> lines[i].amount * (100 + RateOf(lines[i].rate))]

Written == [net   |-> [b \in Printed |-> buckets[b]],
            vat   |-> [b \in Printed \ {"zw"} |-> vatBy[b]],
            total |-> Total]

\* The buckets hold the net values of the lines added so far.
NetsAdded == SumFunction(buckets) = SumFunctionOnSet(Nets, 1 .. k)

\* Every line has moved the total by 1.115 grosze at most.
GrossSoFar ==
  LET off == 100 * Grosz * Total - SumFunctionOnSet(Exact, 1 .. k)
  IN  /\ 2 * off <= 223 * Grosz * k
      /\ -2 * off <= 223 * Grosz * k

\* A bucket left out of the document holds no VAT, nor does the exempt one.
NoVatLeftOut ==
  /\ vatBy["zw"] = 0
  /\ (\A i \in DOMAIN lines : lines[i].amount >= 0)
       => \A b \in Buckets : buckets[b] >= 0 /\ (buckets[b] = 0 => vatBy[b] = 0)

IsWritten == outcome = "ok" => k = Len(lines) /\ fields = Written

IInv == TypeOK /\ NetsAdded /\ GrossSoFar /\ NoVatLeftOut /\ IsWritten

LEMMA BucketsFinite == IsFiniteSet(Buckets)
<1>1. Buckets = (({"23"} \cup {"8"}) \cup {"5"}) \cup ({"0"} \cup {"zw"})
  BY DEF Buckets
<1> QED BY <1>1, FS_Singleton, FS_Union

\* The values of one line.
LEMMA LineTypes ==
  ASSUME TypeOK, NEW i \in DOMAIN lines
  PROVE  /\ lines[i].amount \in Int /\ NetOf(lines[i]) \in Int /\ VatOf(lines[i]) \in Int
         /\ Nets[i] \in Int /\ Exact[i] \in Int
<1>1. lines[i].amount \in Int
  <2> DEFINE Line == [amount : Int, rate : Rates]
  <2>1. lines \in Seq(Line)
    BY DEF TypeOK
  <2> HIDE DEF Line
  <2>2. lines[i] \in Line
    BY <2>1
  <2> QED BY <2>2 DEF Line
<1>2. NetOf(lines[i]) \in Int
  BY <1>1, RoundIsNearest, GroszAssumption DEF NetOf
<1>3. VatOf(lines[i]) \in Int
  BY <1>2, VatIsNearest
<1>4. Exact[i] \in Int
  BY <1>1, RateTypes DEF Exact
<1> QED BY <1>1, <1>2, <1>3, <1>4 DEF Nets

\* Values that are not negative stay so when they are rounded, and 0 stays 0.
LEMMA RoundKeepsSign ==
  ASSUME NEW x \in Int, NEW unit \in Nat \ {0}, x >= 0
  PROVE  Round(x, unit) >= 0 /\ (x = 0 => Round(x, unit) = 0)
<1> DEFINE r == Round(x, unit)
<1>1. r \in Int /\ 2 * (unit * r - x) <= unit /\ 2 * (x - unit * r) <= unit
  BY RoundIsNearest
<1> HIDE DEF r
<1>2. r >= 0
  <2> SUFFICES ASSUME r <= -1 PROVE FALSE
    BY <1>1
  <2>1. unit * r <= -unit
    BY <1>1
  <2>2. unit * r \in Int
    BY <1>1
  <2> QED BY <1>1, <2>1, <2>2
<1>3. ASSUME x = 0 PROVE r = 0
  <2> SUFFICES ASSUME r >= 1 PROVE FALSE
    BY <1>1, <1>2
  <2>1. unit * r >= unit
    BY <1>1
  <2>2. unit * r \in Int
    BY <1>1
  <2> QED BY <1>1, <1>3, <2>1, <2>2
<1> QED BY <1>2, <1>3 DEF r

LEMMA LineKeepsSign ==
  ASSUME NEW line, line.amount \in Int, line.amount >= 0
  PROVE  NetOf(line) >= 0 /\ (NetOf(line) = 0 => VatOf(line) = 0)
<1>1. NetOf(line) \in Int /\ NetOf(line) >= 0
  BY RoundIsNearest, RoundKeepsSign, GroszAssumption DEF NetOf
<1>2. ASSUME NetOf(line) = 0, IsNumeric(line.rate) PROVE VatOf(line) = 0
  <2>1. Percent[line.rate] \in Int
    BY <1>2, RateTypes DEF RateOf
  <2>2. VatOf(line) = Round(0, 100)
    BY <1>2, <2>1 DEF VatOf
  <2> QED BY <2>2, RoundKeepsSign
<1> QED BY <1>1, <1>2 DEF VatOf

LEMMA InitIInv == Init => IInv
<1> SUFFICES ASSUME Init PROVE IInv
  OBVIOUS
<1>1. lines \in Seq([amount : Int, rate : Rates])
  <2>1. PICK m \in 0 .. MaxLines : lines \in [1 .. m -> [amount : Amounts, rate : Rates]]
    BY DEF Init, SeqOf
  <2> DEFINE Line == [amount : Int, rate : Rates]
  <2>2. m \in Nat
    BY LinesAssumption
  <2>3. lines \in [1 .. m -> Line]
    BY <2>1, AmountsAssumption
  <2> HIDE DEF Line
  <2>4. lines \in Seq(Line)
    BY <2>2, <2>3
  <2> QED BY <2>4 DEF Line
<1>2. TypeOK
  <2>1. DOMAIN fields.net = {} /\ DOMAIN fields.vat = {} /\ fields.total = 0
    BY DEF Init, NoFields
  <2>2. buckets \in [Buckets -> Int] /\ vatBy \in [Buckets -> Int]
    BY DEF Init, Zero
  <2> QED BY <1>1, <2>1, <2>2 DEF Init, TypeOK
<1>3. SumFunction(buckets) = 0 /\ SumFunction(vatBy) = 0
  <2>1. SumFunctionOnSet(Zero, Buckets) = SumFunctionOnSet(Zero, {})
    BY BucketsFinite, SumDropsZeros DEF Zero
  <2> QED BY <2>1, SumEmpty DEF Init, Zero, SumFunction
<1>4. SumFunctionOnSet(Nets, 1 .. k) = 0 /\ SumFunctionOnSet(Exact, 1 .. k) = 0
  <2>1. 1 .. k = {}
    BY DEF Init
  <2> QED BY <2>1, SumEmpty
<1>5. GrossSoFar
  <2>1. Total = 0 /\ k = 0
    BY <1>3 DEF Total, Init
  <2> QED BY <1>4, <2>1, GroszAssumption DEF GrossSoFar
<1>6. NoVatLeftOut
  BY DEF Init, Zero, NoVatLeftOut, Buckets
<1> QED BY <1>2, <1>3, <1>4, <1>5, <1>6 DEF IInv, NetsAdded, IsWritten, Init

\* A line fills one bucket.
LEMMA AddLineFills ==
  ASSUME IInv, AddLine
  PROVE  LET line == lines[k + 1]
             code == Coded(line.rate)
         IN  /\ k + 1 \in DOMAIN lines /\ k + 1 \in Nat /\ k \in Nat /\ code \in Buckets
             /\ line.amount \in Int /\ NetOf(line) \in Int /\ VatOf(line) \in Int
             /\ buckets' \in [Buckets -> Int] /\ vatBy' \in [Buckets -> Int]
             /\ \A b \in Buckets \ {code} : buckets'[b] = buckets[b] /\ vatBy'[b] = vatBy[b]
             /\ buckets'[code] = buckets[code] + NetOf(line)
             /\ vatBy'[code] = vatBy[code] + VatOf(line)
<1> DEFINE line == lines[k + 1]
           code == Coded(line.rate)
<1>1. TypeOK
  BY DEF IInv
<1>2. k + 1 \in DOMAIN lines /\ k + 1 \in Nat /\ k \in Nat
  BY <1>1 DEF TypeOK, AddLine
<1>3. line.amount \in Int /\ NetOf(line) \in Int /\ VatOf(line) \in Int
  BY <1>1, <1>2, LineTypes
<1>4. code \in Buckets /\ buckets \in [Buckets -> Int] /\ vatBy \in [Buckets -> Int]
  BY <1>1 DEF AddLine, TypeOK
<1>5. /\ buckets' = [buckets EXCEPT ![code] = @ + NetOf(line)]
      /\ vatBy' = [vatBy EXCEPT ![code] = @ + VatOf(line)]
  BY DEF AddLine
<1> HIDE DEF line, code
<1>6. /\ buckets' \in [Buckets -> Int] /\ vatBy' \in [Buckets -> Int]
      /\ \A b \in Buckets \ {code} : buckets'[b] = buckets[b] /\ vatBy'[b] = vatBy[b]
      /\ buckets'[code] = buckets[code] + NetOf(line)
      /\ vatBy'[code] = vatBy[code] + VatOf(line)
  BY <1>3, <1>4, <1>5
<1> QED BY <1>2, <1>3, <1>4, <1>6 DEF line, code

LEMMA TotalTypes ==
  ASSUME TypeOK
  PROVE  SumFunction(buckets) \in Int /\ SumFunction(vatBy) \in Int /\ Total \in Int
<1>1. /\ DOMAIN buckets = Buckets /\ \A b \in Buckets : buckets[b] \in Int
      /\ DOMAIN vatBy = Buckets /\ \A b \in Buckets : vatBy[b] \in Int
  BY DEF TypeOK
<1>2. SumFunction(buckets) \in Int /\ SumFunction(vatBy) \in Int
  BY <1>1, BucketsFinite, SumRemove DEF SumFunction
<1> QED BY <1>2 DEF Total

\* The totals grow by the line.
LEMMA AddLineSums ==
  ASSUME IInv, AddLine
  PROVE  /\ SumFunction(buckets)' = SumFunction(buckets) + NetOf(lines[k + 1])
         /\ SumFunction(vatBy)' = SumFunction(vatBy) + VatOf(lines[k + 1])
<1> DEFINE code == Coded(lines[k + 1].rate)
           net  == NetOf(lines[k + 1])
           vat  == VatOf(lines[k + 1])
<1>1. /\ code \in Buckets /\ net \in Int /\ vat \in Int
      /\ buckets' \in [Buckets -> Int] /\ vatBy' \in [Buckets -> Int]
      /\ \A b \in Buckets \ {code} : buckets'[b] = buckets[b] /\ vatBy'[b] = vatBy[b]
      /\ buckets'[code] = buckets[code] + net /\ vatBy'[code] = vatBy[code] + vat
  BY AddLineFills
<1>2. buckets \in [Buckets -> Int] /\ vatBy \in [Buckets -> Int]
  BY DEF IInv, TypeOK
<1> HIDE DEF code, net, vat
<1>3. SumFunctionOnSet(buckets', Buckets) = SumFunctionOnSet(buckets, Buckets) + net
  BY <1>1, <1>2, BucketsFinite, SumGrows
<1>4. SumFunctionOnSet(vatBy', Buckets) = SumFunctionOnSet(vatBy, Buckets) + vat
  BY <1>1, <1>2, BucketsFinite, SumGrows
<1>5. DOMAIN buckets = Buckets /\ DOMAIN vatBy = Buckets
      /\ DOMAIN buckets' = Buckets /\ DOMAIN vatBy' = Buckets
  BY <1>1, <1>2
<1> QED BY <1>3, <1>4, <1>5 DEF SumFunction, net, vat

\* One more line of a sum over the lines.
LEMMA OneMoreLine ==
  ASSUME TypeOK, NEW f, \A i \in DOMAIN lines : f[i] \in Int, k + 1 \in DOMAIN lines
  PROVE  /\ SumFunctionOnSet(f, 1 .. k) \in Int
         /\ SumFunctionOnSet(f, 1 .. (k + 1)) = SumFunctionOnSet(f, 1 .. k) + f[k + 1]
<1>1. DOMAIN lines = 1 .. Len(lines) /\ Len(lines) \in Nat /\ k \in Nat
  BY DEF TypeOK
<1>2. \A i \in 1 .. (k + 1) : f[i] \in Int
  BY <1>1
<1> QED BY <1>1, <1>2, SumAppends

LEMMA AddLineIInv == ASSUME IInv, AddLine PROVE IInv'
<1> DEFINE line == lines[k + 1]
           code == Coded(line.rate)
           net  == NetOf(line)
           vat  == VatOf(line)
<1>1. TypeOK /\ NetsAdded /\ GrossSoFar /\ NoVatLeftOut /\ IsWritten
  BY DEF IInv
<1>2. k' = k + 1 /\ lines' = lines /\ fields' = fields /\ outcome = "none" /\ outcome' = "none"
  BY DEF AddLine
<1>3. /\ k + 1 \in DOMAIN lines /\ k + 1 \in Nat /\ k \in Nat /\ code \in Buckets
      /\ line.amount \in Int /\ net \in Int /\ vat \in Int
      /\ buckets' \in [Buckets -> Int] /\ vatBy' \in [Buckets -> Int]
      /\ \A b \in Buckets \ {code} : buckets'[b] = buckets[b] /\ vatBy'[b] = vatBy[b]
      /\ buckets'[code] = buckets[code] + net /\ vatBy'[code] = vatBy[code] + vat
  BY AddLineFills
<1>4. /\ SumFunction(buckets)' = SumFunction(buckets) + net
      /\ SumFunction(vatBy)' = SumFunction(vatBy) + vat
  BY AddLineSums
<1>5. TypeOK'
  <2>1. k' \in 0 .. Len(lines')
    BY <1>1, <1>2, <1>3 DEF TypeOK
  <2> QED BY <1>1, <1>2, <1>3, <2>1 DEF TypeOK
<1>6. \A i \in DOMAIN lines : Nets[i] \in Int /\ Exact[i] \in Int
  BY <1>1, LineTypes
<1>7. Nets' = Nets /\ Exact' = Exact
  BY <1>2 DEF Nets, Exact
<1>8. NetsAdded'
  <2>1. SumFunctionOnSet(Nets, 1 .. (k + 1)) = SumFunctionOnSet(Nets, 1 .. k) + Nets[k + 1]
    BY <1>1, <1>3, <1>6, OneMoreLine
  <2>2. Nets[k + 1] = net
    BY <1>3 DEF Nets
  <2> QED BY <1>1, <1>2, <1>4, <1>7, <2>1, <2>2 DEF NetsAdded
<1>9. GrossSoFar'
  <2> DEFINE exact == Exact[k + 1]
             so    == SumFunctionOnSet(Exact, 1 .. k)
  <2>1. so \in Int /\ SumFunctionOnSet(Exact, 1 .. (k + 1)) = so + exact
    BY <1>1, <1>3, <1>6, OneMoreLine
  <2>2. exact \in Int /\ exact = line.amount * (100 + RateOf(line.rate))
    BY <1>3, <1>6 DEF Exact
  <2>3. /\ 2 * (100 * Grosz * (net + vat) - exact) <= 223 * Grosz
        /\ 2 * (exact - 100 * Grosz * (net + vat)) <= 223 * Grosz
    BY <1>3, <2>2, LineIsClose
  <2>4. Total \in Int /\ Total' = Total + (net + vat)
    BY <1>1, <1>3, <1>4, TotalTypes DEF Total
  <2>5. /\ 2 * (100 * Grosz * Total - so) <= 223 * Grosz * k
        /\ -2 * (100 * Grosz * Total - so) <= 223 * Grosz * k
    BY <1>1 DEF GrossSoFar
  <2>6. SumFunctionOnSet(Exact, 1 .. k)' = so + exact
    BY <1>2, <1>7, <2>1
  <2>7. Grosz \in Nat \ {0}
    BY GroszAssumption
  <2> HIDE DEF exact, so, net, vat
  <2> DEFINE a == 100 * Grosz * Total
             b == 100 * Grosz * (net + vat)
             c == 223 * Grosz * k
             g == 223 * Grosz
  <2>8. a \in Int /\ b \in Int /\ c \in Int /\ g \in Int
    BY <1>3, <2>4, <2>7 DEF net, vat
  <2>9. 100 * Grosz * Total' = a + b /\ 223 * Grosz * k' = c + g
    BY <1>2, <1>3, <2>4, <2>7 DEF net, vat
  <2>10. /\ 2 * (b - exact) <= g /\ 2 * (exact - b) <= g
         /\ 2 * (a - so) <= c /\ -2 * (a - so) <= c
    BY <2>3, <2>5
  <2>11. exact \in Int
    BY <2>2
  <2> HIDE DEF a, b, c, g
  <2>12. /\ 2 * ((a + b) - (so + exact)) <= c + g
         /\ -2 * ((a + b) - (so + exact)) <= c + g
    BY <2>1, <2>8, <2>10, <2>11
  <2> QED BY <2>6, <2>9, <2>12 DEF GrossSoFar
<1>10. NoVatLeftOut'
  <2>1. vatBy'["zw"] = 0
    <3>1. CASE code = "zw"
      <4>1. ~ IsNumeric(line.rate)
        BY <3>1 DEF Coded, IsNumeric, Percent
      <4>2. vat = 0
        BY <4>1 DEF VatOf
      <4> QED BY <1>1, <1>3, <3>1, <4>2 DEF NoVatLeftOut
    <3>2. CASE code # "zw"
      BY <1>1, <1>3, <3>2 DEF NoVatLeftOut, Buckets
    <3> QED BY <3>1, <3>2
  <2>2. ASSUME \A i \in DOMAIN lines : lines[i].amount >= 0, NEW b \in Buckets
        PROVE  buckets'[b] >= 0 /\ (buckets'[b] = 0 => vatBy'[b] = 0)
    <3>1. net >= 0 /\ (net = 0 => vat = 0)
      BY <1>3, <2>2, LineKeepsSign
    <3>2. buckets[b] >= 0 /\ (buckets[b] = 0 => vatBy[b] = 0)
      BY <1>1, <2>2 DEF NoVatLeftOut
    <3>3. buckets[b] \in Int /\ vatBy[b] \in Int
      BY <1>1, <2>2 DEF TypeOK
    <3> HIDE DEF net, vat, code
    <3>4. CASE b = code
      BY <1>3, <3>1, <3>2, <3>3, <3>4
    <3>5. CASE b # code
      BY <1>3, <3>2, <3>5
    <3> QED BY <3>4, <3>5
  <2> QED BY <1>2, <2>1, <2>2 DEF NoVatLeftOut
<1>11. IsWritten'
  BY <1>2 DEF IsWritten
<1> QED BY <1>5, <1>8, <1>9, <1>10, <1>11 DEF IInv

LEMMA EmitIInv == ASSUME IInv, Emit PROVE IInv'
<1>1. TypeOK /\ NetsAdded /\ GrossSoFar /\ NoVatLeftOut
  BY DEF IInv
<1>2. UNCHANGED <<lines, k, buckets, vatBy>> /\ outcome' = "ok" /\ k = Len(lines)
  BY DEF Emit
<1>3. fields' = Written
  BY DEF Emit, Written
<1>4. TypeOK'
  <2>1. /\ Written.total \in Int /\ DOMAIN Written.net = Printed
        /\ DOMAIN Written.vat = Printed \ {"zw"} /\ Printed \subseteq Buckets
    BY <1>1, TotalTypes DEF Written, Printed
  <2> QED BY <1>1, <1>2, <1>3, <2>1 DEF TypeOK
<1>5. /\ Nets' = Nets /\ Exact' = Exact /\ Written' = Written /\ Total' = Total
      /\ SumFunction(buckets)' = SumFunction(buckets)
  BY <1>2 DEF Nets, Exact, Written, Total, Printed
<1> QED BY <1>1, <1>2, <1>3, <1>4, <1>5
        DEF IInv, NetsAdded, GrossSoFar, NoVatLeftOut, IsWritten

LEMMA OtherIInv == ASSUME IInv, Reject \/ UNCHANGED vars PROVE IInv'
<1>1. UNCHANGED <<lines, k, buckets, vatBy, fields>> /\ outcome' \in {outcome, "value_error"}
  BY DEF Reject, vars
<1>2. /\ Nets' = Nets /\ Exact' = Exact /\ Written' = Written /\ Total' = Total
      /\ SumFunction(buckets)' = SumFunction(buckets)
  BY <1>1 DEF Nets, Exact, Written, Total, Printed
<1>3. TypeOK' /\ NoVatLeftOut'
  BY <1>1 DEF IInv, TypeOK, NoVatLeftOut
<1> QED BY <1>1, <1>2, <1>3 DEF IInv, NetsAdded, GrossSoFar, IsWritten

THEOREM Invariant == Spec => []IInv
<1>1. IInv /\ [Next]_vars => IInv'
  BY AddLineIInv, EmitIInv, OtherIInv DEF Next
<1> QED BY InitIInv, <1>1, PTL DEF Spec

\* The state of build_fa3's loop keeps its types, whatever the lines
\* (fa3.py:135-160).
THEOREM TypeCorrect == Spec => []TypeOK
<1>1. IInv => TypeOK
  BY DEF IInv
<1> QED BY Invariant, <1>1, PTL

\* What a document says adds up to what its lines say, for every number of lines:
\* buckets left out hold nothing (fa3.py:139-160, 186).
THEOREM DocumentAddsUpHolds == Spec => []DocumentAddsUp
<1>1. ASSUME IInv, outcome = "ok" PROVE DocumentAddsUp
  <2>1. TypeOK /\ NetsAdded /\ NoVatLeftOut /\ k = Len(lines) /\ fields = Written
    BY <1>1 DEF IInv, IsWritten
  <2>2. /\ DOMAIN buckets = Buckets /\ \A b \in Buckets : buckets[b] \in Int
        /\ DOMAIN vatBy = Buckets /\ \A b \in Buckets : vatBy[b] \in Int
        /\ Printed \subseteq Buckets /\ DOMAIN lines = 1 .. Len(lines)
    BY <2>1 DEF TypeOK, Printed
  <2>3. SumFunction(fields.net) = SumFunction(buckets)
    <3>1. DOMAIN fields.net = Printed /\ \A b \in Printed : fields.net[b] = buckets[b]
      BY <2>1 DEF Written
    <3>2. IsFiniteSet(Printed)
      BY <2>2, BucketsFinite, FS_Subset
    <3>3. SumFunctionOnSet(buckets, Buckets) = SumFunctionOnSet(buckets, Printed)
      BY <2>2, BucketsFinite, SumDropsZeros DEF Printed
    <3>4. SumFunctionOnSet(fields.net, Printed) = SumFunctionOnSet(buckets, Printed)
      BY <3>1, <3>2, SumSame
    <3> QED BY <2>2, <3>1, <3>3, <3>4 DEF SumFunction
  <2>4. SumFunction(buckets) = SumFunction(Nets)
    BY <2>1, <2>2 DEF NetsAdded, SumFunction, Nets
  <2>5. ASSUME \A i \in DOMAIN lines : lines[i].amount >= 0
        PROVE  SumFunction(fields.vat) = SumFunction(vatBy)
    <3> DEFINE Shown == Printed \ {"zw"}
    <3>1. DOMAIN fields.vat = Shown /\ \A b \in Shown : fields.vat[b] = vatBy[b]
      BY <2>1 DEF Written
    <3>2. IsFiniteSet(Shown) /\ Shown \subseteq Buckets
      BY <2>2, BucketsFinite, FS_Subset
    <3>3. \A b \in Buckets \ Shown : vatBy[b] = 0
      BY <2>1, <2>5 DEF NoVatLeftOut, Printed
    <3> HIDE DEF Shown
    <3>4. SumFunctionOnSet(vatBy, Buckets) = SumFunctionOnSet(vatBy, Shown)
      BY <2>2, <3>2, <3>3, BucketsFinite, SumDropsZeros
    <3>5. SumFunctionOnSet(fields.vat, Shown) = SumFunctionOnSet(vatBy, Shown)
      BY <3>1, <3>2, SumSame
    <3> QED BY <2>2, <3>1, <3>4, <3>5 DEF SumFunction
  <2>6. fields.total = SumFunction(buckets) + SumFunction(vatBy)
    BY <2>1 DEF Written, Total
  <2> QED BY <2>3, <2>4, <2>5, <2>6 DEF DocumentAddsUp, Nets
<1>2. IInv => DocumentAddsUp
  BY <1>1 DEF DocumentAddsUp
<1> QED BY Invariant, <1>2, PTL

\* The gross written is within 1.115 grosze a line of total_gross, for every
\* number of lines, every amount and every fineness of the amounts
\* (fa3.py:57-74, 139-160).
THEOREM GrossIsCloseHolds == Spec => []GrossIsClose
<1>1. ASSUME IInv, outcome = "ok" PROVE GrossIsClose
  <2>1. GrossSoFar /\ k = Len(lines) /\ fields.total = Total /\ DOMAIN lines = 1 .. Len(lines)
    BY <1>1 DEF IInv, IsWritten, Written, TypeOK
  <2>2. ExactGross = SumFunctionOnSet(Exact, 1 .. k)
    BY <2>1 DEF ExactGross, Exact, RateOf, SumFunction
  <2> QED BY <2>1, <2>2 DEF GrossSoFar, GrossIsClose
<1>2. IInv => GrossIsClose
  BY <1>1 DEF GrossIsClose
<1> QED BY Invariant, <1>2, PTL
================================================================================

-------------------------------- MODULE Ints --------------------------------
(* The int of the C build: two's complement of a width that MinInt sets.   *)
EXTENDS Integers

CONSTANT MinInt        \* INT_MIN

MaxInt == -MinInt - 1
Word   == MinInt .. MaxInt

Bool(b) == IF b THEN 1 ELSE 0

\* Signed arithmetic as the build does it: an overflowing result keeps its low
\* bits.  (The C standard leaves it undefined.)
Wrap(x) == ((x - MinInt) % (MaxInt - MinInt + 1)) + MinInt

\* Division in C truncates towards zero.
Magnitude(x) == IF x < 0 THEN -x ELSE x
Quotient(x, y) ==
    IF (x < 0) = (y < 0) THEN Magnitude(x) \div Magnitude(y)
                         ELSE -(Magnitude(x) \div Magnitude(y))

\* The operations on two integers, by the names that the MIR has for them.
Apply(op, x, y) ==
    CASE op = "add" -> Wrap(x + y)
      [] op = "sub" -> Wrap(x - y)
      [] op = "mul" -> Wrap(x * y)
      [] op = "div" -> Wrap(Quotient(x, y))
      [] op = "eq"  -> Bool(x = y)
      [] op = "ne"  -> Bool(x # y)
      [] op = "lt"  -> Bool(x < y)
      [] op = "le"  -> Bool(x <= y)
      [] op = "gt"  -> Bool(x > y)
      [] op = "ge"  -> Bool(x >= y)

Operators == {"add", "sub", "mul", "div", "eq", "ne", "lt", "le", "gt", "ge"}
=============================================================================

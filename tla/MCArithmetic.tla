---------------------------- MODULE MCArithmetic ----------------------------
(***************************************************************************)
(* The helpers of Arithmetic checked against floor and ceiling division on *)
(* every pair of boundary operands.  The state is the operand pair under   *)
(* test, chosen in the initial state of the run that includes it.         *)
(***************************************************************************)
EXTENDS Integers, Arithmetic

VARIABLE pair   \* <<x, y>>: the dividend and divisor under test

\* Zero, units, small values either side of a multiple, and the int limits.
Operands == {IntMin, IntMin + 1, -13, -10, -5, -1, 0, 1, 5, 10, 13, IntMax - 1, IntMax}

\* The reference: the q with q <= x / y < q + 1, and r = x - q * y.
FloorDiv(a, b) == a \div b
FloorMod(a, b) ==
  CASE b > 0      -> a % b
    [] b = IntMin -> IF a \in {0, IntMin} THEN 0 ELSE IF a > 0 THEN a + IntMin ELSE a
    [] OTHER      -> IF a % (-b) = 0 THEN 0 ELSE (a % (-b)) + b
CeilDiv(a, b) == IF FloorMod(a, b) = 0 THEN a \div b ELSE (a \div b) + 1

\* The operand pairs C defines a quotient for.
Defined == {p \in Operands \X Operands : ~Undefined(p[1], p[2])}

\* CD_Div and CD_Floor round toward negative infinity for every operand
\* pair C defines, whatever the signs.
DivIsFloor ==
  LET x == pair[1]  y == pair[2]
  IN  CDDiv(x, y) = FloorDiv(x, y) /\ CDFloor(x, y) = FloorDiv(x, y)

\* CD_Mod is the remainder of that division: zero or of the divisor's sign.
ModIsFloorRemainder == CDMod(pair[1], pair[2]) = FloorMod(pair[1], pair[2])

\* CD_Ceiling rounds toward positive infinity.
CeilingIsCeiling == CDCeiling(pair[1], pair[2]) = CeilDiv(pair[1], pair[2])

=============================================================================

----------------------------- MODULE Arithmetic -----------------------------
(***************************************************************************)
(* The integer helpers of src/include/craftd/Arithmetic.h over 32-bit int. *)
(*                                                                         *)
(* C's / truncates toward zero and % takes the sign of the dividend (C99). *)
(* x / 0, x % 0, INT_MIN / -1 and INT_MIN % -1 are undefined; on x86 they  *)
(* raise SIGFPE.  An operator's result is Trap in those cases.             *)
(***************************************************************************)
EXTENDS Integers

IntMin == -2147483647 - 1
IntMax == 2147483647

\* The outcome of an operation the hardware refuses.
Trap == "SIGFPE"

\* x / y and x % y of C on int operands.
Undefined(x, y) == y = 0 \/ (x = IntMin /\ y = -1)

\* Whether y divides x (without computing a product that could overflow).
Divides(y, x) ==
  IF y = IntMin THEN x \in {0, IntMin} ELSE x % (IF y < 0 THEN -y ELSE y) = 0

CQuot(x, y) ==
  IF Undefined(x, y) THEN Trap
  ELSE IF ~Divides(y, x) /\ (x < 0) # (y < 0) THEN (x \div y) + 1 ELSE x \div y

CRem(x, y) == IF Undefined(x, y) THEN Trap ELSE x - y * CQuot(x, y)

\* CD_Max and CD_Min.
CDMax(x, y) == IF x > y THEN x ELSE y
CDMin(x, y) == IF x > y THEN y ELSE x

\* Whether C division truncates toward zero (-13 / 5 == -2), as C99 requires.
TruncatingDivision == CQuot(-13, 5) = -2

\* Mutation of CD_Div: the correction applied whatever the signs.
CDDivAnySign(x, y) ==
  IF Undefined(x, y) THEN Trap
  ELSE IF TruncatingDivision /\ CRem(x, y) # 0 THEN CQuot(x, y) - 1 ELSE CQuot(x, y)

\* CD_Div: one less than C's quotient when the signs differ and the
\* division is inexact.
CDDiv(x, y) ==
  IF Undefined(x, y) THEN Trap
  ELSE IF TruncatingDivision /\ (x < 0) # (y < 0) /\ CRem(x, y) # 0
       THEN CQuot(x, y) - 1
       ELSE CQuot(x, y)

\* Mutation of CD_Mod: the divisor added back when the signs agree.
CDModSameSign(x, y) ==
  IF Undefined(x, y) THEN Trap
  ELSE IF TruncatingDivision /\ (x < 0) = (y < 0) /\ CRem(x, y) # 0
       THEN CRem(x, y) + y
       ELSE CRem(x, y)

\* CD_Mod: C's remainder plus y when the signs differ and it is not zero.
CDMod(x, y) ==
  IF Undefined(x, y) THEN Trap
  ELSE IF TruncatingDivision /\ (x < 0) # (y < 0) /\ CRem(x, y) # 0
       THEN CRem(x, y) + y
       ELSE CRem(x, y)

\* CD_Floor.
CDFloor(x, y) == CDDiv(x, y)

\* Mutation of CD_Ceiling: one added whatever the remainder.
CDCeilingAlwaysUp(x, y) == IF Undefined(x, y) THEN Trap ELSE CDDiv(x, y) + 1

\* CD_Ceiling: CD_Div plus one when x % y is not zero.
CDCeiling(x, y) ==
  IF Undefined(x, y) THEN Trap
  ELSE CDDiv(x, y) + (IF CRem(x, y) # 0 THEN 1 ELSE 0)

=============================================================================

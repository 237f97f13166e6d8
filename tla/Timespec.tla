------------------------------- MODULE Timespec -------------------------------
(***************************************************************************)
(* timespec.c: arithmetic on seconds and nanoseconds, here with Nsec        *)
(* nanoseconds to the second, a thousandth of which is Usec and Msec: the   *)
(* algorithms do not depend on the number.  The seconds stay far from the   *)
(* limits of a long, except in timespec_mod, whose loop is bounded by       *)
(* SecMax and is given dividends and divisors up to it.                     *)
(***************************************************************************)
EXTENDS Integers

CONSTANTS Nsec,            \* NSEC_PER_SEC
          PerMs,           \* nanoseconds of a millisecond (and of a microsecond)
          SecMax           \* LONG_MAX

Ts(sec, nsec) == [sec |-> sec, nsec |-> nsec]
ValueOf(ts) == (ts.sec * Nsec) + ts.nsec

\* C's division and remainder truncate towards zero.
Quotient(a, b) == IF a < 0 THEN -((-a) \div b) ELSE a \div b
Remainder(a, b) == a - (b * Quotient(a, b))

RECURSIVE Normalise(_)
Normalise(ts) ==
    IF ts.nsec >= Nsec THEN Normalise(Ts(ts.sec + 1, ts.nsec - Nsec))
    ELSE IF ts.nsec <= -Nsec THEN Normalise(Ts(ts.sec - 1, ts.nsec + Nsec))
    ELSE IF ts.nsec < 0 THEN Ts(ts.sec - 1, Nsec + ts.nsec)
    ELSE ts

Add(a, b) ==
    LET x == Normalise(a)
        y == Normalise(b) IN Normalise(Ts(x.sec + y.sec, x.nsec + y.nsec))
Sub(a, b) ==
    LET x == Normalise(a)
        y == Normalise(b) IN Normalise(Ts(x.sec - y.sec, x.nsec - y.nsec))

Cmp(a, b) ==
    LET x == Normalise(a)
        y == Normalise(b)
    IN IF x = y THEN 0
       ELSE IF x.sec > y.sec \/ (x.sec = y.sec /\ x.nsec > y.nsec) THEN 1 ELSE -1
Eq(a, b) == Normalise(a) = Normalise(b)
Gt(a, b) ==
    LET x == Normalise(a)
        y == Normalise(b) IN x.sec > y.sec \/ (x.sec = y.sec /\ x.nsec > y.nsec)
Ge(a, b) ==
    LET x == Normalise(a)
        y == Normalise(b) IN x.sec > y.sec \/ (x.sec = y.sec /\ x.nsec >= y.nsec)
Lt(a, b) ==
    LET x == Normalise(a)
        y == Normalise(b) IN x.sec < y.sec \/ (x.sec = y.sec /\ x.nsec < y.nsec)
Le(a, b) ==
    LET x == Normalise(a)
        y == Normalise(b) IN x.sec < y.sec \/ (x.sec = y.sec /\ x.nsec <= y.nsec)

TsMin(a, b) == IF Le(a, b) THEN a ELSE b
TsMax(a, b) == IF Ge(a, b) THEN a ELSE b
Clamp(ts, lo, hi) == IF Gt(ts, hi) THEN hi ELSE IF Lt(ts, lo) THEN lo ELSE ts

-------------------------------------------------------------------------------
\* The divisor is doubled until it exceeds the dividend, ...
RECURSIVE ShiftUp(_, _, _)
ShiftUp(a, b, i) ==
    IF b.sec < SecMax \div 2 /\ Ge(a, b)
    THEN LET carry == 2 * b.nsec > Nsec
         IN ShiftUp(a, Ts((2 * b.sec) + (IF carry THEN 1 ELSE 0),
                          (2 * b.nsec) - (IF carry THEN Nsec ELSE 0)), i + 1)
    ELSE [b |-> b, i |-> i]
\* ... and subtracted while it is halved again.
RECURSIVE Subtract(_, _, _)
Subtract(a, b, i) ==
    LET r == IF Ge(a, b) THEN Sub(a, b) ELSE a
    IN IF i = 0 THEN [a |-> r, b |-> b]
       ELSE Subtract(r, Ts(b.sec \div 2,
                           (b.nsec + (IF b.sec % 2 = 1 THEN Nsec ELSE 0)) \div 2), i - 1)
Negative(ts) == ts.sec < 0 \/ ts.nsec < 0
Flip(ts, yes) == IF yes THEN Ts(-ts.sec, -ts.nsec) ELSE ts

\* Mutant: the remainder has the sign of the dividend.
ModTruncated(a, b) ==
    LET x == Normalise(a)
        y == Normalise(b)
        up == ShiftUp(Flip(x, Negative(x)), Flip(y, Negative(y)), 0)
        r == Subtract(Flip(x, Negative(x)), up.b, up.i)
    IN IF y = Ts(0, 0) THEN x ELSE Flip(r.a, Negative(x))

Mod(a, b) ==
    LET x == Normalise(a)
        y == Normalise(b)
        up == ShiftUp(Flip(x, Negative(x)), Flip(y, Negative(y)), 0)
        r == Subtract(Flip(x, Negative(x)), up.b, up.i)
        rest == IF Negative(x) # Negative(y) /\ r.a # Ts(0, 0) THEN Sub(r.a, r.b) ELSE r.a
    IN IF y = Ts(0, 0) THEN x ELSE Flip(rest, Negative(x))

-------------------------------------------------------------------------------
FromMs(ms) == Normalise(Ts(Quotient(ms, Nsec \div PerMs), Remainder(ms, Nsec \div PerMs) * PerMs))
ToMs(ts) == (ts.sec * (Nsec \div PerMs)) + Quotient(ts.nsec, PerMs)
FromTimeval(tv) == Normalise(Ts(tv.sec, tv.usec * PerMs))
ToTimeval(ts) ==
    LET x == Normalise(ts) IN [sec |-> x.sec, usec |-> Quotient(x.nsec, PerMs)]
\* A double is a number of nanoseconds here; the conversion to seconds truncates.
FromDouble(d) == Normalise(Ts(Quotient(d, Nsec), d - (Nsec * Quotient(d, Nsec))))
ToDouble(ts) == (ts.sec * Nsec) + ts.nsec

-------------------------------------------------------------------------------
IsNormal(ts) == ts.nsec \in 0..(Nsec - 1)
SignOf(n) == IF n > 0 THEN 1 ELSE IF n < 0 THEN -1 ELSE 0
\* The remainder that has the sign of the divisor.
FloorMod(n, d) ==
    IF d = 0 THEN n ELSE IF d > 0 THEN n % d ELSE -((-n) % (-d))

\* Whatever the nanoseconds of the operands are, negative or more than a second,
\* the functions compute on the times they stand for; sums, differences and what
\* the conversions build are in the form POSIX requires.
TimesAreNumbers(a, b) ==
    LET x == ValueOf(a)
        y == ValueOf(b)
    IN /\ IsNormal(Normalise(a)) /\ ValueOf(Normalise(a)) = x
       /\ IsNormal(Add(a, b)) /\ ValueOf(Add(a, b)) = x + y
       /\ IsNormal(Sub(a, b)) /\ ValueOf(Sub(a, b)) = x - y
       /\ Cmp(a, b) = SignOf(x - y) /\ (Eq(a, b) <=> x = y)
       /\ (Gt(a, b) <=> x > y) /\ (Ge(a, b) <=> x >= y)
       /\ (Lt(a, b) <=> x < y) /\ (Le(a, b) <=> x <= y)
       /\ ValueOf(TsMin(a, b)) = (IF x < y THEN x ELSE y)
       /\ ValueOf(TsMax(a, b)) = (IF x < y THEN y ELSE x)
       /\ \A c \in {a, b, Ts(0, 1)} :
             x <= y => ValueOf(Clamp(c, a, b)) \in x..y
       /\ ToDouble(a) = x /\ FromDouble(x) = Normalise(a)
       /\ FromTimeval(ToTimeval(a)) = Ts(Normalise(a).sec, PerMs * (Normalise(a).nsec \div PerMs))
       /\ ToMs(FromMs(x)) = x

AbsOf(n) == IF n < 0 THEN -n ELSE n

\* The loop that doubles the divisor stops when its seconds reach half of LONG_MAX.
\* It has done enough if the dividend is smaller than what the divisor is then;
\* the seconds of a flipped divisor are rounded up.
StopsInTime(x, y) ==
    y = 0 \/ AbsOf(x) * (1 + (AbsOf(y) \div Nsec)) < (SecMax \div 2) * AbsOf(y)

\* timespec_mod is the remainder with the sign of the divisor, for every sign of
\* the operands, as long as its guard against overflow stops in time.  Its
\* nanoseconds are less than a second; they may be negative if the dividend is,
\* and only then.
ModIsRemainder(a, b) ==
    LET x == ValueOf(a)
        y == ValueOf(b)
        m == Mod(a, b)
    IN /\ StopsInTime(x, y) => ValueOf(m) = FloorMod(x, y) /\ AbsOf(m.nsec) < Nsec
       /\ StopsInTime(x, y) /\ x >= 0 => IsNormal(m)
===============================================================================

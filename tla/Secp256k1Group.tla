--------------------------- MODULE Secp256k1Group ---------------------------
(***************************************************************************)
(* The group arithmetic of libsecp256k1-zkp (group_impl.h) on the curve    *)
(* y^2 = x^3 + 7.  A ge is an affine point [x, y, inf]; a gej a Jacobian   *)
(* point [x, y, z, inf] standing for (x / z^2, y / z^3).  The field type   *)
(* secp256k1_fe_t (field.h, not part of this repository) is abstracted as  *)
(* the integers modulo a prime P that shares the properties the group code *)
(* relies on: P = 3 mod 4 (the square root is a power), P = 1 mod 3 (beta, *)
(* a cube root of unity, exists), -7 has no cube root (no point has y = 0) *)
(* and the group has prime order.  Field values are kept normalized, so    *)
(* the magnitude bookkeeping of normalize_weak and negate is the identity  *)
(* modulo P.                                                               *)
(*                                                                         *)
(* The functions update their output r in place; the calls modelled are   *)
(* those of ecmult, where r is the accumulator a, so a field the code does *)
(* not assign keeps a's value.                                             *)
(***************************************************************************)
EXTENDS Naturals, Sequences, SequencesExt

CONSTANTS
    P,          \* the field prime
    Beta,       \* the cube root of unity of ge_mul_lambda
    Gen,        \* secp256k1_ge_const_g, the generator
    Order       \* the number of points, infinity included (prime)

(***************************************************************************)
(* The field, as modular arithmetic                                        *)
(***************************************************************************)
FeAdd(a, b) == (a + b) % P
FeMul(a, b) == (a * b) % P
FeSqr(a) == (a * a) % P
FeNeg(a) == (P - a) % P
FeMulInt(a, n) == (a * n) % P
FeIsOdd(a) == a % 2 = 1

RECURSIVE FePow(_, _)
FePow(a, e) ==
    IF e = 0 THEN 1
    ELSE LET h == FeSqr(FePow(a, e \div 2))
         IN  IF e % 2 = 0 THEN h ELSE FeMul(h, a)

\* fe_inv and fe_inv_var: a^(P-2), which is 0 for 0.
InvTable == [a \in 0..P - 1 |-> FePow(a, P - 2)]
FeInv(a) == InvTable[a]

\* fe_sqrt_var: a^((P+1)/4), and whether its square is a.
FeSqrtVar(a) ==
    LET r == FePow(a, (P + 1) \div 4) IN [ok |-> FeSqr(r) = a, r |-> r]

Ge == [x: 0..P - 1, y: 0..P - 1, inf: BOOLEAN]
Gej == [x: 0..P - 1, y: 0..P - 1, z: 0..P - 1, inf: BOOLEAN]

(***************************************************************************)
(* Affine points                                                           *)
(***************************************************************************)

\* ge_set_gej_zinv: the affine point of a, given zi = 1 / a.z.
GeSetGejZinv(a, zi) ==
    LET zi2 == FeSqr(zi)
        zi3 == FeMul(zi2, zi)
    IN  [x |-> FeMul(a.x, zi2), y |-> FeMul(a.y, zi3), inf |-> a.inf]

\* ge_set_infinity sets the flag only; x and y are not read for such a point.
GeInfinity == [x |-> 0, y |-> 0, inf |-> TRUE]

GeSetXY(x, y) == [x |-> x, y |-> y, inf |-> FALSE]

\* ge_neg: y normalized, then negated.
GeNeg(a) == [a EXCEPT !.y = FeNeg(@)]

\* ge_set_gej: r, and a rescaled in place to z = 1.  The inversion runs
\* for an infinite a too (fe_inv of 0 is 0).
GeSetGej(a) ==
    LET zi == FeInv(a.z)
        z2 == FeSqr(zi)
        z3 == FeMul(zi, z2)
        x == FeMul(a.x, z2)
        y == FeMul(a.y, z3)
    IN  [r |-> [x |-> x, y |-> y, inf |-> a.inf],
         a |-> [x |-> x, y |-> y, z |-> 1, inf |-> a.inf]]

\* ge_set_gej_var: as ge_set_gej, but returns at once for infinity.
GeSetGejVar(a) ==
    IF a.inf THEN [r |-> GeInfinity, a |-> a] ELSE GeSetGej(a)

\* ge_set_all_gej_var: one batch inversion (fe_inv_all_var) of the z of the
\* finite points, collected in order; the count-th inverse goes to the
\* count-th finite point.
GeSetAllGejVar(a) ==
    LET az == SelectSeq(a, LAMBDA g : ~g.inf)
        azi == [j \in 1..Len(az) |-> FeInv(az[j].z)]
        count(i) == Len(SelectSeq(SubSeq(a, 1, i), LAMBDA g : ~g.inf))
    IN  [i \in 1..Len(a) |->
            IF a[i].inf THEN GeInfinity ELSE GeSetGejZinv(a[i], azi[count(i)])]

\* Mutant: the ratio of the entry itself is used, not that of the next one.
RECURSIVE MutTableZi(_, _, _)
MutTableZi(a, zr, j) ==
    IF j = Len(a) THEN FeInv(a[j].z) ELSE FeMul(MutTableZi(a, zr, j + 1), zr[j])

\* The z inverse ge_set_table_gej_var holds at entry j: the last z
\* inverted, then multiplied by the ratios zr[j+1], ..., zr[len], where
\* a[i].z = a[i-1].z * zr[i].
RECURSIVE TableZi(_, _, _)
TableZi(a, zr, j) ==
    IF j = Len(a) THEN FeInv(a[j].z) ELSE FeMul(TableZi(a, zr, j + 1), zr[j + 1])

GeSetTableGejVar(a, zr) == [j \in 1..Len(a) |-> GeSetGejZinv(a[j], TableZi(a, zr, j))]

\* The scale ge_globalz_set_table_gej applies at entry j < len: the product
\* of the ratios after it, without inverting anything.
RECURSIVE GlobalZs(_, _)
GlobalZs(zr, j) ==
    IF j = Len(zr) - 1 THEN zr[Len(zr)] ELSE FeMul(GlobalZs(zr, j + 1), zr[j + 1])

\* ge_globalz_set_table_gej (len >= 1): every entry brought to the z of the
\* last one, which is returned as globalz.
GeGlobalzSetTableGej(a, zr) ==
    [r |-> [j \in 1..Len(a) |->
               IF j = Len(a) THEN [x |-> a[j].x, y |-> a[j].y, inf |-> FALSE]
               ELSE GeSetGejZinv(a[j], GlobalZs(zr, j))],
     globalz |-> a[Len(a)].z]

\* Mutant: the square root is negated when its parity already matches.
MutGeSetXoVar(x, odd) ==
    LET c == FeAdd(7, FeMul(x, FeSqr(x)))
        s == FeSqrtVar(c)
        y == IF FeIsOdd(s.r) = odd THEN FeNeg(s.r) ELSE s.r
    IN  IF ~s.ok THEN [ok |-> FALSE, r |-> [x |-> x, y |-> s.r, inf |-> FALSE]]
        ELSE [ok |-> TRUE, r |-> [x |-> x, y |-> y, inf |-> FALSE]]

\* ge_set_xo_var: the point of abscissa x whose y has the parity odd; fails
\* when x^3 + 7 has no square root (r.y then holds what fe_sqrt_var left).
GeSetXoVar(x, odd) ==
    LET c == FeAdd(7, FeMul(x, FeSqr(x)))
        s == FeSqrtVar(c)
        y == IF FeIsOdd(s.r) # odd THEN FeNeg(s.r) ELSE s.r
    IN  IF ~s.ok THEN [ok |-> FALSE, r |-> [x |-> x, y |-> s.r, inf |-> FALSE]]
        ELSE [ok |-> TRUE, r |-> [x |-> x, y |-> y, inf |-> FALSE]]

\* ge_is_valid_var: y^2 = x^3 + 7, and false for infinity.
GeIsValidVar(a) == ~a.inf /\ FeSqr(a.y) = FeAdd(FeMul(FeSqr(a.x), a.x), 7)

\* ge_to_storage and ge_from_storage: x and y normalized and packed; the
\* flag is not stored, and a point read back is finite.
GeToStorage(a) == [x |-> a.x, y |-> a.y]
GeFromStorage(s) == [x |-> s.x, y |-> s.y, inf |-> FALSE]

\* ge_storage_cmov: r replaced by a when flag is set.
GeStorageCmov(r, a, flag) == IF flag THEN a ELSE r

\* ge_mul_lambda: x multiplied by beta.
GeMulLambda(a) == [a EXCEPT !.x = FeMul(@, Beta)]

(***************************************************************************)
(* Jacobian points                                                         *)
(***************************************************************************)

\* gej_set_infinity
GejSetInfinity == [x |-> 0, y |-> 0, z |-> 0, inf |-> TRUE]

\* gej_set_xy
GejSetXY(x, y) == [x |-> x, y |-> y, z |-> 1, inf |-> FALSE]

\* gej_set_ge
GejSetGe(a) == [x |-> a.x, y |-> a.y, z |-> 1, inf |-> a.inf]

\* gej_eq_x_var: x * z^2 = X (a is finite).
GejEqXVar(x, a) == FeMul(FeSqr(a.z), x) = a.x

\* gej_neg: y normalized, then negated.
GejNeg(a) == [a EXCEPT !.y = FeNeg(@)]

\* gej_is_valid_var: Y^2 = X^3 + 7 Z^6, and false for infinity.
GejIsValidVar(a) ==
    LET z2 == FeSqr(a.z)
        z6 == FeMul(FeSqr(z2), z2)
    IN  ~a.inf /\ FeSqr(a.y) = FeAdd(FeMul(FeSqr(a.x), a.x), FeMulInt(z6, 7))

\* The rzr a caller must not ask for (VERIFY_CHECK(rzr == NULL)).
NoRzr == P

\* gej_double_var: r and the z ratio rzr = r.z / a.z.  Infinity doubles to
\* infinity and nothing else does, as no point has y = 0.
GejDoubleVar(a) ==
    IF a.inf THEN [r |-> a, rzr |-> 1]
    ELSE LET t1 == FeMulInt(FeSqr(a.x), 3)                  \* 3 X^2
             t2 == FeSqr(t1)                                \* 9 X^4
             t3 == FeMulInt(FeSqr(a.y), 2)                  \* 2 Y^2
             t4 == FeMulInt(FeSqr(t3), 2)                   \* 8 Y^4
             xy2 == FeMul(t3, a.x)                          \* 2 X Y^2
             x == FeAdd(FeNeg(FeMulInt(xy2, 4)), t2)        \* 9 X^4 - 8 X Y^2
             t5 == FeAdd(FeMulInt(xy2, 6), FeNeg(t2))       \* 12 X Y^2 - 9 X^4
             y == FeAdd(FeMul(t1, t5), FeNeg(t4))
         IN  [r |-> [x |-> x, y |-> y, z |-> FeMulInt(FeMul(a.z, a.y), 2), inf |-> FALSE],
              rzr |-> FeMulInt(a.y, 2)]

\* The common tail of the three variable-time additions: with
\* H = U2 - U1 and I = S2 - S1, X3 = I^2 - H^3 - 2 U1 H^2 and
\* Y3 = I (U1 H^2 - X3) - S1 H^3; z is computed by the caller.
AddTail(u1, s1, h, i, z) ==
    LET h2 == FeSqr(h)
        h3 == FeMul(h, h2)
        t == FeMul(u1, h2)
        x == FeAdd(FeNeg(FeAdd(FeMulInt(t, 2), h3)), FeSqr(i))
        y == FeAdd(FeMul(FeAdd(FeNeg(x), t), i), FeNeg(FeMul(h3, s1)))
    IN  [x |-> x, y |-> y, z |-> z, inf |-> FALSE]

\* The branch on H = 0 shared by the additions: equal points are doubled
\* (d), opposite points give infinity with the other fields of r left as
\* they were (rzr 0).
SameX(a, i, d) ==
    IF i = 0 THEN d ELSE [r |-> [a EXCEPT !.inf = TRUE], rzr |-> 0]

\* Mutant: the doubling case is missed, a + a comes out as infinity.
MutGejAddVar(a, b) ==
    IF a.inf THEN [r |-> b, rzr |-> NoRzr]
    ELSE IF b.inf THEN [r |-> a, rzr |-> 1]
    ELSE LET z22 == FeSqr(b.z)
             z12 == FeSqr(a.z)
             u1 == FeMul(a.x, z22)
             s1 == FeMul(FeMul(a.y, z22), b.z)
             h == FeAdd(FeNeg(u1), FeMul(b.x, z12))
             i == FeAdd(FeNeg(s1), FeMul(FeMul(b.y, z12), a.z))
         IN  IF h = 0 THEN [r |-> [a EXCEPT !.inf = TRUE], rzr |-> 0]
             ELSE [r |-> AddTail(u1, s1, h, i, FeMul(a.z, FeMul(h, b.z))),
                   rzr |-> FeMul(h, b.z)]

\* gej_add_var: a + b for Jacobian a and b, and rzr = r.z / a.z.
GejAddVar(a, b) ==
    IF a.inf THEN [r |-> b, rzr |-> NoRzr]
    ELSE IF b.inf THEN [r |-> a, rzr |-> 1]
    ELSE LET z22 == FeSqr(b.z)
             z12 == FeSqr(a.z)
             u1 == FeMul(a.x, z22)
             s1 == FeMul(FeMul(a.y, z22), b.z)
             h == FeAdd(FeNeg(u1), FeMul(b.x, z12))
             i == FeAdd(FeNeg(s1), FeMul(FeMul(b.y, z12), a.z))
         IN  IF h = 0 THEN SameX(a, i, GejDoubleVar(a))
             ELSE [r |-> AddTail(u1, s1, h, i, FeMul(a.z, FeMul(h, b.z))),
                   rzr |-> FeMul(h, b.z)]

\* gej_add_ge_var: a + b for an affine b, and rzr = r.z / a.z.
GejAddGeVar(a, b) ==
    IF a.inf THEN [r |-> GejSetGe(b), rzr |-> NoRzr]
    ELSE IF b.inf THEN [r |-> a, rzr |-> 1]
    ELSE LET z12 == FeSqr(a.z)
             h == FeAdd(FeNeg(a.x), FeMul(b.x, z12))
             i == FeAdd(FeNeg(a.y), FeMul(FeMul(b.y, z12), a.z))
         IN  IF h = 0 THEN SameX(a, i, GejDoubleVar(a))
             ELSE [r |-> AddTail(a.x, a.y, h, i, FeMul(a.z, h)), rzr |-> h]

\* gej_add_zinv_var: a + b', where b' is the Jacobian point (b.x, b.y,
\* 1 / bzinv).  a's z is scaled by bzinv for x and y but not for r.z.
GejAddZinvVar(a, b, bzinv) ==
    IF b.inf THEN a
    ELSE IF a.inf
    THEN LET bzinv2 == FeSqr(bzinv)
         IN  [x |-> FeMul(b.x, bzinv2), y |-> FeMul(b.y, FeMul(bzinv2, bzinv)),
              z |-> 1, inf |-> b.inf]
    ELSE LET az == FeMul(a.z, bzinv)
             z12 == FeSqr(az)
             h == FeAdd(FeNeg(a.x), FeMul(b.x, z12))
             i == FeAdd(FeNeg(a.y), FeMul(FeMul(b.y, z12), az))
         IN  IF h = 0 THEN SameX(a, i, GejDoubleVar(a)).r
             ELSE AddTail(a.x, a.y, h, i, FeMul(a.z, h))

\* Mutant: the cmov of z is missing, so infinity + b has z = 0.
MutGejAddGe(a, b) ==
    LET ai == IF a.inf THEN 1 ELSE 0
        zz == FeSqr(a.z)
        u1 == a.x
        u2 == FeMul(b.x, zz)
        s1 == a.y
        s2 == FeMul(FeMul(b.y, zz), a.z)
        t == FeAdd(u1, u2)
        m == FeAdd(s1, s2)
        q == FeMul(FeSqr(m), t)
        rr == FeAdd(FeSqr(t), FeNeg(FeMul(u1, u2)))
        mz == FeMul(m, a.z)
        x == FeAdd(FeSqr(rr), FeNeg(q))
        y == FeNeg(FeAdd(FeMul(FeAdd(FeMulInt(FeSqr(rr), 2), FeMulInt(FeNeg(q), 3)), rr),
                         FeSqr(FeSqr(m))))
    IN  [x |-> IF ai = 1 THEN b.x ELSE FeMulInt(x, 4 * (1 - ai)),
         y |-> IF ai = 1 THEN b.y ELSE FeMulInt(y, 4 * (1 - ai)),
         z |-> FeMulInt(mz, 2 * (1 - ai)),
         inf |-> mz = 0 /\ ai = 0]

\* gej_add_ge, constant time (b finite): the unified formula of Brier and
\* Joye with T = U1 + U2, M = S1 + S2, R = T^2 - U1 U2, Q = T M^2:
\* X3 = 4 (R^2 - Q), Y3 = 4 (R (3Q - 2R^2) - M^4), Z3 = 2 M Z; the result
\* is flagged infinite when M Z = 0, and replaced by b when a is infinite.
GejAddGe(a, b) ==
    LET ai == IF a.inf THEN 1 ELSE 0
        zz == FeSqr(a.z)
        u1 == a.x
        u2 == FeMul(b.x, zz)
        s1 == a.y
        s2 == FeMul(FeMul(b.y, zz), a.z)
        t == FeAdd(u1, u2)
        m == FeAdd(s1, s2)
        q == FeMul(FeSqr(m), t)
        rr == FeAdd(FeSqr(t), FeNeg(FeMul(u1, u2)))
        mz == FeMul(m, a.z)
        x == FeAdd(FeSqr(rr), FeNeg(q))
        y == FeNeg(FeAdd(FeMul(FeAdd(FeMulInt(FeSqr(rr), 2), FeMulInt(FeNeg(q), 3)), rr),
                         FeSqr(FeSqr(m))))
    IN  [x |-> IF ai = 1 THEN b.x ELSE FeMulInt(x, 4 * (1 - ai)),
         y |-> IF ai = 1 THEN b.y ELSE FeMulInt(y, 4 * (1 - ai)),
         z |-> IF ai = 1 THEN 1 ELSE FeMulInt(mz, 2 * (1 - ai)),
         inf |-> mz = 0 /\ ai = 0]

\* gej_rescale (s # 0): x * s^2, y * s^3, z * s.
GejRescale(r, s) ==
    LET zz == FeSqr(s)
    IN  [r EXCEPT !.x = FeMul(@, zz), !.y = FeMul(FeMul(@, zz), s), !.z = FeMul(@, s)]

(***************************************************************************)
(* Reference: the affine group law and the multiples of the generator      *)
(***************************************************************************)

\* The chord-and-tangent sum of two affine points.
RefAdd(p, q) ==
    CASE p.inf -> q
      [] q.inf -> p
      [] p.x = q.x /\ FeAdd(p.y, q.y) = 0 -> GeInfinity
      [] OTHER ->
           LET l == IF p.x = q.x
                    THEN FeMul(FeMulInt(FeSqr(p.x), 3), FeInv(FeMulInt(p.y, 2)))
                    ELSE FeMul(FeAdd(q.y, FeNeg(p.y)), FeInv(FeAdd(q.x, FeNeg(p.x))))
               x3 == FeAdd(FeSqr(l), FeNeg(FeAdd(p.x, q.x)))
           IN  [x |-> x3, y |-> FeAdd(FeMul(l, FeAdd(p.x, FeNeg(x3))), FeNeg(p.y)),
                inf |-> FALSE]

RECURSIVE RefMul(_)
RefMul(n) == IF n = 0 THEN GeInfinity ELSE RefAdd(RefMul(n - 1), Gen)

Scalars == 0..Order - 1

\* Mult[n] = n * Gen.
Mult == [n \in Scalars |-> RefMul(n)]

\* The affine point a Jacobian point stands for.
Affine(g) ==
    IF g.inf THEN GeInfinity
    ELSE LET zi == FeInv(g.z)
         IN  [x |-> FeMul(g.x, FeSqr(zi)), y |-> FeMul(g.y, FeMul(FeSqr(zi), zi)), inf |-> FALSE]

SamePoint(p, q) == (p.inf /\ q.inf) \/ (~p.inf /\ ~q.inf /\ p.x = q.x /\ p.y = q.y)

\* A Jacobian representation of n * Gen with the given z.
JacobianOf(n, z) ==
    IF n = 0 THEN GejSetInfinity
    ELSE [x |-> FeMul(Mult[n].x, FeSqr(z)), y |-> FeMul(Mult[n].y, FeMul(FeSqr(z), z)),
          z |-> z, inf |-> FALSE]

\* The scalar lambda with lambda * Q = (beta x, y) for every point Q.
Lambda == CHOOSE l \in Scalars : Mult[l] = GeMulLambda(Gen)

ASSUME /\ Order \in Nat \ {0, 1} /\ RefMul(Order) = GeInfinity
       /\ \A n \in 1..Order - 1 : ~Mult[n].inf
       /\ GeIsValidVar(Gen) /\ FeMul(Beta, FeSqr(Beta)) = 1 /\ Beta # 1

(***************************************************************************)
(* The accumulator of a scalar multiplication (ecmult), driven through the *)
(* group functions one call at a time, in place.                           *)
(***************************************************************************)

CONSTANTS
    ZValues,    \* z coordinates the operands are given with
    Scales      \* nonzero factors gej_rescale is called with

VARIABLES
    acc,        \* the gej accumulator r
    k           \* history: the scalar acc should be the multiple of

vars == <<acc, k>>

Init == acc = GejSetInfinity /\ k = 0

SetInfinity == acc' = GejSetInfinity /\ k' = 0

SetXY(n) == n # 0 /\ acc' = GejSetXY(Mult[n].x, Mult[n].y) /\ k' = n

SetGe(n) == acc' = GejSetGe(Mult[n]) /\ k' = n

Double == acc' = GejDoubleVar(acc).r /\ k' = (2 * k) % Order

\* ecmult adds with rzr = NULL.
AddVar(n, z) == acc' = GejAddVar(acc, JacobianOf(n, z)).r /\ k' = (k + n) % Order

AddGeVar(n) == acc' = GejAddGeVar(acc, Mult[n]).r /\ k' = (k + n) % Order

\* The operand n * Gen given with z, as ecmult's table under a global z:
\* its x and y as a ge, and 1 / z.
AddZinvVar(n, z) ==
    LET b == JacobianOf(n, z)
    IN  /\ acc' = GejAddZinvVar(acc, [x |-> b.x, y |-> b.y, inf |-> b.inf], FeInv(z))
        /\ k' = (k + n) % Order

Neg == acc' = GejNeg(acc) /\ k' = (Order - k) % Order

Rescale(s) == acc' = GejRescale(acc, s) /\ UNCHANGED k

Next ==
    \/ SetInfinity
    \/ \E n \in Scalars : SetXY(n) \/ SetGe(n) \/ AddGeVar(n)
    \/ \E n \in Scalars, z \in ZValues : AddVar(n, z) \/ AddZinvVar(n, z)
    \/ Double
    \/ Neg
    \/ \E s \in Scales : Rescale(s)

Spec == Init /\ [][Next]_vars

(***************************************************************************)
(* Properties                                                              *)
(***************************************************************************)

\* Whatever sequence of doublings, additions (Jacobian, affine, under a
\* global z), negations and rescalings ecmult applies to its accumulator,
\* in place, it stands for the multiple of the generator the scalar says:
\* the doubling and opposite-point branches, the infinity flag and the
\* coordinates an infinite accumulator keeps from before are all handled.
WalkSound == SamePoint(Affine(acc), Mult[k])

\* The table of acc, acc + G, acc + 2G that ecmult builds with
\* gej_add_ge_var, recording each z ratio.
OddTable ==
    LET s2 == GejAddGeVar(acc, Gen)
        s3 == GejAddGeVar(s2.r, Gen)
    IN  [a |-> <<acc, s2.r, s3.r>>, zr |-> <<1, s2.rzr, s3.rzr>>]

\* Every conversion to affine coordinates gives the point acc stands for:
\* ge_set_gej, ge_set_gej_var (and the z = 1 form they leave in acc),
\* ge_set_all_gej_var with infinite entries among finite ones, and, for a
\* table built with z ratios, ge_set_table_gej_var and the global-z table
\* of ge_globalz_set_table_gej.  gej_is_valid_var and gej_eq_x_var agree.
ConversionsAgree ==
    LET pt == Affine(acc)
        t == OddTable
        all == GeSetAllGejVar(<<GejSetInfinity, acc, GejDoubleVar(acc).r, GejSetInfinity>>)
    IN  /\ SamePoint(GeSetGejVar(acc).r, pt)
        /\ SamePoint(Affine(GeSetGejVar(acc).a), pt)
        /\ ~acc.inf => SamePoint(GeSetGej(acc).r, pt)
        /\ all[1].inf /\ all[4].inf /\ SamePoint(all[2], pt)
        /\ SamePoint(all[3], Affine(GejDoubleVar(acc).r))
        /\ GejIsValidVar(acc) = ~acc.inf
        /\ ~acc.inf => GejEqXVar(pt.x, acc)
        /\ (\A j \in 1..3 : ~t.a[j].inf) =>
              /\ \A j \in 1..3 : SamePoint(GeSetTableGejVar(t.a, t.zr)[j], Affine(t.a[j]))
              /\ LET g == GeGlobalzSetTableGej(t.a, t.zr)
                 IN  \A j \in 1..3 :
                        SamePoint(Affine([x |-> g.r[j].x, y |-> g.r[j].y,
                                          z |-> g.globalz, inf |-> FALSE]),
                                  Affine(t.a[j]))

\* The cube roots of unity that make gej_add_ge's formula divide by zero:
\* a and b finite, y_a = -y_b but x_a # x_b (b = -lambda a or -lambda^2 a).
Degenerate(p, q) == ~p.inf /\ ~q.inf /\ p.x # q.x /\ FeAdd(p.y, q.y) = 0

\* The constant-time gej_add_ge returns acc + b for every finite b, acc
\* infinite included, except in the degenerate case, where M = 0 makes
\* Z3 = 0 and the result is flagged infinite although acc + b is not.
AddGeSum ==
    \A n \in 1..Order - 1 :
        LET r == GejAddGe(acc, Mult[n])
        IN  IF Degenerate(Affine(acc), Mult[n])
            THEN r.inf
            ELSE SamePoint(Affine(r), RefAdd(Affine(acc), Mult[n]))

\* The encodings of the point acc stands for: ge_set_xo_var recovers it
\* from x and the parity of y, and fails exactly for an x no point has;
\* ge_is_valid_var holds; storage round-trips it; ge_neg and ge_mul_lambda
\* give -Q and lambda Q.
PointCodecs ==
    LET pt == Mult[k]
    IN  /\ \A x \in 0..P - 1 :
              GeSetXoVar(x, FALSE).ok = (\E y \in 0..P - 1 : GeIsValidVar(GeSetXY(x, y)))
        /\ ~pt.inf =>
              /\ GeSetXoVar(pt.x, FeIsOdd(pt.y)) = [ok |-> TRUE, r |-> pt]
              /\ GeIsValidVar(pt)
              /\ GeFromStorage(GeStorageCmov(GeToStorage(GeInfinity), GeToStorage(pt), TRUE)) = pt
              /\ SamePoint(GeNeg(pt), Mult[(Order - k) % Order])
              /\ SamePoint(GeMulLambda(pt), Mult[(Lambda * k) % Order])
=============================================================================

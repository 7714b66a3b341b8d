--------------------------- MODULE NodeGenerator ---------------------------
(***************************************************************************)
(* NewMerkle and validateNodeGeneratorFn (src/merkle/merkle.go:29-61).    *)
(* The engine takes an injected NodeGeneratorFn whose CONTRACT (line 17)  *)
(* is to be commutative, and tests it on one pair of random 32-byte       *)
(* inputs.  A digest is a model value of Digest; a generator is any       *)
(* function of two digests; the random inputs are any two digests, equal  *)
(* ones included.                                                         *)
(***************************************************************************)
CONSTANTS
    Digest   \* the 32-byte values, as a small set of model values

VARIABLES
    nodeGeneratorFn,  \* the function NewMerkle is given
    merkle            \* "none" before NewMerkle, then "ok" or the error

vars == <<nodeGeneratorFn, merkle>>

Generators == [Digest \X Digest -> Digest]

\* validateNodeGeneratorFn on the inputs rand.Read produced.
validateNodeGeneratorFn(fn, randInput1, randInput2) ==
    IF fn[randInput1, randInput2] # fn[randInput2, randInput1]
    THEN "node generator function is not commutative"
    ELSE "ok"

Init ==
    /\ nodeGeneratorFn \in Generators
    /\ merkle = "none"

\* NewMerkle: the engine exists only when the test passes.
NewMerkle ==
    /\ merkle = "none"
    /\ \E randInput1, randInput2 \in Digest :
         merkle' = validateNodeGeneratorFn(nodeGeneratorFn, randInput1, randInput2)
    /\ UNCHANGED nodeGeneratorFn

\* NewMerkle returned: the engine is used, or the bot stops on the error.
Constructed ==
    /\ merkle # "none"
    /\ UNCHANGED vars

Next == NewMerkle \/ Constructed

Spec == Init /\ [][Next]_vars

-----------------------------------------------------------------------------
(* Properties                                                             *)

Commutative(fn) == \A a, b \in Digest : fn[a, b] = fn[b, a]

\* The engine is built only with a commutative generator (the contract of
\* NodeGeneratorFn, which GetProofs relies on when it returns siblings
\* without their side): NewMerkle rejects every generator that breaks it.
ConstructedOnlyWhenCommutative ==
    merkle = "ok" => Commutative(nodeGeneratorFn)
=============================================================================

------------------------------ MODULE SysVSem ------------------------------
(***************************************************************************)
(* The System V semaphore sets used by the programs of the repository.     *)
(* The kernel is not part of src/: this module models semop(2) from how    *)
(* the programs use it.                                                    *)
(*                                                                         *)
(* semop applies an array of operations to a set of semaphores all or      *)
(* nothing: operation i meets the values left by operations 1 .. i-1, a    *)
(* zero operation needs the value to be 0, any other operation must not    *)
(* take it below 0.  If one of them cannot be done, the set is left as it  *)
(* was and the caller sleeps (no caller passes IPC_NOWAIT or SEM_UNDO).    *)
(*                                                                         *)
(* A value of a set is a function from semaphore numbers to integers, an   *)
(* operation a record [num, op], an array a sequence of at most MaxOps of  *)
(* them.  The sums are written out up to MaxOps so that the definitions    *)
(* need no recursion.                                                      *)
(***************************************************************************)
EXTENDS Integers, Sequences

\* The longest operation array of the programs has five elements.
MaxOps == 5

SemOp(num, op) == [num |-> num, op |-> op]

\* What operation j of the array adds to semaphore n, 0 past the first i.
Share(ops, j, i, n) ==
    IF j <= i /\ j <= Len(ops) /\ ops[j].num = n THEN ops[j].op ELSE 0

\* What the first i operations of the array add to semaphore n.
Delta(ops, i, n) ==
    Share(ops, 1, i, n) + Share(ops, 2, i, n) + Share(ops, 3, i, n)
        + Share(ops, 4, i, n) + Share(ops, 5, i, n)

\* The value operation i of the array meets.
Met(sem, ops, i) == sem[ops[i].num] + Delta(ops, i - 1, ops[i].num)

\* semop can be done at once: no operation of the array has to wait.
Passes(sem, ops) ==
    \A i \in 1 .. Len(ops) :
        IF ops[i].op = 0 THEN Met(sem, ops, i) = 0
                         ELSE Met(sem, ops, i) + ops[i].op >= 0

\* The set after the whole array.
After(sem, ops) == [n \in DOMAIN sem |-> sem[n] + Delta(ops, MaxOps, n)]
=============================================================================

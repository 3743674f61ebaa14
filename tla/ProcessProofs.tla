--------------------------- MODULE ProcessProofs ---------------------------
(***************************************************************************)
(* The handler of SIGCHLD does not block, for any number of children; what *)
(* is launched is what was asked for, whatever the arguments are; and      *)
(* wherever the setup fails, the end releases what is there, in order.     *)
(***************************************************************************)
EXTENDS Process, QueueProofs, FiniteSetTheorems

Zombies(c) == {p \in Pid : c[p] = "zombie"}

(* The part of the state that signals and children are made of. *)
Typed ==
  /\ child \in [Pid -> States]
  /\ {handler, pending, handling, halted} \subseteq BOOLEAN

(* While no child was stopped, a signal stands for a child that ended and   *)
(* was not waited for: the one that is pending for one, the one that is     *)
(* handled for another.                                                     *)
Owed ==
  ~halted =>
    /\ \A p \in Pid : child[p] # "stopped"
    /\ pending \/ handling => Zombies(child) # {}
    /\ pending /\ handling =>
         \E p, q \in Zombies(child) : p # q

IInv == Typed /\ Owed

(* What fork() and the death of a child do to the children that wait.       *)
LEMMA ForkKeepsZombies ==
  ASSUME Typed, NEW p \in Pid, Fork(p)
  PROVE  /\ child' \in [Pid -> States]
         /\ Zombies(child') = Zombies(child)
         /\ \A q \in Pid : child'[q] = "stopped" => child[q] = "stopped"
BY DEF Typed, Fork, Zombies, States

LEMMA SameSignals ==
  ASSUME IInv, child' \in [Pid -> States],
         Zombies(child') = Zombies(child),
         \A q \in Pid : child'[q] = "stopped" => child[q] = "stopped",
         UNCHANGED <<signals, halted>>
  PROVE  IInv'
<1>1. Typed'
  BY DEF IInv, Typed, signals
<1>2. Owed'
  BY DEF IInv, Owed, signals, Zombies
<1> QED
  BY <1>1, <1>2 DEF IInv

LEMMA InitHolds == Init => IInv
BY DEF Init, IInv, Typed, Owed, Zombies, States

LEMMA ChangeKeeps ==
  ASSUME IInv, NEW p \in Pid, child_changes(p)
  PROVE  IInv'
<1> USE DEF IInv, Typed, States, raise
<1>1. CASE /\ child[p] \in {"running", "stopped"}
           /\ child' = [child EXCEPT ![p] = "zombie"]
           /\ UNCHANGED halted
  <2>1. Typed'
    BY <1>1 DEF child_changes
  <2>2. Zombies(child') = Zombies(child) \cup {p} /\ p \notin Zombies(child)
    BY <1>1 DEF Zombies
  <2>3. handling' = handling /\ halted' = halted
    BY <1>1 DEF child_changes
  <2>4. ~halted => \A q \in Pid : child'[q] # "stopped"
    BY <1>1 DEF Owed
  <2>5. ~halted /\ handling => \E q \in Zombies(child) : q # p
    BY <2>2 DEF Owed
  <2>6. Owed'
    BY <2>2, <2>3, <2>4, <2>5 DEF Owed
  <2> QED
    BY <2>1, <2>6
<1>2. CASE child[p] = "running" /\ child' = [child EXCEPT ![p] = "stopped"] /\ halted' = TRUE
  BY <1>2 DEF child_changes, Owed
<1>3. CASE child[p] = "stopped" /\ child' = [child EXCEPT ![p] = "running"] /\ UNCHANGED halted
  BY <1>3 DEF child_changes, Owed
<1> QED
  BY <1>1, <1>2, <1>3 DEF child_changes

LEMMA HandlerKeeps ==
  ASSUME IInv, NEW p \in Pid, sigchld_handler(p)
  PROVE  IInv'
<1> USE DEF IInv, Typed, States
<1>1. Typed'
  BY DEF sigchld_handler
<1>2. Zombies(child') = Zombies(child) \ {p}
  BY DEF sigchld_handler, Zombies
<1>3. handling' = FALSE /\ pending' = pending /\ halted' = halted /\ handling
  BY DEF sigchld_handler
<1>4. ~halted => \A q \in Pid : child'[q] # "stopped"
  BY DEF sigchld_handler, Owed
<1>5. Owed'
  BY <1>2, <1>3, <1>4 DEF Owed
<1> QED
  BY <1>1, <1>5

LEMMA DeliverKeeps ==
  ASSUME IInv, deliver
  PROVE  IInv'
BY DEF IInv, Typed, Owed, deliver, processes, Zombies

(* Every step keeps the invariant. *)
LEMMA NextKeeps == IInv /\ [Next]_vars => IInv'
<1> SUFFICES ASSUME IInv, [Next]_vars
             PROVE  IInv'
  OBVIOUS
<1> DEFINE Same == UNCHANGED <<signals, child, halted>>
<1>1. CASE Same
  BY <1>1 DEF IInv, Typed, Owed, signals
<1>2. ASSUME \E p \in Pid : Fork(p), UNCHANGED <<signals, halted>>
      PROVE  IInv'
  BY <1>2, ForkKeepsZombies, SameSignals DEF IInv
<1>3. CASE acquire \/ fail \/ workspace_new_tableless \/ quit \/ run_returns \/ release
  BY <1>1, <1>3 DEF acquire, fail, workspace_new_tableless, quit, run_returns,
                    release, processes
<1>4. CASE \E now \in SUBSET Plugs : replug(now)
  BY <1>1, <1>4 DEF replug, processes
<1>5. CASE backend_run
  BY <1>1, <1>2, <1>5 DEF backend_run
<1>6. CASE exec_weston_terminal
  BY <1>2, <1>6 DEF exec_weston_terminal
<1>7. CASE \E m, before : venowm_control_launch(m, before)
  BY <1>1, <1>2, <1>7 DEF venowm_control_launch
<1>8. CASE \E p \in Pid : sigchld_handler(p) \/ child_changes(p)
  BY <1>8, HandlerKeeps, ChangeKeeps
<1>9. CASE deliver
  BY <1>9, DeliverKeeps
<1>10. CASE UNCHANGED vars
  BY <1>1, <1>10 DEF vars, processes
<1> QED
  BY <1>3, <1>4, <1>5, <1>6, <1>7, <1>8, <1>9, <1>10 DEF Next

LEMMA InvariantReturns == IInv => HandlerReturns
<1> SUFFICES ASSUME IInv, ~halted, handling
             PROVE  \E p \in Pid :
                      /\ child[p] = "zombie"
                      /\ pending => \E q \in Pid \ {p} : child[q] = "zombie"
  BY DEF HandlerReturns
<1> QED
  BY DEF IInv, Owed, Zombies

(* While the handler of SIGCHLD runs there is a child that wait() can take, *)
(* however many children there are and in whatever order they end; only a   *)
(* child that was stopped can make it block.                                *)
THEOREM HandlerNeverBlocks == Spec => []HandlerReturns
<1>1. Spec => []IInv
  BY InitHolds, NextKeeps, PTL DEF Spec
<1> QED
  BY <1>1, InvariantReturns, PTL

-----------------------------------------------------------------------------
(* Launching.                                                               *)

(* Offsets add up the lengths before an argument.                           *)
LEMMA OffsetsAddUp ==
  ASSUME NEW m, m.argvlen \in Seq(Nat)
  PROVE  /\ Offset(m, 1) = 0
         /\ \A i \in 1..Len(m.argvlen) :
              /\ Offset(m, i) \in Nat
              /\ Offset(m, i + 1) = Offset(m, i) + m.argvlen[i]
PROOF
  <1> DEFINE n == Len(m.argvlen) + 1
             step == [x \in Nat \X (2..n) |-> x[1] + m.argvlen[x[2] - 1]]
             Sums(f) == f = [j \in 1..n |-> IF j = 1 THEN 0 ELSE f[j - 1] + m.argvlen[j - 1]]
             at == CHOOSE f : Sums(f)
  <1>1. n \in Nat /\ \A i \in 2..n : i - 1 \in 1..Len(m.argvlen)
    OBVIOUS
  <1>2. \A i \in 2..n : m.argvlen[i - 1] \in Nat
    BY <1>1
  <1> HIDE DEF n
  <1>3. ASSUME NEW x \in Nat, NEW i \in 2..n
        PROVE  step[<<x, i>>] = x + m.argvlen[i - 1] /\ step[<<x, i>>] \in Nat
    <2>1. step[<<x, i>>] = x + m.argvlen[i - 1]
      OBVIOUS
    <2>2. m.argvlen[i - 1] \in Nat
      BY <1>2
    <2>3. x + m.argvlen[i - 1] \in Nat
      BY <2>2
    <2> QED
      BY <2>1, <2>3
  <1> HIDE DEF step
  <1>4. PICK f \in [1..n -> Nat] : Passes(f, n, 0, step)
    <2>1. 0 \in Nat /\ \A x \in Nat, i \in 2..n : step[<<x, i>>] \in Nat
      BY <1>3
    <2> QED
      BY <1>1, <2>1, RecursionFromOne
  <1>5. Sums(f)
    <2>1. ASSUME NEW i \in 1..n
          PROVE  f[i] = IF i = 1 THEN 0 ELSE f[i - 1] + m.argvlen[i - 1]
      <3>1. CASE i = 1
        BY <1>4, <3>1 DEF Passes
      <3>2. CASE i # 1
        <4>1. i \in 2..n /\ i - 1 \in 1..n
          BY <1>1, <3>2
        <4>2. f[i - 1] \in Nat
          BY <4>1
        <4> QED
          BY <1>3, <1>4, <3>2, <4>1, <4>2 DEF Passes
      <3> QED
        BY <3>1, <3>2
    <2>2. f = [i \in 1..n |-> f[i]]
      OBVIOUS
    <2> QED
      BY <2>1, <2>2
  <1> HIDE DEF Sums
  <1>6. Sums(at)
    BY <1>5
  <1> HIDE DEF at
  <1>7. \A i \in 1..n : at[i] = IF i = 1 THEN 0 ELSE at[i - 1] + m.argvlen[i - 1]
    BY <1>6 DEF Sums
  <1>8. \A i : Offset(m, i) = at[i]
    BY DEF Offset, at, Sums, n
  <1>9. ASSUME NEW i \in 1..Len(m.argvlen), at[i] \in Nat
        PROVE  at[i + 1] = at[i] + m.argvlen[i] /\ at[i + 1] \in Nat
    <2>1. i + 1 \in 1..n /\ i + 1 # 1 /\ (i + 1) - 1 = i
      BY DEF n
    <2>2. m.argvlen[i] \in Nat
      OBVIOUS
    <2> QED
      BY <1>7, <1>9, <2>1, <2>2
  <1>10. at[1] = 0
    BY <1>1, <1>7 DEF n
  <1> DEFINE S == {k \in Nat : k + 1 \in 1..n => at[k + 1] \in Nat}
  <1>11. 0 \in S
    BY <1>10
  <1>12. ASSUME NEW k \in Nat, k \in S PROVE k + 1 \in S
    <2>1. SUFFICES ASSUME (k + 1) + 1 \in 1..n PROVE at[(k + 1) + 1] \in Nat
      OBVIOUS
    <2>2. k + 1 \in 1..Len(m.argvlen) /\ k + 1 \in 1..n
      BY <2>1 DEF n
    <2> QED
      BY <1>9, <1>12, <2>2
  <1> HIDE DEF S
  <1>13. Nat \subseteq S
    BY <1>11, <1>12, Induction
  <1>14. ASSUME NEW i \in 1..Len(m.argvlen) PROVE at[i] \in Nat
    <2>1. i - 1 \in Nat /\ (i - 1) + 1 = i /\ i \in 1..n
      BY DEF n
    <2> QED
      BY <1>13, <2>1 DEF S
  <1> QED
    BY <1>8, <1>9, <1>10, <1>14

(* FlattenSeq() joins the parts one after the other.                        *)
Joined(f, parts, n) ==
  /\ f[1] = parts[1]
  /\ \A i \in 2..n : f[i] = f[i - 1] \o parts[i]

LEMMA FlattenJoins ==
  ASSUME NEW T, NEW parts \in Seq(Seq(T)), parts # <<>>, NEW n, n = Len(parts)
  PROVE  \E f \in [1..n -> Seq(T)] : Joined(f, parts, n) /\ FlattenSeq(parts) = f[n]
PROOF
  <1> DEFINE Joins(f) == f = [i \in 1..Len(parts) |->
                                IF i = 1 THEN parts[i] ELSE f[i - 1] \o parts[i]]
             flatten == CHOOSE f : Joins(f)
             step == [x \in Seq(T) \X (2..n) |-> x[1] \o parts[x[2]]]
             a == parts[1]
  <1>1. n \in Nat /\ n # 0 /\ \A i \in 1..n : parts[i] \in Seq(T)
    OBVIOUS
  <1>2. ASSUME NEW x \in Seq(T), NEW i \in 2..n
        PROVE  step[<<x, i>>] = x \o parts[i] /\ step[<<x, i>>] \in Seq(T)
    <2>1. step[<<x, i>>] = x \o parts[i]
      OBVIOUS
    <2> HIDE DEF step
    <2>2. i \in 1..n
      OBVIOUS
    <2>3. parts[i] \in Seq(T)
      BY <1>1, <2>2
    <2>4. x \o parts[i] \in Seq(T)
      BY <2>3, ConcatProperties
    <2> QED
      BY <2>1, <2>4
  <1> HIDE DEF step, a
  <1>3. PICK f \in [1..n -> Seq(T)] : Passes(f, n, a, step)
    <2> DEFINE U == Seq(T)
    <2>1. a \in U
      BY <1>1 DEF a
    <2>2. \A x \in U, i \in 2..n : step[<<x, i>>] \in U
      BY <1>2
    <2> HIDE DEF U
    <2>3. \E f \in [1..n -> U] : Passes(f, n, a, step)
      BY <1>1, <2>1, <2>2, RecursionFromOne
    <2> QED
      BY <2>3 DEF U
  <1>4. Joins(f)
    <2>1. ASSUME NEW i \in 1..n
          PROVE  f[i] = IF i = 1 THEN parts[i] ELSE f[i - 1] \o parts[i]
      <3>1. f[i] = IF i = 1 THEN a ELSE step[<<f[i - 1], i>>]
        BY <1>3 DEF Passes
      <3>2. CASE i = 1
        BY <3>1, <3>2 DEF a
      <3>3. CASE i # 1
        <4>1. i \in 2..n /\ i - 1 \in 1..n
          BY <1>1, <3>3
        <4>2. f[i - 1] \in Seq(T)
          BY <4>1
        <4> QED
          BY <1>2, <3>1, <3>3, <4>1, <4>2
      <3> QED
        BY <3>2, <3>3
    <2>2. f = [i \in 1..n |-> f[i]]
      OBVIOUS
    <2>3. f = [i \in 1..n |-> IF i = 1 THEN parts[i] ELSE f[i - 1] \o parts[i]]
      BY <2>1, <2>2
    <2> QED
      BY <2>3
  <1> HIDE DEF Joins
  <1>5. Joins(flatten)
    BY <1>4
  <1>6. FlattenSeq(parts) = flatten[n]
    BY <1>1 DEF FlattenSeq, Joins
  <1> HIDE DEF flatten
  <1>7. \A i \in 1..n : flatten[i] = IF i = 1 THEN parts[i] ELSE flatten[i - 1] \o parts[i]
    BY <1>5 DEF Joins
  <1>8. DOMAIN flatten = 1..n /\ flatten = [i \in 1..n |-> flatten[i]]
    BY <1>5 DEF Joins
  <1> DEFINE S == {k \in Nat : k + 1 \in 1..n => flatten[k + 1] \in Seq(T)}
  <1>9. 0 \in S
    BY <1>1, <1>7
  <1>10. ASSUME NEW k \in Nat, k \in S PROVE k + 1 \in S
    <2>1. SUFFICES ASSUME (k + 1) + 1 \in 1..n PROVE flatten[(k + 1) + 1] \in Seq(T)
      OBVIOUS
    <2>2. k + 1 \in 1..n /\ (k + 1) + 1 # 1 /\ ((k + 1) + 1) - 1 = k + 1
      BY <1>1, <2>1
    <2>3. flatten[k + 1] \in Seq(T) /\ parts[(k + 1) + 1] \in Seq(T)
      BY <1>1, <1>10, <2>1, <2>2
    <2>4. flatten[(k + 1) + 1] = flatten[k + 1] \o parts[(k + 1) + 1]
      BY <1>7, <2>1, <2>2
    <2> QED
      BY <2>3, <2>4
  <1> HIDE DEF S
  <1>11. Nat \subseteq S
    BY <1>9, <1>10, Induction
  <1>12. ASSUME NEW i \in 1..n PROVE flatten[i] \in Seq(T)
    <2>1. i - 1 \in Nat /\ (i - 1) + 1 = i
      BY <1>1
    <2> QED
      BY <1>11, <2>1 DEF S
  <1>13. flatten \in [1..n -> Seq(T)]
    BY <1>8, <1>12
  <1>14. flatten[1] = parts[1]
    BY <1>1, <1>7
  <1>15. ASSUME NEW i \in 2..n PROVE flatten[i] = flatten[i - 1] \o parts[i]
    <2>1. i \in 1..n /\ i # 1
      OBVIOUS
    <2> QED
      BY <1>7, <2>1
  <1> QED
    BY <1>6, <1>13, <1>14, <1>15 DEF Joined

(* Every argument lies with its terminator where its offset says.           *)
Lies(m, arg, i) ==
  /\ m.argvlen[i] = Len(arg) + 1
  /\ Offset(m, i) \in Nat
  /\ Offset(m, i) + m.argvlen[i] <= Len(m.argv)
  /\ m.argv[Offset(m, i) + m.argvlen[i]] = Nul
  /\ \A k \in 1..Len(arg) : m.argv[Offset(m, i) + k] = arg[k]

LEMMA PackPlaces ==
  ASSUME NEW argv \in Seq(Seq(Byte)), argv # <<>>, NEW m, m = pack(argv)
  PROVE  /\ m.argvlen \in Seq(Nat) /\ Len(m.argvlen) = Len(argv)
         /\ m.argv \in Seq(Nat)
         /\ Len(m.argv) = Offset(m, Len(argv) + 1)
         /\ \A i \in 1..Len(argv) : Lies(m, argv[i], i)
PROOF
  <1> DEFINE n == Len(argv)
             parts == [i \in DOMAIN argv |-> Append(argv[i], Nul)]
             len(i) == m.argvlen[i]
             off(i) == Offset(m, i)
  <1>1. /\ n \in Nat /\ n # 0 /\ DOMAIN argv = 1..n
        /\ \A i \in 1..n : argv[i] \in Seq(Byte)
    OBVIOUS
  <1>2. /\ m.argv = FlattenSeq(parts)
        /\ m.argvlen = [i \in 1..n |-> Len(argv[i]) + 1]
    BY <1>1 DEF pack
  <1>3. ASSUME NEW i \in 1..n
        PROVE  /\ argv[i] \in Seq(Nat) /\ Len(argv[i]) \in Nat
               /\ parts[i] \in Seq(Nat) /\ Len(parts[i]) = Len(argv[i]) + 1
               /\ parts[i][Len(argv[i]) + 1] = Nul
               /\ \A k \in 1..Len(argv[i]) : parts[i][k] = argv[i][k]
    <2> DEFINE one == argv[i]
    <2>1. one \in Seq(Nat) /\ parts[i] = Append(one, Nul) /\ Nul \in Nat
      <3>1. argv[i] \in Seq(Byte) /\ Byte \subseteq Nat
        BY <1>1 DEF Byte
      <3>2. one \in Seq(Nat)
        BY <3>1, SeqMonotonic
      <3> QED
        BY <1>1, <3>2 DEF Nul
    <2> HIDE DEF one, parts
    <2>2. /\ Append(one, Nul) \in Seq(Nat) /\ Len(Append(one, Nul)) = Len(one) + 1
          /\ Append(one, Nul)[Len(one) + 1] = Nul
          /\ \A k \in 1..Len(one) : Append(one, Nul)[k] = one[k]
      BY <2>1, AppendProperties
    <2>3. Len(one) \in Nat
      BY <2>1
    <2> QED
      BY <2>1, <2>2, <2>3 DEF one
  <1>4. parts \in Seq(Seq(Nat)) /\ Len(parts) = n /\ parts # <<>>
    BY <1>1, <1>3
  <1>5. /\ m.argvlen \in Seq(Nat) /\ Len(m.argvlen) = n
        /\ \A i \in 1..n : len(i) = Len(argv[i]) + 1
    BY <1>1, <1>2, <1>3
  <1> HIDE DEF parts, n
  <1>6. PICK f \in [1..n -> Seq(Nat)] : Joined(f, parts, n) /\ FlattenSeq(parts) = f[n]
    <2>1. n = Len(parts)
      BY <1>4
    <2> QED
      BY <1>4, <2>1, FlattenJoins
  <1>7. /\ off(1) = 0
        /\ \A i \in 1..n : off(i) \in Nat /\ off(i + 1) = off(i) + len(i)
    BY <1>5, OffsetsAddUp
  <1> DEFINE Placed(j) ==
               /\ Len(f[j]) = off(j + 1)
               /\ \A i \in 1..j :
                    /\ off(i) + len(i) <= Len(f[j])
                    /\ \A k \in 1..len(i) : f[j][off(i) + k] = parts[i][k]
  <1> HIDE DEF len, off
  <1>8. \A i \in 1..n : len(i) \in Nat /\ len(i) = Len(parts[i])
    BY <1>3, <1>5
  <1>9. Placed(1)
    <2>1. 1 \in 1..n
      BY <1>1
    <2>2. Len(f[1]) = len(1) /\ off(2) = len(1) /\ off(1) = 0
      BY <1>6, <1>7, <1>8, <2>1 DEF Joined
    <2> QED
      BY <1>6, <1>8, <2>1, <2>2 DEF Joined
  <1>10. ASSUME NEW j \in 1..n, j + 1 \in 1..n, Placed(j)
         PROVE  Placed(j + 1)
    <2> DEFINE p == f[j]
               q == parts[j + 1]
               r == f[j + 1]
    <2>1. r = p \o q
      <3>1. j + 1 \in 2..n /\ (j + 1) - 1 = j
        BY <1>1, <1>10
      <3> QED
        BY <1>6, <3>1 DEF Joined
    <2>2. /\ p \in Seq(Nat) /\ q \in Seq(Nat)
          /\ Len(p) = off(j + 1) /\ Len(q) = len(j + 1)
          /\ Len(p) \in Nat /\ len(j + 1) \in Nat
      <3>1. p \in Seq(Nat) /\ Len(p) = off(j + 1)
        BY <1>10
      <3>2. q \in Seq(Nat) /\ Len(q) = len(j + 1) /\ len(j + 1) \in Nat
        BY <1>3, <1>8, <1>10
      <3> HIDE DEF p
      <3>3. Len(p) \in Nat
        BY <3>1
      <3> QED
        BY <3>1, <3>2, <3>3
    <2>3. off((j + 1) + 1) = off(j + 1) + len(j + 1)
      BY <1>7, <1>10
    <2>4. \A i \in 1..j :
            /\ off(i) \in Nat /\ len(i) \in Nat
            /\ off(i) + len(i) <= Len(p)
            /\ \A k \in 1..len(i) : p[off(i) + k] = parts[i][k]
      <3>1. \A i \in 1..j : i \in 1..n
        BY <1>1
      <3> QED
        BY <1>7, <1>8, <1>10, <3>1
    <2> HIDE DEF p, q, r, Placed
    <2>5. /\ Len(r) = Len(p) + Len(q)
          /\ \A k \in 1..(Len(p) + Len(q)) :
               r[k] = IF k <= Len(p) THEN p[k] ELSE q[k - Len(p)]
      BY <2>1, <2>2, ConcatProperties
    <2>6. Len(r) = off((j + 1) + 1)
      BY <2>2, <2>3, <2>5
    <2>7. ASSUME NEW i \in 1..(j + 1)
          PROVE  /\ off(i) + len(i) <= Len(r)
                 /\ \A k \in 1..len(i) : r[off(i) + k] = parts[i][k]
      <3>1. CASE i = j + 1
        <4>1. off(i) + len(i) = Len(r)
          BY <2>3, <2>6, <3>1
        <4>2. ASSUME NEW k \in 1..len(i) PROVE r[off(i) + k] = parts[i][k]
          <5>1. /\ Len(p) + k \in 1..(Len(p) + Len(q)) /\ ~(Len(p) + k <= Len(p))
                /\ (Len(p) + k) - Len(p) = k
            BY <2>2, <3>1
          <5>2. r[Len(p) + k] = q[k]
            BY <2>5, <5>1
          <5> QED
            BY <2>2, <3>1, <5>2 DEF q
        <4>3. off(i) + len(i) <= Len(r)
          BY <2>2, <2>3, <2>6, <3>1
        <4> QED
          BY <4>2, <4>3
      <3>2. CASE i # j + 1
        <4>1. i \in 1..j
          BY <3>2
        <4>2. off(i) + len(i) <= Len(r)
          BY <2>2, <2>4, <2>5, <4>1
        <4>3. ASSUME NEW k \in 1..len(i) PROVE r[off(i) + k] = parts[i][k]
          <5>1. off(i) \in Nat /\ len(i) \in Nat /\ off(i) + len(i) <= Len(p)
            BY <2>4, <4>1
          <5> DEFINE o == off(i)
                     l == len(i)
          <5> HIDE DEF o, l
          <5>4. o \in Nat /\ l \in Nat /\ o + l <= Len(p) /\ k \in 1..l
            BY <5>1 DEF o, l
          <5>5. Len(p) \in Nat /\ Len(q) \in Nat
            BY <2>2
          <5>6. o + k \in 1..(Len(p) + Len(q)) /\ o + k <= Len(p)
            BY <5>4, <5>5
          <5>2. off(i) + k \in 1..(Len(p) + Len(q)) /\ off(i) + k <= Len(p)
            BY <5>6 DEF o
          <5>3. r[off(i) + k] = p[off(i) + k]
            BY <2>5, <5>2
          <5> QED
            BY <2>4, <4>1, <5>3
        <4> QED
          BY <4>2, <4>3
      <3> QED
        BY <3>1, <3>2
    <2> QED
      BY <2>6, <2>7 DEF r, Placed
  <1> DEFINE S == {k \in Nat : k + 1 \in 1..n => Placed(k + 1)}
  <1> HIDE DEF Placed
  <1>11. 0 \in S
    BY <1>9
  <1>12. ASSUME NEW k \in Nat, k \in S PROVE k + 1 \in S
    <2>1. SUFFICES ASSUME (k + 1) + 1 \in 1..n PROVE Placed((k + 1) + 1)
      OBVIOUS
    <2>2. k + 1 \in 1..n
      BY <1>1, <2>1
    <2> QED
      BY <1>10, <1>12, <2>1, <2>2
  <1> HIDE DEF S
  <1>13. Nat \subseteq S
    BY <1>11, <1>12, Induction
  <1>14. Placed(n)
    <2>1. n - 1 \in Nat /\ (n - 1) + 1 = n /\ n \in 1..n
      BY <1>1
    <2> QED
      BY <1>13, <2>1 DEF S
  <1>15. m.argv = f[n] /\ m.argv \in Seq(Nat)
    <2>1. n \in 1..n
      BY <1>1
    <2> QED
      BY <1>2, <1>6, <2>1
  <1>16. ASSUME NEW i \in 1..n
         PROVE  /\ off(i) + len(i) <= Len(m.argv)
                /\ m.argv[off(i) + len(i)] = Nul
                /\ \A k \in 1..Len(argv[i]) : m.argv[off(i) + k] = argv[i][k]
    <2>1. /\ off(i) + len(i) <= Len(m.argv)
          /\ \A k \in 1..len(i) : m.argv[off(i) + k] = parts[i][k]
      BY <1>14, <1>15 DEF Placed
    <2>2. len(i) = Len(argv[i]) + 1 /\ len(i) \in 1..len(i)
      BY <1>3, <1>5 DEF len
    <2>3. \A k \in 1..Len(argv[i]) : k \in 1..len(i)
      BY <1>3, <2>2
    <2> QED
      BY <1>3, <2>1, <2>2, <2>3
  <1>17. Len(m.argv) = off(n + 1)
    BY <1>14, <1>15 DEF Placed
  <1>18. \A i \in 1..n : Lies(m, argv[i], i)
    BY <1>5, <1>7, <1>16 DEF Lies, len, off
  <1> QED
    BY <1>5, <1>15, <1>17, <1>18 DEF off, n

(* What is unpacked is what was packed, and is accepted unless it is empty. *)
LEMMA UnpackPacked ==
  ASSUME NEW argv \in Seq(Seq(Byte)), NEW m, m = pack(argv)
  PROVE  IF argv = <<>> THEN IsEmpty(m)
         ELSE unpack(m) = argv /\ \A before \in Before : Accepts(m, before)
PROOF
  <1>1. CASE argv = <<>>
    <2>1. m.argvlen = <<>>
      BY <1>1 DEF pack
    <2> QED
      BY <1>1, <2>1 DEF IsEmpty
  <1>2. CASE argv # <<>>
    <2> DEFINE n == Len(argv)
               off(i) == Offset(m, i)
               len(i) == m.argvlen[i]
    <2>1. n \in Nat /\ n # 0 /\ \A i \in 1..n : argv[i] \in Seq(Byte)
      BY <1>2
    <2>2. /\ m.argvlen \in Seq(Nat) /\ Len(m.argvlen) = n
          /\ m.argv \in Seq(Nat) /\ Len(m.argv) = off(n + 1)
      BY <1>2, PackPlaces
    <2>9. \A i \in 1..n : Lies(m, argv[i], i)
      BY <1>2, PackPlaces
    <2>3. ASSUME NEW i \in 1..n
          PROVE  /\ len(i) = Len(argv[i]) + 1 /\ Len(argv[i]) \in Nat /\ off(i) \in Nat
                 /\ off(i) + len(i) <= Len(m.argv)
                 /\ m.argv[off(i) + len(i)] = Nul
                 /\ \A k \in 1..Len(argv[i]) :
                      m.argv[off(i) + k] = argv[i][k] /\ argv[i][k] # Nul
      <3>1. /\ len(i) = Len(argv[i]) + 1 /\ off(i) \in Nat
            /\ off(i) + len(i) <= Len(m.argv)
            /\ m.argv[off(i) + len(i)] = Nul
            /\ \A k \in 1..Len(argv[i]) : m.argv[off(i) + k] = argv[i][k]
        BY <2>9 DEF Lies
      <3>2. Len(argv[i]) \in Nat /\ \A k \in 1..Len(argv[i]) : argv[i][k] \in Byte
        BY <2>1
      <3>3. \A b \in Byte : b # Nul
        BY DEF Byte, Nul
      <3> QED
        BY <3>1, <3>2, <3>3
    <2> HIDE DEF off, len, n
    <2>4. Len(m.argv) \in Nat /\ Len(m.argvlen) \in Nat /\ DOMAIN m.argvlen = 1..n
      BY <2>2
    <2>5. ~IsEmpty(m)
      <3>1. Len(m.argvlen) # 0
        BY <2>1, <2>2
      <3>2. Len(m.argv) # 0
        <4>1. 1 \in 1..n
          BY <2>1
        <4>2. off(1) \in Nat /\ len(1) = Len(argv[1]) + 1 /\ Len(argv[1]) \in Nat
          BY <2>3, <4>1
        <4>3. off(1) + len(1) <= Len(m.argv)
          BY <2>3, <4>1
        <4> QED
          BY <2>4, <4>2, <4>3
      <3> QED
        BY <2>2, <3>1, <3>2 DEF IsEmpty
    <2>6. ASSUME NEW before \in Before PROVE IsWellPacked(m, before)
      <3>1. off(Len(m.argvlen) + 1) = Len(m.argv)
        BY <2>2
      <3>2. \A i \in 1..n : m.argv[off(i) + len(i)] = Nul /\ off(i) + len(i) # 0
        BY <2>3
      <3>3. \A i \in 1..n : LastByte(m, i, before) = Nul
        BY <3>2 DEF LastByte, off, len
      <3> QED
        BY <2>4, <3>1, <3>3 DEF IsWellPacked, off
    <2>7. ASSUME NEW i \in 1..n PROVE StringAt(m, off(i)) = argv[i]
      <3> DEFINE o == off(i)
                 arg == argv[i]
                 l == Len(arg)
                 EndsAt(e) == m.argv[e] = Nul /\ \A k \in o + 1..e - 1 : m.argv[k] # Nul
                 end == CHOOSE e \in o + 1..Len(m.argv) : EndsAt(e)
      <3>1. /\ o \in Nat /\ l \in Nat /\ o + (l + 1) <= Len(m.argv)
            /\ m.argv[o + (l + 1)] = Nul
            /\ \A k \in 1..l : m.argv[o + k] = arg[k] /\ arg[k] # Nul
        <4>1. len(i) = l + 1
          BY <2>3
        <4> QED
          BY <2>3, <4>1
      <3>2. arg \in Seq(Nat)
        <4>1. arg \in Seq(Byte) /\ Byte \subseteq Nat
          BY <2>1 DEF Byte
        <4> HIDE DEF arg
        <4> QED
          BY <4>1, SeqMonotonic
      <3> HIDE DEF o, arg, EndsAt, end
      <3>3. ASSUME NEW k \in o + 1..o + l PROVE m.argv[k] # Nul
        <4>1. k - o \in 1..l /\ o + (k - o) = k
          BY <3>1
        <4> QED
          BY <3>1, <4>1
      <3>4. o + (l + 1) \in o + 1..Len(m.argv) /\ EndsAt(o + (l + 1))
        <4>1. o + (l + 1) \in o + 1..Len(m.argv) /\ (o + (l + 1)) - 1 = o + l
          BY <2>4, <3>1
        <4> QED
          BY <3>1, <3>3, <4>1 DEF EndsAt
      <3>5. \A e \in o + 1..Len(m.argv) : EndsAt(e) => e = o + (l + 1)
        <4>1. SUFFICES ASSUME NEW e \in o + 1..Len(m.argv), EndsAt(e)
                       PROVE  e = o + (l + 1)
          OBVIOUS
        <4>2. e \notin o + 1..o + l
          BY <3>3, <4>1 DEF EndsAt
        <4>3. ~(e > o + (l + 1))
          <5>1. SUFFICES ASSUME e > o + (l + 1) PROVE FALSE
            OBVIOUS
          <5>2. o + (l + 1) \in o + 1..e - 1
            BY <2>4, <3>1, <5>1
          <5> QED
            BY <3>1, <4>1, <5>2 DEF EndsAt
        <4> QED
          BY <2>4, <3>1, <4>2, <4>3
      <3>6. end = o + (l + 1)
        <4>1. end \in o + 1..Len(m.argv) /\ EndsAt(end)
          BY <3>4 DEF end
        <4> QED
          BY <3>5, <4>1
      <3>7. StringAt(m, o) = SubSeq(m.argv, o + 1, o + l)
        <4>1. StringAt(m, o) = SubSeq(m.argv, o + 1, end - 1)
          BY DEF StringAt, end, EndsAt
        <4>2. end - 1 = o + l
          BY <3>1, <3>6
        <4> QED
          BY <4>1, <4>2
      <3>8. SubSeq(m.argv, o + 1, o + l) = arg
        <4> DEFINE s == SubSeq(m.argv, o + 1, o + l)
        <4>1. \A k \in o + 1..o + l : m.argv[k] \in Nat
          <5>1. \A k \in o + 1..o + l : k \in 1..Len(m.argv)
            BY <2>4, <3>1
          <5> QED
            BY <2>2, <5>1
        <4>2. o + 1 \in Int /\ o + l \in Int
          BY <3>1
        <4>3. /\ s \in Seq(Nat)
              /\ Len(s) = IF o + 1 <= o + l THEN (o + l) - (o + 1) + 1 ELSE 0
              /\ \A k \in 1..(o + l) - (o + 1) + 1 : s[k] = m.argv[(o + 1) + k - 1]
          BY <4>1, <4>2, SubSeqProperties
        <4> HIDE DEF s
        <4>4. Len(s) = l
          BY <3>1, <4>3
        <4>5. ASSUME NEW k \in 1..l PROVE s[k] = arg[k]
          <5>1. k \in 1..(o + l) - (o + 1) + 1 /\ (o + 1) + k - 1 = o + k
            BY <3>1
          <5>2. s[k] = m.argv[o + k]
            BY <4>3, <5>1
          <5> QED
            BY <3>1, <5>2
        <4> QED
          BY <3>2, <4>3, <4>4, <4>5, SeqEqual DEF s
      <3> QED
        BY <3>7, <3>8 DEF o, arg
    <2>8. unpack(m) = argv
      <3>1. unpack(m) = [i \in 1..n |-> StringAt(m, off(i))]
        BY <2>4 DEF unpack, off
      <3>2. argv = [i \in 1..n |-> argv[i]]
        BY <2>1 DEF n
      <3> QED
        BY <2>7, <3>1, <3>2
    <2> QED
      BY <1>2, <2>5, <2>6, <2>8 DEF Accepts
  <1> QED
    BY <1>1, <1>2

(* Any list of arguments, with any strings in it, reaches execvp() as it    *)
(* was given to venowm_launch(), and none but the empty list is refused.    *)
THEOREM LaunchesAreFaithful == Spec => []LaunchedAsAsked
PROOF
  <1>1. Init => LaunchedAsAsked
    BY DEF Init, LaunchedAsAsked, NoLaunch
  <1>2. LaunchedAsAsked /\ [Next]_vars => LaunchedAsAsked'
    <2> SUFFICES ASSUME LaunchedAsAsked, [Next]_vars PROVE LaunchedAsAsked'
      OBVIOUS
    <2>1. CASE launched' = NoLaunch
      BY <2>1 DEF LaunchedAsAsked, NoLaunch
    <2>2. CASE UNCHANGED vars
      BY <2>2 DEF LaunchedAsAsked, vars
    <2>3. CASE \E argv \in Argv, before \in Before : launched' = Launched(argv, before)
      <3>1. PICK argv \in Argv, before \in Before : launched' = Launched(argv, before)
        BY <2>3
      <3> DEFINE m == pack(argv)
      <3>2. argv \in Seq(Seq(Byte)) /\ m = pack(argv)
        BY ArgvAssumption
      <3>3. launched' = [ asked |-> argv,
                          runs |-> IF Accepts(m, before) THEN unpack(m) ELSE <<>> ]
        BY <3>1 DEF Launched
      <3> HIDE DEF m
      <3>4. IF argv = <<>> THEN ~Accepts(m, before)
            ELSE Accepts(m, before) /\ unpack(m) = argv
        BY <3>2, UnpackPacked DEF Accepts
      <3>5. launched' = [asked |-> argv, runs |-> argv]
        BY <3>3, <3>4
      <3> QED
        BY <3>5 DEF LaunchedAsAsked
    <2> QED
      BY <2>1, <2>2, <2>3 DEF Next
  <1> QED
    BY <1>1, <1>2, PTL DEF Spec

-----------------------------------------------------------------------------
(* The end.  Every list of what is released is in one order, and a failure  *)
(* of the setup goes to where that order has what was acquired before it.   *)

(* The order in which resources are released, and the step of the setup     *)
(* that acquires each.                                                      *)
Rank ==
  [ g_screens |-> 1, ws0 |-> 2, ws1 |-> 3, ws2 |-> 4, ws3 |-> 5, ws4 |-> 6, ws5 |-> 7,
    g_workspaces |-> 8, keymap |-> 9, cursor_mgr |-> 10, cursor |-> 11, seat |-> 12,
    wlr_surface_created |-> 13, compositor_destroyed_listener |-> 14, vc |-> 15,
    server_dec_mgr |-> 16, decoration_new |-> 17, decoration_mgr_destroy |-> 18,
    decoration_mgr |-> 19, xdg_shell_new_listener |-> 20, xdg_shell |-> 21,
    compositor |-> 22, output_layout |-> 23, new_output_listener |-> 24,
    wlr_backend |-> 25, display |-> 26, be |-> 27 ]

Since ==
  [ be |-> 1, display |-> 2, wlr_backend |-> 4, new_input_device |-> 4,
    new_output_listener |-> 4, output_layout |-> 5, compositor |-> 6, xdg_shell |-> 7,
    xdg_shell_new_listener |-> 7, decoration_mgr |-> 8, decoration_new |-> 8,
    decoration_mgr_destroy |-> 8, server_dec_mgr |-> 9, vc |-> 10, socket |-> 11,
    wlr_surface_created |-> 11, compositor_destroyed_listener |-> 11, seat |-> 12,
    cursor |-> 13, cursor_mgr |-> 14, keymap |-> 15, g_workspaces |-> 16, ws0 |-> 17,
    ws1 |-> 18, ws2 |-> 19, ws3 |-> 20, ws4 |-> 21, ws5 |-> 22, g_screens |-> 23 ]

Resource == DOMAIN Since
Released == DOMAIN Rank

(* What was acquired by the first k steps. *)
Got(k) == {r \in Resource : Since[r] <= k}

(* What a release needs when nothing is plugged in. *)
Needed(r) ==
  UNION { IF r \in DOMAIN Owner THEN {Owner[r]} ELSE {},
          IF r \in OfDisplay THEN {"display"} ELSE {},
          IF r \in {"be", "g_workspaces", "g_screens"} THEN {} ELSE {"be"} }

Sorted(list) ==
  /\ list \in Seq(Released)
  /\ \A i, j \in 1..Len(list) : i < j => Rank[list[i]] < Rank[list[j]]

LEMMA RankIs ==
  \A r \in Released : /\ Rank[r] \in Nat /\ Rank[r] >= 1 /\ Rank[r] <= 27
                      /\ r \in Resource /\ Since[r] \in Nat
BY DEF Rank, Released, Resource, Since

LEMMA RankIsOne == \A r, q \in Released : Rank[r] = Rank[q] => r = q
BY DEF Rank, Released

LEMMA SinceIs ==
  \A r \in Resource : Since[r] \in Nat /\ Since[r] >= 1 /\ Since[r] <= 23
BY DEF Since, Resource

(* What a release needs was acquired before, and is released after. *)
LEMMA NeededIs ==
  ASSUME NEW r \in Released, NEW n \in Needed(r)
  PROVE  n \in Released /\ Since[n] <= Since[r] /\ Rank[n] > Rank[r]
BY DEF Needed, Owner, OfDisplay, Released, Rank, Since

LEMMA TakesIs ==
  ASSUME NEW r \in Released
  PROVE  /\ r \in Takes(r)
         /\ \A t \in Takes(r) \ {r} :
              /\ t \notin Released \/ (t = "compositor" /\ Rank[r] = 26)
              /\ \A q \in Released : t \in Needed(q) => Rank[q] < Rank[r]
              /\ t # "g_screens"
BY DEF Takes, Released, Rank, Needed, Owner, OfDisplay

LEMMA NeedsIs ==
  ASSUME plugged = {}, NEW r
  PROVE  Needs(r) = Needed(r)
BY DEF Needs, Needed

LEMMA WorkspacesAre ==
  /\ Len(Workspaces) = 6 /\ Workspaces \in Seq(Released)
  /\ \A i \in 1..6 : /\ Workspaces[i] \in Released
                     /\ Rank[Workspaces[i]] = i + 1 /\ Since[Workspaces[i]] = i + 16
BY DEF Workspaces, Rank, Since, Released

LEMMA BackendFailIs ==
  /\ Len(BackendFail) = 18 /\ BackendFail \in Seq(Released)
  /\ \A i \in 1..18 : BackendFail[i] \in Released /\ Rank[BackendFail[i]] = i + 9
BY DEF BackendFail, Rank, Released

LEMMA BackendFreeIs ==
  /\ Len(BackendFree) = 18 /\ BackendFree \in Seq(Released)
  /\ \A i \in 1..18 :
       /\ BackendFree[i] \in Released
       /\ Rank[BackendFree[i]] = IF i <= 13 THEN i + 8 ELSE i + 9
BY DEF BackendFree, Rank, Released

(* The first of what is released when step k fails. *)
Least == <<28, 27, 26, 26, 24, 23, 22, 20, 17, 16, 15, 13, 12, 11, 10>>

LEMMA LabelsAreOrdered ==
  \A k \in 1..15, r \in Released :
    Rank[r] >= 10 => (Rank[r] >= Least[k] <=> Since[r] < k)
BY DEF Least, Rank, Since, Released

LEMMA BackendNewIs ==
  /\ Len(BackendNew) = 15
  /\ \A k \in 1..15 : /\ BackendNew[k].gets = {r \in Resource : Since[r] = k}
BY DEF BackendNew, Get, Since, Resource

LEMMA LabelsAre ==
  \A k \in 1..15 :
    LET label == BackendNew[k].fails
    IN  IF k = 1 THEN label = "return"
        ELSE /\ label \notin {"return", "cu_backend", "cu_workspaces"}
             /\ First[label] \in Released /\ Rank[First[label]] = Least[k]
BY DEF BackendNew, Get, First, Released, Rank, Least

(* Every list of what is released is in the one order. *)
LEMMA SortedConcat ==
  ASSUME NEW p, NEW q, Sorted(p), Sorted(q),
         \A r \in Elems(p), s \in Elems(q) : Rank[r] < Rank[s]
  PROVE  Sorted(p \o q) /\ Elems(p \o q) = Elems(p) \cup Elems(q)
PROOF
  <1>1. p \in Seq(Released) /\ q \in Seq(Released) /\ Len(p) \in Nat /\ Len(q) \in Nat
    BY DEF Sorted
  <1>2. /\ p \o q \in Seq(Released) /\ Elems(p \o q) = Elems(p) \cup Elems(q)
        /\ Len(p \o q) = Len(p) + Len(q)
    BY <1>1, ElemsOfConcat
  <1>3. \A i \in 1..(Len(p) + Len(q)) :
          (p \o q)[i] = IF i <= Len(p) THEN p[i] ELSE q[i - Len(p)]
    BY <1>1
  <1>4. /\ \A i \in 1..Len(p) : p[i] \in Elems(p)
        /\ \A i \in 1..Len(q) : q[i] \in Elems(q)
    BY DEF Elems
  <1>5. PICK l : l = p \o q
    OBVIOUS
  <1>6. ASSUME NEW i \in 1..Len(l), NEW j \in 1..Len(l), i < j
        PROVE  Rank[l[i]] < Rank[l[j]]
    <2>1. CASE j <= Len(p)
      BY <1>1, <1>2, <1>3, <1>5, <1>6, <2>1 DEF Sorted
    <2>2. CASE i > Len(p)
      <3>1. i - Len(p) \in 1..Len(q) /\ j - Len(p) \in 1..Len(q) /\ i - Len(p) < j - Len(p)
        BY <1>1, <1>2, <1>5, <1>6, <2>2
      <3>2. l[i] = q[i - Len(p)] /\ l[j] = q[j - Len(p)]
        BY <1>1, <1>2, <1>3, <1>5, <1>6, <2>2
      <3> QED
        BY <3>1, <3>2 DEF Sorted
    <2>3. CASE i <= Len(p) /\ j > Len(p)
      <3>1. i \in 1..Len(p) /\ j - Len(p) \in 1..Len(q)
        BY <1>1, <1>2, <1>5, <2>3
      <3>2. l[i] = p[i] /\ l[j] = q[j - Len(p)]
        BY <1>1, <1>2, <1>3, <1>5, <2>3
      <3> QED
        BY <1>4, <3>1, <3>2
    <2> QED
      BY <1>1, <1>2, <1>5, <2>1, <2>2, <2>3
  <1> QED
    BY <1>2, <1>5, <1>6 DEF Sorted

LEMMA SortedTail ==
  ASSUME NEW l, Sorted(l), l # <<>>
  PROVE  /\ Sorted(Tail(l)) /\ Head(l) \in Elems(l) /\ Head(l) \in Released
         /\ Elems(Tail(l)) = Elems(l) \ {Head(l)}
         /\ \A r \in Elems(Tail(l)) : r \in Released /\ Rank[Head(l)] < Rank[r]
PROOF
  <1>1. /\ l \in Seq(Released) /\ Len(l) \in Nat /\ Len(l) > 0
        /\ \A i \in 1..Len(l) : l[i] \in Released /\ Rank[l[i]] \in Nat
        /\ \A i, j \in 1..Len(l) : i < j => Rank[l[i]] < Rank[l[j]]
    BY RankIs DEF Sorted
  <1>2. Distinct(l)
    <2>1. ASSUME NEW i \in 1..Len(l), NEW j \in 1..Len(l), i # j, l[i] = l[j] PROVE FALSE
      <3>1. i < j \/ j < i
        BY <1>1, <2>1
      <3> QED
        BY <1>1, <2>1, <3>1
    <2> QED
      BY <2>1 DEF Distinct
  <1>3. PICK t : t = Tail(l)
    OBVIOUS
  <1>4. /\ t \in Seq(Released) /\ Len(t) = Len(l) - 1 /\ Head(l) = l[1]
        /\ \A i \in 1..Len(t) : t[i] = l[i + 1] /\ i + 1 \in 1..Len(l) /\ 1 < i + 1
    BY <1>1, <1>3
  <1>5. Head(l) \in Elems(l) /\ Head(l) \in Released /\ Elems(t) = Elems(l) \ {Head(l)}
    BY <1>1, <1>2, <1>3, ElemsOfTail
  <1>6. Sorted(t)
    BY <1>1, <1>4 DEF Sorted
  <1>7. \A r \in Elems(t) : r \in Released /\ Rank[Head(l)] < Rank[r]
    <2> TAKE r \in Elems(t)
    <2>1. PICK i \in 1..Len(t) : r = t[i]
      BY DEF Elems
    <2>2. 1 \in 1..Len(l)
      BY <1>1
    <2> QED
      BY <1>1, <1>4, <2>1, <2>2
  <1> QED
    BY <1>3, <1>5, <1>6, <1>7

(* What is released in this order is there, with all it needs, until it is *)
(* released itself, and only left is kept.                                 *)
Releases(list, H, left) ==
  /\ Sorted(list)
  /\ \A r \in Elems(list) : r \in H /\ Needed(r) \subseteq H
  /\ \A r \in H : r \in left \/ \E q \in Elems(list) : r \in Takes(q)
  /\ left \subseteq H /\ \A q \in Elems(list) : Takes(q) \cap left = {}

LEMMA ReleaseKeeps ==
  ASSUME NEW list, NEW H, NEW left, Releases(list, H, left), list # <<>>,
         NEW r, r = Head(list)
  PROVE  r \in H /\ Needed(r) \subseteq H /\ Releases(Tail(list), H \ Takes(r), left)
PROOF
  <1>1. PICK t : t = Tail(list)
    OBVIOUS
  <1>2. /\ Sorted(t) /\ r \in Elems(list) /\ r \in Released
        /\ Elems(t) = Elems(list) \ {r}
        /\ \A q \in Elems(t) : q \in Released /\ Rank[r] < Rank[q]
    BY <1>1, SortedTail DEF Releases
  <1>3. ASSUME NEW q \in Elems(t)
        PROVE  q \notin Takes(r) /\ Needed(q) \cap Takes(r) = {}
    <2>1. q \in Released /\ Rank[r] < Rank[q] /\ Rank[q] \in Nat /\ Rank[r] \in Nat
      BY <1>2, RankIs
    <2>2. q \notin Takes(r)
      <3>1. q = "compositor" => Rank[q] = 22
        BY DEF Rank
      <3> QED
        BY <1>2, <2>1, <3>1, TakesIs
    <2>3. ASSUME NEW n \in Needed(q), n \in Takes(r) PROVE FALSE
      BY <1>2, <2>1, <2>3, TakesIs, NeededIs
    <2> QED
      BY <2>2, <2>3
  <1>4. \A q \in Elems(t) : q \in H \ Takes(r) /\ Needed(q) \subseteq H \ Takes(r)
    BY <1>2, <1>3 DEF Releases
  <1>5. \A p \in H \ Takes(r) : p \in left \/ \E q \in Elems(t) : p \in Takes(q)
    BY <1>2 DEF Releases
  <1> QED
    BY <1>1, <1>2, <1>4, <1>5 DEF Releases

(* It is enough that what is released is there. *)
LEMMA SortedReleases ==
  ASSUME NEW k \in Nat, NEW list, Sorted(list), NEW left,
         \A r \in Elems(list) : Since[r] <= k /\ Takes(r) \cap left = {},
         \A r \in Got(k) : r \in left \/ \E q \in Elems(list) : r \in Takes(q),
         left \subseteq Got(k)
  PROVE  Releases(list, Got(k), left)
PROOF
  <1>1. ASSUME NEW r \in Elems(list)
        PROVE  r \in Got(k) /\ Needed(r) \subseteq Got(k)
    <2>1. r \in Released /\ r \in Resource /\ Since[r] \in Nat
      BY RankIs, SinceIs DEF Sorted, Elems
    <2>2. ASSUME NEW n \in Needed(r) PROVE n \in Got(k)
      <3>1. n \in Released /\ Since[n] <= Since[r]
        BY <2>1, NeededIs
      <3>2. n \in Resource /\ Since[n] \in Nat
        BY <3>1, RankIs, SinceIs
      <3> QED
        BY <2>1, <3>1, <3>2 DEF Got
    <2> QED
      BY <2>1, <2>2 DEF Got
  <1> QED
    BY <1>1 DEF Releases

(* A slice of a list that is given with the ranks of its elements. *)
LEMMA SliceIs ==
  ASSUME NEW s, NEW f \in Int, NEW m \in Int, NEW n \in Int, m <= n + 1,
         \A i \in m..n : s[i] \in Released /\ Rank[s[i]] = i + f
  PROVE  /\ Sorted(SubSeq(s, m, n))
         /\ Elems(SubSeq(s, m, n)) = {r \in Released : m + f <= Rank[r] /\ Rank[r] <= n + f}
PROOF
  <1>1. PICK l : l = SubSeq(s, m, n)
    OBVIOUS
  <1>2. /\ l \in Seq(Released)
        /\ Len(l) = (IF m <= n THEN n - m + 1 ELSE 0)
        /\ \A i \in 1..(n - m + 1) : l[i] = s[m + i - 1]
    BY <1>1, SubSeqProperties
  <1>3. Len(l) = n - m + 1
    BY <1>2
  <1>4. ASSUME NEW i \in 1..Len(l)
        PROVE  l[i] \in Released /\ Rank[l[i]] = m + i - 1 + f
    <2>1. m + i - 1 \in m..n /\ l[i] = s[m + i - 1]
      BY <1>2, <1>3
    <2> QED
      BY <2>1
  <1>5. \A i, j \in 1..Len(l) : i < j => Rank[l[i]] < Rank[l[j]]
    <2> SUFFICES ASSUME NEW i \in 1..Len(l), NEW j \in 1..Len(l), i < j
                 PROVE  Rank[l[i]] < Rank[l[j]]
      OBVIOUS
    <2>1. Rank[l[i]] = m + i - 1 + f /\ Rank[l[j]] = m + j - 1 + f
      BY <1>4
    <2> QED
      BY <1>3, <2>1
  <1>6. ASSUME NEW r \in Elems(l)
        PROVE  r \in Released /\ m + f <= Rank[r] /\ Rank[r] <= n + f
    <2>1. PICK i \in 1..Len(l) : r = l[i]
      BY DEF Elems
    <2>2. l[i] \in Released /\ Rank[l[i]] = m + i - 1 + f
      BY <1>4
    <2> QED
      BY <1>3, <2>1, <2>2
  <1>7. ASSUME NEW r \in Released, m + f <= Rank[r], Rank[r] <= n + f
        PROVE  r \in Elems(l)
    <2>1. Rank[r] \in Int
      BY RankIs
    <2>2. PICK i : i = Rank[r] - f - m + 1
      OBVIOUS
    <2>3. i \in 1..Len(l) /\ m + i - 1 + f = Rank[r]
      BY <1>3, <1>7, <2>1, <2>2
    <2>4. l[i] \in Released /\ Rank[l[i]] = Rank[r]
      BY <1>4, <2>3
    <2>5. l[i] = r
      BY <2>4, RankIsOne
    <2> QED
      BY <2>3, <2>5 DEF Elems
  <1> QED
    BY <1>1, <1>2, <1>5, <1>6, <1>7 DEF Sorted

(* From the label on: what ranks from the first that is released. *)
LEMMA FailSuffix ==
  ASSUME NEW p \in 1..19
  PROVE  /\ Sorted(SubSeq(BackendFail, p, 18))
         /\ Elems(SubSeq(BackendFail, p, 18)) = {r \in Released : Rank[r] >= p + 9}
PROOF
  <1>1. \A i \in p..18 : BackendFail[i] \in Released /\ Rank[BackendFail[i]] = i + 9
    <2> TAKE i \in p..18
    <2>1. i \in 1..18
      OBVIOUS
    <2> QED
      BY <2>1, BackendFailIs
  <1>2. /\ Sorted(SubSeq(BackendFail, p, 18))
        /\ Elems(SubSeq(BackendFail, p, 18)) =
             {r \in Released : p + 9 <= Rank[r] /\ Rank[r] <= 18 + 9}
    <2>1. p \in Int /\ 18 \in Int /\ 9 \in Int /\ p <= 18 + 1
      OBVIOUS
    <2>2. PICK s, f, n : s = BackendFail /\ f = 9 /\ n = 18
      OBVIOUS
    <2>3. f \in Int /\ n \in Int /\ p <= n + 1
      BY <2>1, <2>2
    <2>4. \A i \in p..n : s[i] \in Released /\ Rank[s[i]] = i + f
      BY <1>1, <2>2
    <2>5. /\ Sorted(SubSeq(s, p, n))
          /\ Elems(SubSeq(s, p, n)) = {r \in Released : p + f <= Rank[r] /\ Rank[r] <= n + f}
      BY <2>1, <2>3, <2>4, SliceIs
    <2> QED
      BY <2>2, <2>5
  <1>3. \A r \in Released : Rank[r] \in Nat /\ Rank[r] <= 18 + 9
    BY RankIs
  <1> QED
    BY <1>2, <1>3

LEMMA FailList ==
  ASSUME NEW k \in 1..15, NEW l, l = goto(BackendNew[k].fails)
  PROVE  Sorted(l) /\ Elems(l) = {r \in Released : Rank[r] >= Least[k]}
PROOF
  <1>1. Least[k] \in 10..28 /\ (k = 1 => Least[k] = 28)
    BY DEF Least
  <1>2. CASE k = 1
    <2>1. l = <<>>
      BY <1>2, LabelsAre DEF goto
    <2>2. Sorted(<<>>) /\ Elems(<<>>) = {}
      BY DEF Sorted, Elems
    <2> QED
      BY <1>1, <1>2, <2>1, <2>2, RankIs
  <1>3. CASE k # 1
    <2> DEFINE r == First[BackendNew[k].fails]
               p == Least[k] - 9
    <2>1. /\ r \in Released /\ Rank[r] = Least[k] /\ l = From(BackendFail, r)
      BY <1>3, LabelsAre DEF goto
    <2> HIDE DEF r
    <2>2. p \in 1..19 /\ p <= 18
      BY <1>1, <2>1, RankIs
    <2>8. p + 9 = Least[k]
      BY <1>1
    <2> HIDE DEF p
    <2>3. BackendFail[p] = r
      <3>1. BackendFail[p] \in Released /\ Rank[BackendFail[p]] = p + 9
        <4>1. p \in 1..18
          BY <2>2
        <4> QED
          BY <4>1, BackendFailIs
      <3>2. Rank[BackendFail[p]] = Rank[r]
        BY <2>1, <2>8, <3>1
      <3> QED
        BY <2>1, <3>1, <3>2, RankIsOne
    <2>4. \A i \in 1..18 : BackendFail[i] = r => i = p
      <3> SUFFICES ASSUME NEW i \in 1..18, BackendFail[i] = r
                   PROVE  i = p
        OBVIOUS
      <3>1. Rank[BackendFail[i]] = i + 9
        BY BackendFailIs
      <3> QED
        BY <2>1, <2>2, <2>8, <3>1
    <2>5. DOMAIN BackendFail = 1..18 /\ Len(BackendFail) = 18
      BY BackendFailIs
    <2>6. (CHOOSE i \in 1..18 : BackendFail[i] = r) = p
      BY <2>2, <2>3, <2>4
    <2>7. l = SubSeq(BackendFail, p, 18)
      BY <2>1, <2>5, <2>6 DEF From
    <2> QED
      BY <2>2, <2>7, <2>8, FailSuffix
  <1> QED
    BY <1>2, <1>3

LEMMA FreeList ==
  /\ Sorted(BackendFree)
  /\ Elems(BackendFree) = {r \in Released : Rank[r] >= 9 /\ r # "compositor"}
PROOF
  <1>1. Sorted(BackendFree)
    <2>1. BackendFree \in Seq(Released) /\ Len(BackendFree) = 18
      BY BackendFreeIs
    <2>2. ASSUME NEW i \in 1..18, NEW j \in 1..18, i < j
          PROVE  Rank[BackendFree[i]] < Rank[BackendFree[j]]
      <3>1. /\ Rank[BackendFree[i]] = IF i <= 13 THEN i + 8 ELSE i + 9
            /\ Rank[BackendFree[j]] = IF j <= 13 THEN j + 8 ELSE j + 9
        BY BackendFreeIs
      <3> QED
        BY <2>2, <3>1
    <2> QED
      BY <2>1, <2>2 DEF Sorted
  <1>2. "compositor" \in Released /\ Rank["compositor"] = 22
    BY DEF Rank, Released
  <1>3. \A r \in Elems(BackendFree) : r \in Released /\ Rank[r] >= 9 /\ Rank[r] # 22
    <2> TAKE r \in Elems(BackendFree)
    <2>1. PICK i \in 1..18 : r = BackendFree[i]
      BY BackendFreeIs DEF Elems
    <2>2. /\ BackendFree[i] \in Released
          /\ Rank[BackendFree[i]] = IF i <= 13 THEN i + 8 ELSE i + 9
      BY BackendFreeIs
    <2> QED
      BY <2>1, <2>2
  <1>4. ASSUME NEW r \in Released, Rank[r] >= 9, r # "compositor"
        PROVE  r \in Elems(BackendFree)
    <2>1. Rank[r] # 22
      BY <1>2, <1>4, RankIsOne
    <2>2. PICK i \in 1..18 : Rank[r] = IF i <= 13 THEN i + 8 ELSE i + 9
      <3>1. CASE Rank[r] < 22
        <4>1. Rank[r] - 8 \in 1..13 /\ Rank[r] = (Rank[r] - 8) + 8
          BY <1>4, <3>1, RankIs
        <4> QED
          BY <4>1
      <3>2. CASE Rank[r] > 22
        <4>1. Rank[r] - 9 \in 14..18 /\ Rank[r] = (Rank[r] - 9) + 9
          BY <3>2, RankIs
        <4> QED
          BY <4>1
      <3> QED
        BY <1>4, <2>1, <3>1, <3>2, RankIs
    <2>3. BackendFree[i] \in Released /\ Rank[BackendFree[i]] = Rank[r]
      BY <2>2, BackendFreeIs
    <2>4. r = BackendFree[i]
      BY <2>3, RankIsOne
    <2> QED
      BY <2>4, BackendFreeIs DEF Elems
  <1> QED
    BY <1>1, <1>2, <1>3, <1>4

(* With the workspaces that there are. *)
LEMMA WorkspacesList ==
  ASSUME NEW k \in 16..24, held = Got(k)
  PROVE  /\ Sorted(cu_workspaces)
         /\ Elems(cu_workspaces) = {r \in Released : /\ Rank[r] > 1 /\ r # "compositor"
                                                     /\ Since[r] <= k}
PROOF
  <1> DEFINE n == IF k <= 22 THEN k - 16 ELSE 6
             l == SubSeq(Workspaces, 1, n)
  <1>1. n \in 0..6
    OBVIOUS
  <1>2. g_nworkspaces = n
    <2>1. DOMAIN Workspaces = 1..6
      BY WorkspacesAre
    <2>2. \A i \in 1..6 : Workspaces[i] \in held <=> i <= n
      <3>1. \A i \in 1..6 : Workspaces[i] \in Resource /\ Since[Workspaces[i]] = i + 16
        BY WorkspacesAre, RankIs
      <3> QED
        BY <3>1 DEF Got
    <2>3. {i \in DOMAIN Workspaces : Workspaces[i] \in held} = 1..n
      BY <1>1, <2>1, <2>2
    <2>4. Cardinality(1..n) = n
      BY <1>1, FS_Interval
    <2> QED
      BY <2>3, <2>4 DEF g_nworkspaces
  <1>4. cu_workspaces = l \o <<"g_workspaces">> \o BackendFree
    BY <1>2 DEF cu_workspaces
  <1>5. Sorted(l) /\ Elems(l) = {r \in Released : 2 <= Rank[r] /\ Rank[r] <= n + 1}
    <2> HIDE DEF n
    <2>1. PICK s, f, m : s = Workspaces /\ f = 1 /\ m = 1
      OBVIOUS
    <2>2. f \in Int /\ m \in Int /\ n \in Int /\ m <= n + 1
      BY <1>1, <2>1
    <2>3. \A i \in m..n : s[i] \in Released /\ Rank[s[i]] = i + f
      <3> TAKE i \in m..n
      <3>1. i \in 1..6
        BY <1>1, <2>1
      <3>2. Workspaces[i] \in Released /\ Rank[Workspaces[i]] = i + 1
        BY <3>1, WorkspacesAre
      <3> QED
        BY <2>1, <3>2
    <2>4. /\ Sorted(SubSeq(s, m, n))
          /\ Elems(SubSeq(s, m, n)) = {r \in Released : m + f <= Rank[r] /\ Rank[r] <= n + f}
      BY <2>2, <2>3, SliceIs
    <2> QED
      BY <2>1, <2>4
  <1>6. Elems(l) = {r \in Released : Rank[r] > 1 /\ Rank[r] < 8 /\ Since[r] <= k}
    <2>1. \A r \in Released : Rank[r] > 1 /\ Rank[r] < 8 => Since[r] = Rank[r] + 15
      BY DEF Released, Rank, Since
    <2>2. ASSUME NEW r \in Released
          PROVE  2 <= Rank[r] /\ Rank[r] <= n + 1 <=>
                   Rank[r] > 1 /\ Rank[r] < 8 /\ Since[r] <= k
      <3>1. Rank[r] \in Nat /\ Since[r] \in Nat
        BY RankIs
      <3> QED
        BY <1>1, <2>1, <3>1
    <2> QED
      BY <1>5, <2>2
  <1>7. "g_workspaces" \in Released /\ Rank["g_workspaces"] = 8 /\ Since["g_workspaces"] = 16
    BY DEF Rank, Since, Released
  <1>8. Sorted(<<"g_workspaces">>) /\ Elems(<<"g_workspaces">>) = {"g_workspaces"}
    BY <1>7, ElemsOfOne DEF Sorted
  <1> HIDE DEF l, n
  <1>9. /\ Sorted(l \o <<"g_workspaces">>)
        /\ Elems(l \o <<"g_workspaces">>) = Elems(l) \cup {"g_workspaces"}
    <2>1. \A r \in Elems(l), s \in Elems(<<"g_workspaces">>) : Rank[r] < Rank[s]
      BY <1>6, <1>7, <1>8
    <2> QED
      BY <1>5, <1>8, <2>1, SortedConcat
  <1>10. /\ Sorted(cu_workspaces)
         /\ Elems(cu_workspaces) = Elems(l) \cup {"g_workspaces"} \cup Elems(BackendFree)
    <2>1. \A r \in Elems(l \o <<"g_workspaces">>), s \in Elems(BackendFree) :
            Rank[r] < Rank[s]
      BY <1>6, <1>7, <1>9, FreeList, RankIs
    <2> QED
      BY <1>4, <1>9, <2>1, FreeList, SortedConcat
  <1>11. \A r \in Released : Rank[r] >= 9 => Since[r] <= 15
    BY DEF Rank, Since, Released
  <1>12. \A r \in Released : Rank[r] = 8 <=> r = "g_workspaces"
    BY <1>7, RankIsOne
  <1> QED
    <2>1. \A r \in Elems(cu_workspaces) :
            r \in Released /\ Rank[r] > 1 /\ r # "compositor" /\ Since[r] <= k
      <3>1. Rank["compositor"] = 22
        BY DEF Rank
      <3> QED
        BY <1>6, <1>7, <1>10, <1>11, <3>1, FreeList, RankIs
    <2>2. ASSUME NEW r \in Released, Rank[r] > 1, r # "compositor", Since[r] <= k
          PROVE  r \in Elems(cu_workspaces)
      <3>1. Rank[r] < 8 \/ Rank[r] = 8 \/ Rank[r] >= 9
        BY RankIs
      <3> QED
        BY <1>6, <1>10, <1>12, <2>2, <3>1, FreeList
    <2> QED
      BY <1>10, <2>1, <2>2

(* Setup acquires what Since says, and goes where Least says. *)
Labels == DOMAIN First \cup {"return", "cu_backend", "cu_workspaces"}
Steps  == [gets : SUBSET Resource, fails : Labels]

LEMMA GetIs ==
  ASSUME NEW g \in SUBSET Resource, NEW l \in Labels
  PROVE  Get(g, l) \in Steps /\ Get(g, l).gets = g /\ Get(g, l).fails = l
BY DEF Get, Steps

LEMMA ConcatIs ==
  ASSUME NEW T, NEW p \in Seq(T), NEW q \in Seq(T), NEW r, r = p \o q,
         NEW n \in Nat, NEW m \in Nat, n = Len(p), m = Len(q)
  PROVE  /\ r \in Seq(T) /\ Len(r) = n + m
         /\ \A i \in 1..n : r[i] = p[i]
         /\ \A i \in 1..m : r[n + i] = q[i]
PROOF
  <1>1. r \in Seq(T) /\ Len(r) = n + m
    OBVIOUS
  <1>2. /\ \A i \in 1..Len(p) : (p \o q)[i] = p[i]
        /\ \A i \in 1..Len(q) : (p \o q)[Len(p) + i] = q[i]
    OBVIOUS
  <1>3. /\ \A i \in 1..n : r[i] = p[i]
        /\ \A i \in 1..m : r[n + i] = q[i]
    BY <1>2
  <1> QED
    BY <1>1, <1>3

LEMMA WorkspaceRanks ==
  \A r \in Resource : Since[r] > 16 /\ Since[r] < 23 =>
    r \in Released /\ Since[r] = Rank[r] + 15
BY DEF Resource, Released, Since, Rank

LEMMA LoopIs ==
  ASSUME NEW loop, loop = [i \in 1..Len(Workspaces) |-> Get({Workspaces[i]}, "cu_workspaces")]
  PROVE  /\ loop \in Seq(Steps) /\ Len(loop) = 6
         /\ \A i \in 1..6 : /\ loop[i].gets = {r \in Resource : Since[r] = i + 16}
                             /\ loop[i].fails = "cu_workspaces"
PROOF
  <1>1. Len(Workspaces) = 6
    BY WorkspacesAre
  <1>2. ASSUME NEW i \in 1..6
        PROVE  {Workspaces[i]} = {r \in Resource : Since[r] = i + 16}
    <2>1. /\ Workspaces[i] \in Released
          /\ Rank[Workspaces[i]] = i + 1 /\ Since[Workspaces[i]] = i + 16
      BY WorkspacesAre
    <2>2. Workspaces[i] \in Resource
      BY <2>1, RankIs
    <2>3. \A r \in Resource : Since[r] > 16 /\ Since[r] < 23 =>
            r \in Released /\ Since[r] = Rank[r] + 15
      BY WorkspaceRanks
    <2>4. ASSUME NEW r \in Resource, Since[r] = i + 16 PROVE r = Workspaces[i]
      <3>1. r \in Released /\ Since[r] = Rank[r] + 15
        BY <2>3, <2>4
      <3>2. Rank[r] \in Nat
        BY <3>1, RankIs
      <3>3. Rank[r] = Rank[Workspaces[i]]
        BY <2>1, <2>4, <3>1, <3>2
      <3> QED
        BY <2>1, <3>1, <3>3, RankIsOne
    <2> QED
      BY <2>1, <2>2, <2>4
  <1>3. ASSUME NEW i \in 1..6
        PROVE  /\ loop[i].gets = {r \in Resource : Since[r] = i + 16}
               /\ loop[i].fails = "cu_workspaces"
               /\ loop[i] \in Steps
    <2>1. loop[i] = Get({Workspaces[i]}, "cu_workspaces")
      BY <1>1
    <2>2. {Workspaces[i]} \in SUBSET Resource /\ "cu_workspaces" \in Labels
      BY <1>2 DEF Labels
    <2>3. PICK g : g = {Workspaces[i]}
      OBVIOUS
    <2>4. PICK l : l = "cu_workspaces"
      OBVIOUS
    <2>5. g \in SUBSET Resource /\ l \in Labels
      BY <2>2, <2>3, <2>4
    <2>6. Get(g, l) \in Steps /\ Get(g, l).gets = g /\ Get(g, l).fails = l
      BY <2>5, GetIs
    <2>7. loop[i] = Get(g, l)
      BY <2>1, <2>3, <2>4
    <2>8. loop[i].gets = g /\ loop[i].fails = l /\ loop[i] \in Steps
      BY <2>6, <2>7
    <2> QED
      BY <1>2, <2>3, <2>4, <2>8
  <1>4. loop = [i \in 1..6 |-> loop[i]]
    BY <1>1
  <1>5. loop \in Seq(Steps) /\ Len(loop) = 6
    <2>1. loop \in [1..6 -> Steps]
      BY <1>3, <1>4
    <2>2. loop \in Seq(Steps)
      BY <2>1, SeqDef
    <2>3. DOMAIN loop = 1..6 /\ DOMAIN loop = 1..Len(loop) /\ Len(loop) \in Nat
      BY <2>1, <2>2, LenProperties
    <2>4. 6 \in 1..Len(loop) /\ 7 \notin 1..Len(loop)
      BY <2>3
    <2>5. Len(loop) = 6
      <3>1. PICK m : m = Len(loop)
        OBVIOUS
      <3>2. m \in Nat /\ 6 \in 1..m /\ 7 \notin 1..m
        BY <2>3, <2>4, <3>1
      <3>3. m = 6
        BY <3>2
      <3> QED
        BY <3>1, <3>3
    <2> QED
      BY <2>2, <2>5
  <1> QED
    BY <1>3, <1>5

LEMMA BackendNewSteps == BackendNew \in Seq(Steps)
PROOF
  <1>1. \A k \in 1..15 : BackendNew[k].fails \in Labels
    BY DEF BackendNew, Get, Labels, First
  <1>2. \A k \in 1..15 : BackendNew[k].gets \in SUBSET Resource
    BY BackendNewIs
  <1>3. \A k \in 1..15 :
          BackendNew[k] = [gets |-> BackendNew[k].gets, fails |-> BackendNew[k].fails]
    BY DEF BackendNew, Get
  <1>4. \A k \in 1..15 : BackendNew[k] \in Steps
    BY <1>1, <1>2, <1>3 DEF Steps
  <1>5. BackendNew = [k \in 1..15 |-> BackendNew[k]]
    BY DEF BackendNew
  <1>6. BackendNew \in [1..15 -> Steps]
    BY <1>4, <1>5
  <1>7. 15 \in Nat
    OBVIOUS
  <1> QED
    BY <1>6, <1>7, SeqDef

LEMMA SetupIs ==
  /\ Setup \in Seq(Steps) /\ Len(Setup) = 24
  /\ \A k \in 1..24 : Setup[k].gets = {r \in Resource : Since[r] = k}
  /\ \A k \in 1..15 : Setup[k] = BackendNew[k]
  /\ Setup[16].fails = "cu_backend"
  /\ \A k \in 17..24 : Setup[k].fails = "cu_workspaces"
PROOF
  <1>1. PICK loop, one, end, new :
          /\ loop = [i \in 1..Len(Workspaces) |-> Get({Workspaces[i]}, "cu_workspaces")]
          /\ one = << Get({"g_workspaces"}, "cu_backend") >>
          /\ end = << Get({"g_screens"}, "cu_workspaces"), Get({}, "cu_workspaces") >>
          /\ new = BackendNew
    OBVIOUS
  <1>2. Setup = ((new \o one) \o loop) \o end
    BY <1>1 DEF Setup
  <1>3. /\ one \in Seq(Steps) /\ Len(one) = 1
        /\ one[1].gets = {r \in Resource : Since[r] = 16} /\ one[1].fails = "cu_backend"
    <2>1. {"g_workspaces"} = {r \in Resource : Since[r] = 16}
      BY DEF Resource, Since
    <2>2. {"g_workspaces"} \in SUBSET Resource /\ "cu_backend" \in Labels
      BY <2>1 DEF Labels
    <2>3. PICK g : g = Get({"g_workspaces"}, "cu_backend")
      OBVIOUS
    <2>4. g \in Steps /\ g.gets = {"g_workspaces"} /\ g.fails = "cu_backend"
      BY <2>2, <2>3, GetIs
    <2> QED
      BY <1>1, <2>1, <2>3, <2>4
  <1>4. /\ end \in Seq(Steps) /\ Len(end) = 2
        /\ end[1].gets = {r \in Resource : Since[r] = 23}
        /\ end[2].gets = {r \in Resource : Since[r] = 24}
        /\ end[1].fails = "cu_workspaces" /\ end[2].fails = "cu_workspaces"
    <2>1. /\ {"g_screens"} = {r \in Resource : Since[r] = 23}
          /\ {} = {r \in Resource : Since[r] = 24}
      BY DEF Resource, Since
    <2>2. /\ {"g_screens"} \in SUBSET Resource /\ {} \in SUBSET Resource
          /\ "cu_workspaces" \in Labels
      BY <2>1 DEF Labels
    <2>3. PICK g, h : g = Get({"g_screens"}, "cu_workspaces") /\ h = Get({}, "cu_workspaces")
      OBVIOUS
    <2>4. /\ g \in Steps /\ g.gets = {"g_screens"} /\ g.fails = "cu_workspaces"
          /\ h \in Steps /\ h.gets = {} /\ h.fails = "cu_workspaces"
      BY <2>2, <2>3, GetIs
    <2>5. end = <<g, h>>
      BY <1>1, <2>3
    <2> QED
      BY <2>1, <2>4, <2>5
  <1>5. /\ loop \in Seq(Steps) /\ Len(loop) = 6
        /\ \A i \in 1..6 : /\ loop[i].gets = {r \in Resource : Since[r] = i + 16}
                            /\ loop[i].fails = "cu_workspaces"
    BY <1>1, LoopIs
  <1>6. /\ new \in Seq(Steps) /\ Len(new) = 15
        /\ \A i \in 1..15 : new[i].gets = {r \in Resource : Since[r] = i}
    BY <1>1, BackendNewIs, BackendNewSteps
  <1>7. PICK a : a = new \o one
    OBVIOUS
  <1>8. /\ a \in Seq(Steps) /\ Len(a) = 16
        /\ \A i \in 1..15 : a[i] = new[i]
        /\ \A i \in 1..1 : a[15 + i] = one[i]
    <2>1. PICK n, m : n \in Nat /\ m \in Nat /\ n = 15 /\ m = 1
      OBVIOUS
    <2>2. /\ n \in Nat /\ m \in Nat /\ n = Len(new) /\ m = Len(one)
          /\ new \in Seq(Steps) /\ one \in Seq(Steps)
      BY <2>1, <1>3, <1>6
    <2>3. /\ a \in Seq(Steps) /\ Len(a) = n + m
          /\ \A i \in 1..n : a[i] = new[i]
          /\ \A i \in 1..m : a[n + i] = one[i]
      BY <1>7, <2>2, ConcatIs
    <2> QED
      BY <2>1, <2>3
  <1>9. PICK b : b = a \o loop
    OBVIOUS
  <1>10. /\ b \in Seq(Steps) /\ Len(b) = 22
         /\ \A i \in 1..16 : b[i] = a[i]
         /\ \A i \in 1..6 : b[16 + i] = loop[i]
    <2>1. PICK n, m : n \in Nat /\ m \in Nat /\ n = 16 /\ m = 6
      OBVIOUS
    <2>2. /\ n \in Nat /\ m \in Nat /\ n = Len(a) /\ m = Len(loop)
          /\ a \in Seq(Steps) /\ loop \in Seq(Steps)
      BY <2>1, <1>5, <1>8
    <2>3. /\ b \in Seq(Steps) /\ Len(b) = n + m
          /\ \A i \in 1..n : b[i] = a[i]
          /\ \A i \in 1..m : b[n + i] = loop[i]
      BY <1>9, <2>2, ConcatIs
    <2> QED
      BY <2>1, <2>3
  <1>11. PICK c : c = b \o end
    OBVIOUS
  <1>12. /\ c \in Seq(Steps) /\ Len(c) = 24
         /\ \A i \in 1..22 : c[i] = b[i]
         /\ \A i \in 1..2 : c[22 + i] = end[i]
    <2>1. PICK n, m : n \in Nat /\ m \in Nat /\ n = 22 /\ m = 2
      OBVIOUS
    <2>2. /\ n \in Nat /\ m \in Nat /\ n = Len(b) /\ m = Len(end)
          /\ b \in Seq(Steps) /\ end \in Seq(Steps)
      BY <2>1, <1>4, <1>10
    <2>3. /\ c \in Seq(Steps) /\ Len(c) = n + m
          /\ \A i \in 1..n : c[i] = b[i]
          /\ \A i \in 1..m : c[n + i] = end[i]
      BY <1>11, <2>2, ConcatIs
    <2> QED
      BY <2>1, <2>3
  <1>13. Setup = c
    BY <1>2, <1>7, <1>9, <1>11
  <1>14. /\ \A i \in 1..15 : c[i] = new[i]
         /\ c[16] = one[1]
         /\ \A i \in 17..22 : c[i] = loop[i - 16] /\ i - 16 \in 1..6
         /\ c[23] = end[1] /\ c[24] = end[2]
    <2>1. \A i \in 1..15 : c[i] = new[i]
      <3> TAKE i \in 1..15
      <3>1. c[i] = b[i]
        BY <1>12
      <3>2. b[i] = a[i]
        BY <1>10
      <3>3. a[i] = new[i]
        BY <1>8
      <3> QED
        BY <3>1, <3>2, <3>3
    <2>2. c[16] = one[1]
      <3>1. c[16] = b[16] /\ b[16] = a[16]
        BY <1>10, <1>12
      <3>2. 1 \in 1..1 /\ 15 + 1 = 16
        OBVIOUS
      <3>3. a[15 + 1] = one[1]
        BY <1>8, <3>2
      <3> QED
        BY <3>1, <3>2, <3>3
    <2>3. \A i \in 17..22 : c[i] = loop[i - 16] /\ i - 16 \in 1..6
      <3> TAKE i \in 17..22
      <3>1. i - 16 \in 1..6 /\ 16 + (i - 16) = i
        OBVIOUS
      <3>2. b[16 + (i - 16)] = loop[i - 16]
        BY <1>10, <3>1
      <3>3. c[i] = b[i]
        BY <1>12
      <3> QED
        BY <3>1, <3>2, <3>3
    <2>4. c[23] = end[1] /\ c[24] = end[2]
      <3>1. 1 \in 1..2 /\ 2 \in 1..2 /\ 22 + 1 = 23 /\ 22 + 2 = 24
        OBVIOUS
      <3>2. c[22 + 1] = end[1] /\ c[22 + 2] = end[2]
        BY <1>12, <3>1
      <3> QED
        BY <3>1, <3>2
    <2> QED
      BY <2>1, <2>2, <2>3, <2>4
  <1>15. ASSUME NEW k \in 1..24
         PROVE  c[k].gets = {r \in Resource : Since[r] = k}
    <2>1. CASE k \in 1..15
      BY <1>6, <1>14, <2>1
    <2>2. CASE k = 16
      BY <1>3, <1>14, <2>2
    <2>3. CASE k \in 17..22
      <3>1. c[k] = loop[k - 16] /\ k - 16 \in 1..6 /\ (k - 16) + 16 = k
        BY <1>14, <2>3
      <3> QED
        BY <1>5, <3>1
    <2>4. CASE k = 23 \/ k = 24
      BY <1>4, <1>14, <2>4
    <2> QED
      BY <2>1, <2>2, <2>3, <2>4
  <1>16. ASSUME NEW k \in 17..24
         PROVE  c[k].fails = "cu_workspaces"
    <2>1. CASE k \in 17..22
      BY <1>5, <1>14, <2>1
    <2>2. CASE k = 23 \/ k = 24
      BY <1>4, <1>14, <2>2
    <2> QED
      BY <2>1, <2>2
  <1> QED
    BY <1>1, <1>3, <1>12, <1>13, <1>14, <1>15, <1>16

(* What is left of the setup after k steps. *)
Rest(k) == SubSeq(Setup, k + 1, 24)

LEMMA RestIs ==
  /\ Rest(0) = Setup /\ Rest(24) = <<>>
  /\ \A k \in 0..23 : /\ Rest(k) # <<>> /\ Head(Rest(k)) = Setup[k + 1]
                      /\ Tail(Rest(k)) = Rest(k + 1)
PROOF
  <1>1. Rest(0) = Setup
    BY SetupIs, SubSeqFull DEF Rest
  <1>2. Rest(24) = <<>>
    BY SubSeqEmpty DEF Rest
  <1>3. ASSUME NEW k \in 0..23
        PROVE  /\ Rest(k) # <<>> /\ Head(Rest(k)) = Setup[k + 1]
               /\ Tail(Rest(k)) = Rest(k + 1)
    <2>1. PICK s, m, n : s = Setup /\ m = k + 1 /\ n = 24
      OBVIOUS
    <2>2. /\ s \in Seq(Steps) /\ m \in 1..Len(s) /\ n \in m..Len(s) /\ m \in Int /\ n \in Int
      BY <2>1, SetupIs
    <2>3. \A i \in m..n : s[i] \in Steps
      BY <2>2
    <2>4. Len(SubSeq(s, m, n)) = n - m + 1
      BY <2>2, <2>3, SubSeqProperties
    <2>5. SubSeq(s, m, n) # <<>>
      BY <2>2, <2>4
    <2>6. Head(SubSeq(s, m, n)) = s[m] /\ Tail(SubSeq(s, m, n)) = SubSeq(s, m + 1, n)
      BY <2>2, HeadTailOfSubSeq
    <2> QED
      BY <2>1, <2>5, <2>6 DEF Rest
  <1> QED
    BY <1>1, <1>2, <1>3

LEMMA GotIs ==
  /\ Got(0) = {}
  /\ \A k \in 0..23 : Got(k + 1) = Got(k) \cup {r \in Resource : Since[r] = k + 1}
  /\ Got(23) = Got(24)
PROOF
  <1>1. \A r \in Resource : Since[r] \in Nat /\ Since[r] >= 1 /\ Since[r] <= 23
    BY SinceIs
  <1>2. Got(0) = {}
    BY <1>1 DEF Got
  <1>3. ASSUME NEW k \in 0..23
        PROVE  Got(k + 1) = Got(k) \cup {r \in Resource : Since[r] = k + 1}
    BY <1>1 DEF Got
  <1>4. Got(23) = Got(24)
    BY <1>1 DEF Got
  <1> QED
    BY <1>2, <1>3, <1>4

(* A list in the order of the ranks releases what was acquired, if it names *)
(* all of it but for what goes along with the display and the backend.      *)
Along == {"compositor", "socket", "new_input_device"}

LEMMA ListReleases ==
  ASSUME NEW k \in Nat, NEW list, Sorted(list), NEW left \in {{}, {"g_screens"}},
         left \subseteq Got(k),
         \A r \in Elems(list) : Since[r] <= k /\ r \notin left,
         \A r \in Got(k) : r \in Elems(list) \/ r \in left \/ r \in Along
  PROVE  Releases(list, Got(k), left)
PROOF
  <1>1. \A r \in Elems(list) : r \in Released
    BY DEF Sorted, Elems
  <1>2. \A r \in Elems(list) : r \in Takes(r) /\ Takes(r) \cap left = {}
    BY <1>1, TakesIs
  <1>3. ASSUME NEW r \in Got(k)
        PROVE  r \in left \/ \E q \in Elems(list) : r \in Takes(q)
    <2>1. CASE r \in Along
      <3>1. /\ "display" \in Resource /\ "wlr_backend" \in Resource
            /\ Since["display"] <= Since[r]
            /\ r = "new_input_device" => Since["wlr_backend"] <= Since[r]
            /\ Since[r] \in Nat /\ Since["display"] \in Nat /\ Since["wlr_backend"] \in Nat
        BY <2>1 DEF Along, Resource, Since
      <3>2. /\ "display" \in Got(k)
            /\ r = "new_input_device" => "wlr_backend" \in Got(k)
        BY <3>1 DEF Got
      <3>3. /\ "display" \notin left /\ "wlr_backend" \notin left
            /\ "display" \notin Along /\ "wlr_backend" \notin Along
        BY DEF Along
      <3>4. /\ "display" \in Elems(list)
            /\ r = "new_input_device" => "wlr_backend" \in Elems(list)
        BY <3>2, <3>3
      <3>5. r \in Takes("display") \/ (r = "new_input_device" /\ r \in Takes("wlr_backend"))
        BY <2>1 DEF Along, Takes
      <3> QED
        BY <3>4, <3>5
    <2> QED
      BY <1>2, <2>1
  <1> QED
    BY <1>2, <1>3, SortedReleases

LEMMA ResourceIs ==
  \A r \in Resource : r \in Released \/ r \in {"socket", "new_input_device"}
BY DEF Resource, Released, Since, Rank

(* The lists that the program goes through release what was acquired. *)
LEMMA FailReleases ==
  ASSUME NEW k \in 1..15, NEW list, list = goto(BackendNew[k].fails)
  PROVE  Releases(list, Got(k - 1), {})
PROOF
  <1>1. Sorted(list) /\ Elems(list) = {r \in Released : Rank[r] >= Least[k]}
    BY FailList
  <1>2. Least[k] \in Nat /\ Least[k] >= 10
    BY DEF Least
  <1>3. \A r \in Released : /\ Rank[r] \in Nat /\ Since[r] \in Nat
                            /\ Rank[r] >= 10 => (Rank[r] >= Least[k] <=> Since[r] < k)
    BY RankIs, LabelsAreOrdered
  <1>4. \A r \in Elems(list) : Since[r] <= k - 1 /\ r \notin {}
    BY <1>1, <1>2, <1>3
  <1>5. \A r \in Released : Rank[r] < 10 => Since[r] >= 15
    BY DEF Released, Rank, Since
  <1>6. ASSUME NEW r \in Got(k - 1)
        PROVE  r \in Elems(list) \/ r \in {} \/ r \in Along
    <2>1. r \in Resource /\ Since[r] <= k - 1
      BY DEF Got
    <2>2. CASE r \in Released
      BY <1>1, <1>3, <1>5, <2>1, <2>2
    <2> QED
      BY <2>1, <2>2, ResourceIs DEF Along
  <1>7. k - 1 \in Nat
    OBVIOUS
  <1> QED
    BY <1>1, <1>4, <1>6, <1>7, ListReleases

LEMMA FreeReleases == Releases(BackendFree, Got(15), {})
PROOF
  <1>1. \A r \in Released : Rank[r] >= 9 <=> Since[r] <= 15
    BY DEF Released, Rank, Since
  <1>2. \A r \in Elems(BackendFree) : Since[r] <= 15 /\ r \notin {}
    BY <1>1, FreeList
  <1>3. \A r \in Got(15) : r \in Elems(BackendFree) \/ r \in {} \/ r \in Along
    BY <1>1, FreeList, ResourceIs DEF Got, Along
  <1> QED
    BY <1>2, <1>3, FreeList, ListReleases

LEMMA WorkspacesRelease ==
  ASSUME NEW k \in 16..24, held = Got(k)
  PROVE  \E left \in {{}, {"g_screens"}} : Releases(cu_workspaces, held, left)
PROOF
  <1> DEFINE left == IF k <= 22 THEN {} ELSE {"g_screens"}
  <1>1. \A r \in Released : Rank[r] > 1 <=> r # "g_screens"
    BY DEF Released, Rank
  <1>2. "g_screens" \in Resource /\ Since["g_screens"] = 23
    BY DEF Resource, Since
  <1>3. left \subseteq Got(k)
    BY <1>2 DEF Got
  <1>4. \A r \in Elems(cu_workspaces) : Since[r] <= k /\ r \notin left
    BY <1>1, WorkspacesList
  <1>5. ASSUME NEW r \in Got(k)
        PROVE  r \in Elems(cu_workspaces) \/ r \in left \/ r \in Along
    <2>1. r \in Resource /\ Since[r] <= k
      BY DEF Got
    <2>2. r = "g_screens" => r \in left
      BY <1>2, <2>1
    <2>3. CASE r \in Released
      BY <1>1, <2>1, <2>2, <2>3, WorkspacesList DEF Along
    <2> QED
      BY <2>1, <2>3, ResourceIs DEF Along
  <1>6. left \in {{}, {"g_screens"}} /\ k \in Nat
    OBVIOUS
  <1> HIDE DEF left
  <1>7. Releases(cu_workspaces, Got(k), left)
    BY <1>3, <1>4, <1>5, <1>6, WorkspacesList, ListReleases
  <1> QED
    BY <1>6, <1>7

LEMMA ScreensRelease ==
  ASSUME held = Got(24)
  PROVE  cu_screens # <<>> /\ Releases(cu_screens, held, {})
PROOF
  <1>1. 24 \in 16..24 /\ 24 \in Nat
    OBVIOUS
  <1>2. /\ Sorted(cu_workspaces)
        /\ Elems(cu_workspaces) = {r \in Released : /\ Rank[r] > 1 /\ r # "compositor"
                                                    /\ Since[r] <= 24}
    BY <1>1, WorkspacesList
  <1>3. "g_screens" \in Released /\ Rank["g_screens"] = 1 /\ Since["g_screens"] = 23
    BY DEF Released, Rank, Since
  <1>4. Sorted(<<"g_screens">>) /\ Elems(<<"g_screens">>) = {"g_screens"}
    BY <1>3, ElemsOfOne DEF Sorted
  <1>5. \A r \in Elems(<<"g_screens">>), s \in Elems(cu_workspaces) : Rank[r] < Rank[s]
    BY <1>2, <1>3, <1>4, RankIs
  <1>6. /\ Sorted(cu_screens)
        /\ Elems(cu_screens) = {"g_screens"} \cup Elems(cu_workspaces)
    BY <1>2, <1>4, <1>5, SortedConcat DEF cu_screens
  <1>7. \A r \in Elems(cu_screens) : Since[r] <= 24 /\ r \notin {}
    BY <1>2, <1>3, <1>6
  <1>8. \A r \in Got(24) : r \in Elems(cu_screens) \/ r \in {} \/ r \in Along
    <2>1. \A r \in Released : Rank[r] > 1 \/ r = "g_screens"
      BY DEF Released, Rank
    <2> QED
      BY <1>2, <1>6, <2>1, ResourceIs DEF Got, Along
  <1>9. Releases(cu_screens, Got(24), {})
    BY <1>1, <1>6, <1>7, <1>8, ListReleases
  <1>10. cu_screens # <<>>
    BY <1>6 DEF Elems
  <1> QED
    BY <1>9, <1>10

(* What is to be acquired is what was not acquired yet; what is to be      *)
(* released is what is there, each before what it uses.                     *)
SettingUp ==
  stage = "setup" =>
    /\ fault = "none"
    /\ \E k \in 0..24 : todo = Rest(k) /\ held = Got(k)

Running == stage \in {"run", "stopping"} => fault = "none" /\ held = Got(24)

Ending ==
  /\ stage \in {"cleanup", "exited"} /\ fault = "none" =>
       \E left \in {{}, {"g_screens"}} : Releases(todo, held, left)
  /\ stage = "cleanup" => todo # <<>>
  /\ stage = "exited" => todo = <<>>

Stages == {"setup", "run", "stopping", "cleanup", "exited"}

EInv == stage \in Stages /\ SettingUp /\ Running /\ Ending /\ OrderlyEnd

LEMMA EndInit == Init => EInv
PROOF
  <1> SUFFICES ASSUME Init PROVE EInv
    OBVIOUS
  <1>1. stage = "setup" /\ todo = Setup /\ held = {} /\ fault = "none"
    BY DEF Init
  <1>2. 0 \in 0..24 /\ todo = Rest(0) /\ held = Got(0)
    BY <1>1, RestIs, GotIs
  <1>3. SettingUp
    BY <1>1, <1>2 DEF SettingUp
  <1> QED
    BY <1>1, <1>3 DEF EInv, Stages, Running, Ending, OrderlyEnd

(* The invariant holds from a list that releases what is held on:           *)
LEMMA CleanUpEnds ==
  ASSUME NEW list, CleanUp(list), held' = held, fault = "none", fault' = fault,
         \E left \in {{}, {"g_screens"}} : Releases(list, held, left)
  PROVE  EInv'
PROOF
  <1>1. todo' = list /\ stage' = (IF list = <<>> THEN "exited" ELSE "cleanup")
    BY DEF CleanUp
  <1>2. stage' \in Stages /\ stage' \notin {"setup", "run", "stopping"}
    BY <1>1 DEF Stages
  <1>3. SettingUp' /\ Running'
    BY <1>2 DEF SettingUp, Running
  <1>4. \E left \in {{}, {"g_screens"}} : Releases(todo', held', left)
    BY <1>1
  <1>5. Ending'
    <2>1. (stage = "cleanup")' => todo' # <<>>
      BY <1>1
    <2>2. (stage = "exited")' => todo' = <<>>
      BY <1>1
    <2> QED
      BY <1>4, <2>1, <2>2 DEF Ending
  <1> QED
    BY <1>2, <1>3, <1>5 DEF EInv, OrderlyEnd

LEMMA SetupStepIs ==
  ASSUME EInv, Main({"setup"}), todo # <<>>
  PROVE  \E k \in 1..24 : /\ Head(todo) = Setup[k] /\ Tail(todo) = Rest(k)
                          /\ held = Got(k - 1)
                          /\ held \cup Head(todo).gets = Got(k)
PROOF
  <1>1. PICK k \in 0..24 : todo = Rest(k) /\ held = Got(k)
    BY DEF EInv, SettingUp, Main
  <1>2. k \in 0..23 /\ k + 1 \in 1..24 /\ (k + 1) - 1 = k
    BY <1>1, RestIs
  <1>3. Head(todo) = Setup[k + 1] /\ Tail(todo) = Rest(k + 1)
    BY <1>1, <1>2, RestIs
  <1>4. Got(k + 1) = Got(k) \cup {r \in Resource : Since[r] = k + 1}
    BY <1>2, GotIs
  <1>5. Setup[k + 1].gets = {r \in Resource : Since[r] = k + 1}
    BY <1>2, SetupIs
  <1>6. held \cup Head(todo).gets = Got(k + 1)
    BY <1>1, <1>3, <1>4, <1>5
  <1> QED
    BY <1>1, <1>2, <1>3, <1>6

LEMMA AcquireEnds ==
  ASSUME EInv, Main({"setup"}), todo # <<>>, held' = held \cup Head(todo).gets,
         todo' = Tail(todo), stage' = stage, fault' = fault
  PROVE  EInv'
PROOF
  <1>1. stage = "setup" /\ fault = "none"
    BY DEF Main
  <1>2. PICK k \in 1..24 : Tail(todo) = Rest(k) /\ held \cup Head(todo).gets = Got(k)
    BY SetupStepIs
  <1>3. k \in 0..24 /\ todo' = Rest(k) /\ held' = Got(k)
    BY <1>2
  <1>4. SettingUp'
    BY <1>1, <1>3 DEF SettingUp
  <1> QED
    BY <1>1, <1>4 DEF EInv, Stages, Running, Ending, OrderlyEnd

(* after a step of the setup fails, *)
LEMMA FailEnds ==
  ASSUME EInv, fail
  PROVE  EInv'
PROOF
  <1>1. /\ Main({"setup"}) /\ todo # <<>> /\ CleanUp(on_failure(Head(todo)))
        /\ held' = held /\ fault = "none" /\ fault' = fault
    BY DEF fail, Main
  <1>2. PICK k \in 1..24 : Head(todo) = Setup[k] /\ held = Got(k - 1)
    BY <1>1, SetupStepIs
  <1>3. PICK list : list = on_failure(Head(todo))
    OBVIOUS
  <1>4. list = goto(Setup[k].fails)
    BY <1>2, <1>3 DEF on_failure
  <1>5. \E left \in {{}, {"g_screens"}} : Releases(list, held, left)
    <2>1. CASE k \in 1..15
      <3>1. list = goto(BackendNew[k].fails)
        BY <1>4, <2>1, SetupIs
      <3>2. Releases(list, Got(k - 1), {})
        BY <2>1, <3>1, FailReleases
      <3> QED
        BY <1>2, <3>2
    <2>2. CASE k = 16
      <3>1. list = BackendFree
        BY <1>4, <2>2, SetupIs DEF goto
      <3>2. held = Got(15)
        BY <1>2, <2>2
      <3> QED
        BY <3>1, <3>2, FreeReleases
    <2>3. CASE k \in 17..24
      <3>1. list = cu_workspaces
        BY <1>4, <2>3, SetupIs DEF goto
      <3>2. PICK j : j = k - 1
        OBVIOUS
      <3>3. j \in 16..24 /\ held = Got(j)
        BY <1>2, <2>3, <3>2
      <3> QED
        BY <3>1, <3>3, WorkspacesRelease
    <2> QED
      BY <2>1, <2>2, <2>3
  <1> QED
    BY <1>1, <1>3, <1>5, CleanUpEnds

(* after the backend does not start, and after it has run. *)
LEMMA RunEnds ==
  ASSUME EInv, backend_run
  PROVE  EInv'
PROOF
  <1>1. /\ Main({"setup"}) /\ todo = <<>> /\ stage = "setup" /\ fault = "none"
        /\ held' = held /\ (stage' = "run" \/ CleanUp(cu_screens))
    BY DEF backend_run, Main
  <1>2. fault' = fault
    BY DEF backend_run
  <1>3. PICK k \in 0..24 : todo = Rest(k) /\ held = Got(k)
    BY <1>1 DEF EInv, SettingUp
  <1>4. k = 24
    <2>1. k \notin 0..23
      BY <1>1, <1>3, RestIs
    <2> QED
      BY <2>1
  <1>5. held = Got(24)
    BY <1>3, <1>4
  <1>6. CASE stage' = "run"
    BY <1>1, <1>2, <1>5, <1>6 DEF EInv, Stages, SettingUp, Running, Ending, OrderlyEnd
  <1>7. CASE CleanUp(cu_screens)
    BY <1>1, <1>2, <1>5, <1>7, ScreensRelease, CleanUpEnds
  <1> QED
    BY <1>1, <1>6, <1>7

LEMMA ReturnEnds ==
  ASSUME EInv, run_returns
  PROVE  EInv'
PROOF
  <1>1. /\ stage = "stopping" /\ fault = "none" /\ held' = held /\ fault' = fault
        /\ CleanUp(cu_screens)
    BY DEF run_returns, Main
  <1>2. held = Got(24)
    BY <1>1 DEF EInv, Running
  <1> QED
    BY <1>1, <1>2, ScreensRelease, CleanUpEnds

(* Nothing is released that is gone, or used by something that is there. *)
LEMMA ReleaseEnds ==
  ASSUME EInv, release
  PROVE  EInv'
PROOF
  <1>1. PICK r : r = Head(todo)
    OBVIOUS
  <1>2. /\ stage = "cleanup" /\ fault = "none" /\ todo # <<>>
        /\ held' = held \ Takes(r) /\ plugged' = plugged /\ tableless' = tableless
        /\ fault' = (IF r \notin held \/ ~(Needs(r) \subseteq held) THEN "freed"
                     ELSE IF r \in tableless THEN "no table" ELSE "none")
        /\ CleanUp(Tail(todo))
    BY <1>1 DEF release, Main, EInv, Ending
  <1>3. PICK left \in {{}, {"g_screens"}} : Releases(todo, held, left)
    BY <1>2 DEF EInv, Ending
  <1>4. /\ r \in held /\ Needed(r) \subseteq held
        /\ Releases(Tail(todo), held \ Takes(r), left)
    BY <1>1, <1>2, <1>3, ReleaseKeeps
  <1>5. OrderlyEnd'
    <2>1. fault' = "freed" => plugged # {}
      BY <1>2, <1>4, NeedsIs
    <2>2. fault' = "no table" => tableless # {}
      BY <1>2
    <2> QED
      BY <1>2, <2>1, <2>2 DEF OrderlyEnd
  <1>6. todo' = Tail(todo) /\ stage' = (IF Tail(todo) = <<>> THEN "exited" ELSE "cleanup")
    BY <1>2 DEF CleanUp
  <1>7. stage' \in Stages /\ stage' \notin {"setup", "run", "stopping"}
    BY <1>6 DEF Stages
  <1>8. SettingUp' /\ Running'
    BY <1>7 DEF SettingUp, Running
  <1>9. \E l \in {{}, {"g_screens"}} : Releases(todo', held', l)
    BY <1>2, <1>4, <1>6
  <1>10. Ending'
    <2>1. (stage = "cleanup")' => todo' # <<>>
      BY <1>6
    <2>2. (stage = "exited")' => todo' = <<>>
      BY <1>6
    <2> QED
      BY <1>9, <2>1, <2>2 DEF Ending
  <1> QED
    BY <1>5, <1>7, <1>8, <1>10 DEF EInv

LEMMA SameEnds ==
  ASSUME EInv, UNCHANGED main
  PROVE  EInv'
BY DEF EInv, SettingUp, Running, Ending, OrderlyEnd, main

LEMMA StopEnds ==
  ASSUME EInv, Main({"run", "stopping"}), stage' \in {"run", "stopping"},
         held' = held, fault' = fault
  PROVE  EInv'
BY DEF EInv, Stages, SettingUp, Running, Ending, OrderlyEnd, Main

LEMMA EndStep == EInv /\ [Next]_vars => EInv'
PROOF
  <1> SUFFICES ASSUME EInv, [Next]_vars
               PROVE  EInv'
    OBVIOUS
  <1>1. CASE UNCHANGED vars
    BY <1>1, SameEnds DEF vars
  <1>2. CASE acquire
    BY <1>2, AcquireEnds DEF acquire
  <1>3. CASE workspace_new_tableless
    BY <1>3, AcquireEnds DEF workspace_new_tableless
  <1>4. CASE fail
    BY <1>4, FailEnds
  <1>5. CASE backend_run
    BY <1>5, RunEnds
  <1>6. CASE exec_weston_terminal
    BY <1>6, SameEnds DEF exec_weston_terminal
  <1>7. CASE \E p \in Pid : sigchld_handler(p) \/ child_changes(p)
    BY <1>7, SameEnds DEF sigchld_handler, child_changes
  <1>8. CASE deliver
    BY <1>8, SameEnds DEF deliver
  <1>9. CASE \E now \in SUBSET Plugs : replug(now)
    <2>1. PICK now : replug(now)
      BY <1>9
    <2>2. /\ Main({"run", "stopping"}) /\ held' = held /\ fault' = fault
          /\ stage' \in {"run", "stopping"}
      BY <2>1 DEF replug, Main
    <2> QED
      BY <2>2, StopEnds
  <1>10. CASE quit
    <2>1. /\ Main({"run", "stopping"}) /\ held' = held /\ fault' = fault
          /\ stage' \in {"run", "stopping"}
      BY <1>10 DEF quit, Main
    <2> QED
      BY <2>1, StopEnds
  <1>11. CASE run_returns
    BY <1>11, ReturnEnds
  <1>12. CASE release
    BY <1>12, ReleaseEnds
  <1>13. CASE \E m, before : venowm_control_launch(m, before)
    BY <1>13, SameEnds DEF venowm_control_launch
  <1> QED
    BY <1>1, <1>2, <1>3, <1>4, <1>5, <1>6, <1>7, <1>8, <1>9, <1>10, <1>11, <1>12, <1>13
       DEF Next

(* Whichever step of the setup fails, and whenever the program ends, every  *)
(* resource is released once, and after what uses it; unless something is   *)
(* plugged in, or a workspace has no table.                                 *)
THEOREM EndsOrderly == Spec => []OrderlyEnd
PROOF
  <1>1. EInv => OrderlyEnd
    BY DEF EInv
  <1> QED
    BY <1>1, EndInit, EndStep, PTL DEF Spec

(* When the program has ended, it keeps nothing that it acquired, but for   *)
(* the list of screens if the bindings could not be added.                  *)
THEOREM KeepsNothing == Spec => []NothingKept
PROOF
  <1>1. EInv => NothingKept
    <2> SUFFICES ASSUME EInv, stage = "exited", fault = "none"
                 PROVE  held = {} \/ held = {"g_screens"}
      BY DEF NothingKept
    <2>1. PICK left \in {{}, {"g_screens"}} : Releases(todo, held, left)
      BY DEF EInv, Ending
    <2>2. Elems(todo) = {}
      BY DEF EInv, Ending, Elems
    <2>3. held = left
      BY <2>1, <2>2 DEF Releases
    <2> QED
      BY <2>1, <2>3
  <1> QED
    BY <1>1, EndInit, EndStep, PTL DEF Spec
=============================================================================

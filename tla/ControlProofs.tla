--------------------------- MODULE ControlProofs ----------------------------
(***************************************************************************)
(* The commands of a client stay in order and none is lost on the way, and *)
(* an answer means that all of them were executed, for any number of       *)
(* clients and commands.                                                   *)
(***************************************************************************)
EXTENDS Control, QueueProofs

Typed ==
  /\ v \in [Client -> [connected : BOOLEAN, failed : BOOLEAN, errmsg : Errors]]
  /\ doing \in [Client -> {"idle", "connect", "command", "exit0", "exit1"}]
  /\ answered \in [Client -> BOOLEAN]
  /\ ret \in [Client -> {-1, 0, 1}]
  /\ out \in [Client -> Seq(Commands)]
  /\ wire \in [Client -> Seq(Requests)]
  /\ events \in [Client -> Seq(Events)]
  /\ link \in [Client -> {"none", "up", "down"}]
  /\ server \in {"venowm", "other", "gone"}
  /\ executed \in [Client -> Seq(Commands)]
  /\ issued \in [Client -> Nat]
  /\ confirmed \in [Client -> Nat]
  /\ reported \in [Client -> Errors]

(* Nothing was ever sent for a client that has not connected. *)
Fresh(c) ==
  doing[c] = "idle" /\ ~v[c].connected /\ ~v[c].failed =>
    /\ link[c] = "none" /\ issued[c] = 0 /\ executed[c] = <<>>
    /\ out[c] = <<>> /\ wire[c] = <<>> /\ events[c] = <<>>

(* No question is on the way to the compositor and no answer to the client. *)
Quiet(c) == Sync \notin Elems(wire[c]) /\ "done" \notin Elems(events[c])

(* There is one question or one answer at a time, and only in a round trip, *)
(* unless it failed; the question is the last thing that was sent.          *)
OneQuestion(c) ==
  /\ ~Waits(c) /\ ~v[c].failed => Quiet(c)
  /\ Waits(c) /\ answered[c] => Quiet(c)
  /\ Sync \in Elems(wire[c]) => "done" \notin Elems(events[c])
  /\ \A i \in 1..Len(wire[c]) : wire[c][i] = Sync => i = Len(wire[c])
  /\ \A i, j \in 1..Len(events[c]) :
       events[c][i] = "done" /\ events[c][j] = "done" => i = j

Below(S, T) == \A m \in S, n \in T : m < n

(* What is executed, sent and buffered: each in order, each before the      *)
(* next, and of a connected client everything it issued.                    *)
InLine(e, w, o) ==
  /\ InOrder(e) /\ InOrder(w) /\ InOrder(o)
  /\ Below(Numbers(e), Numbers(w))
  /\ Below(Numbers(e), Numbers(o))
  /\ Below(Numbers(w), Numbers(o))

AllNumbers(e, w, o) == Numbers(e) \cup Numbers(w) \cup Numbers(o)

Accounted(c) ==
  /\ InLine(executed[c], wire[c], out[c])
  /\ AllNumbers(executed[c], wire[c], out[c]) \subseteq 1..issued[c]
  /\ link[c] = "up" =>
       1..issued[c] \subseteq AllNumbers(executed[c], wire[c], out[c])

(* A round trip left nothing in the buffer, so its answer comes behind      *)
(* everything that was issued.                                              *)
AnswerIsLast(c) ==
  Waits(c) =>
    /\ out[c] = <<>>
    /\ answered[c] \/ "done" \in Elems(events[c]) =>
         Numbers(executed[c]) = 1..issued[c]

(* The commands of main() issue one command, and only once connected. *)
OneCommand(c) ==
  Program[c] # "library" =>
    /\ doing[c] \in {"idle", "connect"} => issued[c] = 0
    /\ doing[c] \in {"command", "exit0"} => issued[c] = 1
    /\ doing[c] = "exit0" => Numbers(executed[c]) = {1}

Confirmed(c) == 1..confirmed[c] \subseteq Numbers(executed[c])

Good(c) ==
  /\ Fresh(c) /\ OneQuestion(c) /\ Accounted(c) /\ AnswerIsLast(c)
  /\ OneCommand(c) /\ Confirmed(c)

IInv == Typed /\ \A c \in Client : Good(c)

-----------------------------------------------------------------------------
(* The numbers of the commands in a sequence, and their order, follow those *)
(* of its parts.                                                            *)

LEMMA SyncIsNoCommand ==
  /\ Sync \in Requests /\ Sync \notin Commands
  /\ GetRegistry \in Requests /\ GetRegistry \notin Commands
  /\ Sync # GetRegistry
  /\ \A T : T \subseteq Commands => T \subseteq Requests
BY DEF Sync, GetRegistry, Requests, Commands, CommandWords

LEMMA NumbersAreNumbers ==
  ASSUME NEW q \in Seq(Requests)
  PROVE  Numbers(q) \subseteq Nat
BY DEF Numbers, Commands

LEMMA NumbersEmpty == Numbers(<<>>) = {} /\ InOrder(<<>>)
BY DEF Numbers, InOrder

LEMMA NumbersOfConcat ==
  ASSUME NEW p \in Seq(Requests), NEW q \in Seq(Requests)
  PROVE  /\ p \o q \in Seq(Requests)
         /\ Numbers(p \o q) = Numbers(p) \cup Numbers(q)
         /\ InOrder(p \o q) <=>
              InOrder(p) /\ InOrder(q) /\ Below(Numbers(p), Numbers(q))
PROOF
  <1> DEFINE r == p \o q
             n == Len(p)
             m == Len(q)
  <1>1. /\ n \in Nat /\ m \in Nat /\ r \in Seq(Requests)
        /\ DOMAIN p = 1..n /\ DOMAIN q = 1..m /\ DOMAIN r = 1..(n + m)
        /\ \A i \in 1..n : r[i] = p[i]
        /\ \A i \in 1..m : r[n + i] = q[i]
    OBVIOUS
  <1> HIDE DEF r, n, m
  <1>2. \A k \in 1..(n + m) :
          k \in 1..n \/ (k - n \in 1..m /\ k = n + (k - n))
    BY <1>1
  <1>3. /\ \A i \in 1..n : i \in 1..(n + m)
        /\ \A i \in 1..m : n + i \in 1..(n + m)
    BY <1>1
  <1>4. Numbers(r) = Numbers(p) \cup Numbers(q)
    <2>1. Numbers(r) \subseteq Numbers(p) \cup Numbers(q)
      <3>1. ASSUME NEW k \in 1..(n + m), r[k] \in Commands
            PROVE  r[k].n \in Numbers(p) \cup Numbers(q)
        <4>1. CASE k \in 1..n
          BY <1>1, <3>1, <4>1 DEF Numbers
        <4>2. CASE k - n \in 1..m /\ k = n + (k - n)
          <5>1. PICK i \in 1..m : k = n + i
            BY <4>2
          <5> QED
            BY <1>1, <3>1, <5>1 DEF Numbers
        <4> QED
          BY <1>2, <4>1, <4>2
      <3> QED
        BY <1>1, <3>1 DEF Numbers
    <2>2. Numbers(p) \subseteq Numbers(r)
      BY <1>1, <1>3 DEF Numbers
    <2>3. Numbers(q) \subseteq Numbers(r)
      <3>1. ASSUME NEW i \in 1..m, q[i] \in Commands
            PROVE  q[i].n \in Numbers(r)
        BY <1>1, <1>3, <3>1 DEF Numbers
      <3> QED
        BY <1>1, <3>1 DEF Numbers
    <2> QED
      BY <2>1, <2>2, <2>3
  <1>5. ASSUME InOrder(r)
        PROVE  InOrder(p) /\ InOrder(q) /\ Below(Numbers(p), Numbers(q))
    <2>1. InOrder(p)
      BY <1>1, <1>3, <1>5 DEF InOrder
    <2>2. InOrder(q)
      <3>1. ASSUME NEW i \in 1..m, NEW j \in 1..m,
                   q[i] \in Commands, q[j] \in Commands, i < j
            PROVE  q[i].n < q[j].n
        <4>1. n + i < n + j
          BY <1>1, <3>1
        <4> QED
          BY <1>1, <1>3, <1>5, <3>1, <4>1 DEF InOrder
      <3> QED
        BY <1>1, <3>1 DEF InOrder
    <2>3. ASSUME NEW i \in 1..n, NEW j \in 1..m,
                 p[i] \in Commands, q[j] \in Commands
          PROVE  p[i].n < q[j].n
      <3>1. i < n + j
        BY <1>1
      <3> QED
        BY <1>1, <1>3, <1>5, <2>3, <3>1 DEF InOrder
    <2>4. Below(Numbers(p), Numbers(q))
      BY <1>1, <2>3 DEF Below, Numbers
    <2> QED
      BY <2>1, <2>2, <2>4
  <1>6. ASSUME InOrder(p), InOrder(q), Below(Numbers(p), Numbers(q))
        PROVE  InOrder(r)
    <2>1. ASSUME NEW k \in 1..(n + m), NEW l \in 1..(n + m),
                 r[k] \in Commands, r[l] \in Commands, k < l
          PROVE  r[k].n < r[l].n
      <3>1. CASE l \in 1..n
        <4>1. k \in 1..n
          BY <1>1, <2>1, <3>1
        <4> QED
          BY <1>1, <1>6, <2>1, <3>1, <4>1 DEF InOrder
      <3>2. CASE k \in 1..n /\ \E j \in 1..m : l = n + j
        <4>1. PICK j \in 1..m : l = n + j
          BY <3>2
        <4>2. p[k].n \in Numbers(p) /\ q[j].n \in Numbers(q)
          BY <1>1, <2>1, <3>2, <4>1 DEF Numbers
        <4>3. r[k] = p[k] /\ r[l] = q[j]
          BY <1>1, <3>2, <4>1
        <4> QED
          BY <1>6, <4>2, <4>3 DEF Below
      <3>3. CASE \E i, j \in 1..m : k = n + i /\ l = n + j
        <4>1. PICK i \in 1..m, j \in 1..m : k = n + i /\ l = n + j
          BY <3>3
        <4>2. i < j /\ r[k] = q[i] /\ r[l] = q[j]
          BY <1>1, <2>1, <4>1
        <4> QED
          BY <1>1, <1>6, <2>1, <4>2 DEF InOrder
      <3>4. \/ l \in 1..n
            \/ k \in 1..n /\ \E j \in 1..m : l = n + j
            \/ \E i, j \in 1..m : k = n + i /\ l = n + j
        <4>1. l \in 1..n \/ \E j \in 1..m : l = n + j
          BY <1>2
        <4>2. k \in 1..n \/ \E i \in 1..m : k = n + i
          BY <1>2
        <4> QED
          BY <4>1, <4>2
      <3> QED
        BY <3>1, <3>2, <3>3, <3>4
    <2> QED
      BY <1>1, <2>1 DEF InOrder
  <1>7. InOrder(r) <=>
          InOrder(p) /\ InOrder(q) /\ Below(Numbers(p), Numbers(q))
    BY <1>5, <1>6
  <1> QED
    BY <1>1, <1>4, <1>7 DEF r

LEMMA NumbersOfOne ==
  ASSUME NEW x \in Requests
  PROVE  /\ <<x>> \in Seq(Requests)
         /\ Elems(<<x>>) = {x}
         /\ Numbers(<<x>>) = IF x \in Commands THEN {x.n} ELSE {}
         /\ InOrder(<<x>>)
PROOF
  <1>1. <<x>> \in Seq(Requests) /\ DOMAIN <<x>> = {1} /\ <<x>>[1] = x
    OBVIOUS
  <1>2. Elems(<<x>>) = {x}
    BY ElemsOfOne
  <1> QED
    BY <1>1, <1>2 DEF Numbers, InOrder

LEMMA NumbersOfAppend ==
  ASSUME NEW q \in Seq(Requests), NEW x \in Requests
  PROVE  /\ Append(q, x) = q \o <<x>>
         /\ Numbers(Append(q, x)) =
              Numbers(q) \cup (IF x \in Commands THEN {x.n} ELSE {})
         /\ InOrder(Append(q, x)) <=>
              InOrder(q) /\ (x \in Commands => Below(Numbers(q), {x.n}))
PROOF
  <1>1. Append(q, x) = q \o <<x>>
    OBVIOUS
  <1> DEFINE one == <<x>>
  <1>2. /\ one \in Seq(Requests) /\ InOrder(one)
        /\ Numbers(one) = IF x \in Commands THEN {x.n} ELSE {}
    BY NumbersOfOne
  <1> HIDE DEF one
  <1>3. /\ Numbers(q \o one) = Numbers(q) \cup Numbers(one)
        /\ InOrder(q \o one) <=>
             InOrder(q) /\ InOrder(one) /\ Below(Numbers(q), Numbers(one))
    BY <1>2, NumbersOfConcat
  <1>4. Below(Numbers(q), Numbers(one)) <=>
          (x \in Commands => Below(Numbers(q), {x.n}))
    BY <1>2 DEF Below
  <1> QED
    BY <1>1, <1>2, <1>3, <1>4 DEF one

LEMMA NumbersOfTail ==
  ASSUME NEW q \in Seq(Requests), q # <<>>
  PROVE  /\ Head(q) \in Requests /\ Tail(q) \in Seq(Requests)
         /\ Numbers(q) = Numbers(Tail(q)) \cup
                           (IF Head(q) \in Commands THEN {Head(q).n} ELSE {})
         /\ InOrder(q) =>
              /\ InOrder(Tail(q))
              /\ Head(q) \in Commands => Below({Head(q).n}, Numbers(Tail(q)))
PROOF
  <1>1. PICK x, r : x = Head(q) /\ r = Tail(q)
    OBVIOUS
  <1>2. x \in Requests /\ r \in Seq(Requests) /\ q = <<x>> \o r
    BY <1>1
  <1> DEFINE one == <<x>>
  <1>3. /\ one \in Seq(Requests)
        /\ Numbers(one) = IF x \in Commands THEN {x.n} ELSE {}
    BY <1>2, NumbersOfOne
  <1>4. q = one \o r
    BY <1>2
  <1> HIDE DEF one
  <1>5. /\ Numbers(q) = Numbers(one) \cup Numbers(r)
        /\ InOrder(q) => InOrder(r) /\ Below(Numbers(one), Numbers(r))
    <2>1. /\ Numbers(one \o r) = Numbers(one) \cup Numbers(r)
          /\ InOrder(one \o r) <=>
               InOrder(one) /\ InOrder(r) /\ Below(Numbers(one), Numbers(r))
      BY <1>2, <1>3, NumbersOfConcat
    <2> QED
      BY <1>4, <2>1
  <1> QED
    BY <1>1, <1>2, <1>3, <1>5

(* What a round trip sends: what was in the buffer, what it is made for,    *)
(* and the question at the end.                                             *)
Before(w, o, r) == w \o o \o r

Sent(w, o, r) == Before(w, o, r) \o <<Sync>>

LEMMA BeforeType ==
  ASSUME NEW w \in Seq(Requests), NEW o \in Seq(Commands), NEW r \in Seq(Requests)
  PROVE  /\ Before(w, o, r) \in Seq(Requests)
         /\ Elems(Before(w, o, r)) = Elems(w) \cup Elems(o) \cup Elems(r)
         /\ Sent(w, o, r) = Append(Before(w, o, r), Sync)
PROOF
  <1>1. o \in Seq(Requests)
    BY DEF Requests
  <1>2. w \o o \in Seq(Requests) /\ Elems(w \o o) = Elems(w) \cup Elems(o)
    BY <1>1, ElemsOfConcat
  <1>3. PICK u : u = w \o o
    OBVIOUS
  <1>4. u \o r \in Seq(Requests) /\ Elems(u \o r) = Elems(u) \cup Elems(r)
    <2>1. u \in Seq(Requests)
      BY <1>2, <1>3
    <2> QED
      BY <2>1, ElemsOfConcat
  <1>5. Before(w, o, r) = u \o r
    BY <1>3 DEF Before
  <1>6. Sent(w, o, r) = Append(Before(w, o, r), Sync)
    BY <1>4, <1>5 DEF Sent
  <1> QED
    BY <1>2, <1>3, <1>4, <1>5, <1>6

LEMMA QuestionIsLast ==
  ASSUME NEW w \in Seq(Requests), NEW o \in Seq(Commands), NEW r \in Seq(Requests),
         Sync \notin Elems(w), Sync \notin Elems(r)
  PROVE  /\ Sent(w, o, r) \in Seq(Requests)
         /\ \A i \in 1..Len(Sent(w, o, r)) :
              Sent(w, o, r)[i] = Sync => i = Len(Sent(w, o, r))
PROOF
  <1>1. PICK p : p = Before(w, o, r)
    OBVIOUS
  <1>2. /\ p \in Seq(Requests) /\ Sent(w, o, r) = Append(p, Sync)
        /\ Elems(p) = Elems(w) \cup Elems(o) \cup Elems(r)
    BY <1>1, BeforeType
  <1>3. Sync \notin Elems(o)
    BY SyncIsNoCommand DEF Elems
  <1>4. Sync \notin Elems(p)
    BY <1>2, <1>3
  <1>5. \A i \in 1..Len(Append(p, Sync)) :
          Append(p, Sync)[i] = Sync => i = Len(Append(p, Sync))
    BY <1>2, <1>4, SyncIsNoCommand DEF Elems
  <1>6. Append(p, Sync) \in Seq(Requests)
    BY <1>2, SyncIsNoCommand
  <1> QED
    BY <1>2, <1>5, <1>6

LEMMA NumbersOfSent ==
  ASSUME NEW w \in Seq(Requests), NEW o \in Seq(Commands), NEW r \in Seq(Requests),
         InOrder(w), InOrder(o), InOrder(r), Below(Numbers(w), Numbers(o)),
         Below(Numbers(w), Numbers(r)), Below(Numbers(o), Numbers(r))
  PROVE  /\ Numbers(Sent(w, o, r)) = Numbers(w) \cup Numbers(o) \cup Numbers(r)
         /\ InOrder(Sent(w, o, r))
PROOF
  <1>1. o \in Seq(Requests)
    BY DEF Requests
  <1>2. PICK u : u = w \o o
    OBVIOUS
  <1>3. /\ u \in Seq(Requests)
        /\ Numbers(u) = Numbers(w) \cup Numbers(o)
        /\ InOrder(u)
    BY <1>1, <1>2, NumbersOfConcat
  <1>4. Below(Numbers(u), Numbers(r))
    BY <1>3 DEF Below
  <1>5. PICK p : p = u \o r
    OBVIOUS
  <1>6. /\ p \in Seq(Requests)
        /\ Numbers(p) = Numbers(u) \cup Numbers(r)
        /\ InOrder(p)
    BY <1>3, <1>4, <1>5, NumbersOfConcat
  <1>7. Sent(w, o, r) = Append(p, Sync)
    BY <1>2, <1>5, BeforeType DEF Before
  <1>8. Numbers(Append(p, Sync)) = Numbers(p) /\ InOrder(Append(p, Sync))
    BY <1>6, SyncIsNoCommand, NumbersOfAppend
  <1> QED
    BY <1>3, <1>6, <1>7, <1>8
(* What a round trip, the compositor, the buffer and the end of a           *)
(* connection do to the line of commands.                                   *)
LEMMA LineSent ==
  ASSUME NEW e \in Seq(Commands), NEW w \in Seq(Requests), NEW o \in Seq(Commands),
         NEW r \in Seq(Requests), NEW i \in Nat, NEW k \in {0, 1},
         InLine(e, w, o), AllNumbers(e, w, o) \subseteq 1..i,
         InOrder(r), Numbers(r) = (i + 1)..(i + k)
  PROVE  /\ InLine(e, Sent(w, o, r), <<>>)
         /\ AllNumbers(e, Sent(w, o, r), <<>>) \subseteq 1..(i + k)
         /\ 1..i \subseteq AllNumbers(e, w, o) =>
              1..(i + k) \subseteq AllNumbers(e, Sent(w, o, r), <<>>)
PROOF
  <1>1. Numbers(<<>>) = {} /\ InOrder(<<>>)
    BY NumbersEmpty
  <1>2. PICK E, W, O : E = Numbers(e) /\ W = Numbers(w) /\ O = Numbers(o)
    OBVIOUS
  <1>3. /\ E \subseteq 1..i /\ W \subseteq 1..i /\ O \subseteq 1..i
        /\ Below(E, W) /\ Below(E, O) /\ Below(W, O)
    BY <1>2 DEF InLine, AllNumbers
  <1>4. \A m \in 1..i : \A n \in (i + 1)..(i + k) : m < n
    OBVIOUS
  <1>5. /\ Below(W, Numbers(r)) /\ Below(O, Numbers(r)) /\ Below(E, Numbers(r))
    BY <1>3, <1>4 DEF Below
  <1>6. PICK q : q = Sent(w, o, r)
    OBVIOUS
  <1>7. Numbers(q) = W \cup O \cup Numbers(r) /\ InOrder(q)
    BY <1>2, <1>5, <1>6, NumbersOfSent DEF InLine
  <1>8. Below(E, Numbers(q))
    BY <1>3, <1>5, <1>7 DEF Below
  <1>9. InLine(e, q, <<>>)
    BY <1>1, <1>2, <1>7, <1>8 DEF InLine, Below
  <1>10. AllNumbers(e, q, <<>>) = AllNumbers(e, w, o) \cup Numbers(r)
    BY <1>1, <1>2, <1>7 DEF AllNumbers
  <1>11. (1..i) \cup ((i + 1)..(i + k)) = 1..(i + k)
    OBVIOUS
  <1>12. AllNumbers(e, q, <<>>) \subseteq 1..(i + k)
    BY <1>10, <1>11
  <1>13. 1..i \subseteq AllNumbers(e, w, o) => 1..(i + k) \subseteq AllNumbers(e, q, <<>>)
    BY <1>10, <1>11
  <1> QED
    BY <1>6, <1>9, <1>12, <1>13

LEMMA LineServed ==
  ASSUME NEW e \in Seq(Commands), NEW w \in Seq(Requests), NEW o \in Seq(Commands),
         w # <<>>, InLine(e, w, o),
         NEW f, f = IF Head(w) \in Commands THEN Append(e, Head(w)) ELSE e
  PROVE  /\ f \in Seq(Commands)
         /\ InLine(f, Tail(w), o)
         /\ AllNumbers(f, Tail(w), o) = AllNumbers(e, w, o)
         /\ Numbers(e) \subseteq Numbers(f)
PROOF
  <1>1. PICK x, r : x = Head(w) /\ r = Tail(w)
    OBVIOUS
  <1>2. /\ x \in Requests /\ r \in Seq(Requests)
        /\ Numbers(w) = Numbers(r) \cup (IF x \in Commands THEN {x.n} ELSE {})
        /\ InOrder(r)
        /\ x \in Commands => Below({x.n}, Numbers(r))
    BY <1>1, NumbersOfTail DEF InLine
  <1>3. CASE x \notin Commands
    BY <1>1, <1>2, <1>3 DEF InLine, AllNumbers
  <1>4. CASE x \in Commands
    <2>1. e \in Seq(Requests) /\ f = Append(e, x) /\ f \in Seq(Commands)
      BY <1>1, <1>4, SyncIsNoCommand DEF Requests
    <2>2. Below(Numbers(e), {x.n}) /\ Below({x.n}, Numbers(o))
      BY <1>2, <1>4 DEF InLine, Below
    <2>3. Numbers(f) = Numbers(e) \cup {x.n} /\ InOrder(f)
      <3>1. /\ Numbers(Append(e, x)) = Numbers(e) \cup {x.n}
            /\ InOrder(Append(e, x)) <=> InOrder(e) /\ Below(Numbers(e), {x.n})
        BY <1>2, <1>4, <2>1, NumbersOfAppend
      <3> QED
        BY <2>1, <2>2, <3>1 DEF InLine
    <2>4. /\ Below(Numbers(e), Numbers(r))
          /\ Below(Numbers(e), Numbers(o))
          /\ Below(Numbers(r), Numbers(o))
      BY <1>2 DEF InLine, Below
    <2>5. Below(Numbers(f), Numbers(r)) /\ Below(Numbers(f), Numbers(o))
      BY <1>2, <1>4, <2>2, <2>3, <2>4 DEF Below
    <2>6. InLine(f, r, o)
      BY <1>2, <2>3, <2>4, <2>5 DEF InLine
    <2>7. AllNumbers(f, r, o) = AllNumbers(e, w, o)
      BY <1>2, <1>4, <2>3 DEF AllNumbers
    <2> QED
      BY <1>1, <2>1, <2>3, <2>6, <2>7
  <1> QED
    BY <1>3, <1>4

LEMMA LineBuffered ==
  ASSUME NEW e \in Seq(Commands), NEW w \in Seq(Requests), NEW o \in Seq(Commands),
         NEW i \in Nat, InLine(e, w, o), AllNumbers(e, w, o) \subseteq 1..i,
         NEW x \in Commands, x.n = i + 1
  PROVE  /\ InLine(e, w, Append(o, x))
         /\ AllNumbers(e, w, Append(o, x)) \subseteq 1..(i + 1)
         /\ 1..i \subseteq AllNumbers(e, w, o) =>
              1..(i + 1) \subseteq AllNumbers(e, w, Append(o, x))
PROOF
  <1>1. o \in Seq(Requests) /\ x \in Requests
    BY DEF Requests
  <1>2. PICK p : p = Append(o, x)
    OBVIOUS
  <1>3. /\ Numbers(p) = Numbers(o) \cup {i + 1}
        /\ InOrder(p) <=> InOrder(o) /\ Below(Numbers(o), {i + 1})
    BY <1>1, <1>2, NumbersOfAppend
  <1>4. \A m \in 1..i : m < i + 1
    OBVIOUS
  <1>5. /\ Below(Numbers(o), {i + 1}) /\ Below(Numbers(w), {i + 1})
        /\ Below(Numbers(e), {i + 1})
    BY <1>4 DEF Below, AllNumbers
  <1>6. InOrder(p)
    BY <1>3, <1>5 DEF InLine
  <1>7. Below(Numbers(w), Numbers(p)) /\ Below(Numbers(e), Numbers(p))
    BY <1>3, <1>5 DEF InLine, Below
  <1>8. InLine(e, w, p)
    BY <1>6, <1>7 DEF InLine
  <1>9. AllNumbers(e, w, p) = AllNumbers(e, w, o) \cup {i + 1}
    BY <1>3 DEF AllNumbers
  <1>10. (1..i) \cup {i + 1} = 1..(i + 1)
    OBVIOUS
  <1> QED
    BY <1>2, <1>8, <1>9, <1>10

LEMMA LineDropped ==
  ASSUME NEW e, NEW w, NEW o, InLine(e, w, o)
  PROVE  /\ InLine(e, <<>>, <<>>)
         /\ AllNumbers(e, <<>>, <<>>) \subseteq AllNumbers(e, w, o)
PROOF
  <1>1. Numbers(<<>>) = {} /\ InOrder(<<>>)
    BY NumbersEmpty
  <1> QED
    BY <1>1 DEF InLine, AllNumbers, Below

-----------------------------------------------------------------------------
(* A step is about one client, but for the end of the compositor.           *)

Same(c) ==
  /\ v'[c] = v[c] /\ doing'[c] = doing[c] /\ answered'[c] = answered[c]
  /\ out'[c] = out[c] /\ wire'[c] = wire[c] /\ events'[c] = events[c]
  /\ link'[c] = link[c] /\ executed'[c] = executed[c]
  /\ issued'[c] = issued[c] /\ confirmed'[c] = confirmed[c]

StepOf(c) == Typed' /\ Good(c)' /\ \A d \in Client \ {c} : Same(d)

LEMMA SameKeeps ==
  ASSUME NEW c \in Client, Good(c), Same(c)
  PROVE  Good(c)'
PROOF
  <1> USE DEF Same
  <1>1. Fresh(c)' /\ Accounted(c)'
    BY DEF Good, Fresh, Accounted
  <1>2. OneQuestion(c)' /\ AnswerIsLast(c)'
    BY DEF Good, OneQuestion, AnswerIsLast, Quiet, Waits
  <1>3. OneCommand(c)' /\ Confirmed(c)'
    BY DEF Good, OneCommand, Confirmed
  <1> QED
    BY <1>1, <1>2, <1>3 DEF Good

LEMMA StepKeeps ==
  ASSUME IInv, NEW c \in Client, StepOf(c)
  PROVE  IInv'
BY SameKeeps DEF IInv, StepOf

LEMMA ClientType ==
  ASSUME IInv, NEW c \in Client
  PROVE  /\ v[c] \in [connected : BOOLEAN, failed : BOOLEAN, errmsg : Errors]
         /\ doing[c] \in {"idle", "connect", "command", "exit0", "exit1"}
         /\ answered[c] \in BOOLEAN
         /\ out[c] \in Seq(Commands) /\ out[c] \in Seq(Requests)
         /\ wire[c] \in Seq(Requests)
         /\ events[c] \in Seq(Events)
         /\ executed[c] \in Seq(Commands) /\ executed[c] \in Seq(Requests)
         /\ issued[c] \in Nat /\ confirmed[c] \in Nat
         /\ Good(c)
BY DEF IInv, Typed, Requests

LEMMA ErrmsgDoes ==
  ASSUME NEW x \in [connected : BOOLEAN, failed : BOOLEAN, errmsg : Errors],
         NEW msg \in Errors
  PROVE  /\ errmsg(x, msg) \in
              [connected : BOOLEAN, failed : BOOLEAN, errmsg : Errors]
         /\ errmsg(x, msg).failed
         /\ errmsg(x, msg).connected = x.connected
         /\ x.failed => errmsg(x, msg) = x
BY DEF errmsg

(* A call that returns -1 leaves the connection as it is. *)
LEMMA ErrorKeeps ==
  ASSUME IInv, NEW c \in Client, NEW call \in {"connect", "command"},
         NEW x \in [connected : BOOLEAN, failed : BOOLEAN, errmsg : Errors],
         x.failed, Return(c, call, x, -1),
         reported' \in [Client -> Errors],
         UNCHANGED <<answered, out, wire, events, link, issued, confirmed,
                     server, executed>>
  PROVE  StepOf(c)
PROOF
  <1>1. /\ v' = [v EXCEPT ![c] = x]
        /\ ret' = [ret EXCEPT ![c] = -1]
        /\ doing' = [doing EXCEPT ![c] = Afterwards(c, call, -1)]
    BY DEF Return
  <1>2. /\ Afterwards(c, call, -1) \in {"idle", "exit1"}
        /\ Program[c] # "library" => Afterwards(c, call, -1) = "exit1"
    BY DEF Afterwards
  <1>3. Typed'
    <2>1. /\ v' \in [Client -> [connected : BOOLEAN, failed : BOOLEAN, errmsg : Errors]]
          /\ doing' \in [Client -> {"idle", "connect", "command", "exit0", "exit1"}]
          /\ ret' \in [Client -> {-1, 0, 1}]
      BY <1>1, <1>2 DEF IInv, Typed
    <2> QED
      BY <2>1 DEF IInv, Typed
  <1>4. \A d \in Client \ {c} : Same(d)
    BY <1>1 DEF Same, IInv, Typed
  <1>5. /\ v'[c].failed /\ doing'[c] \in {"idle", "exit1"}
        /\ Program[c] # "library" => doing'[c] = "exit1"
    BY <1>1, <1>2 DEF IInv, Typed
  <1>6. Good(c)
    BY DEF IInv
  <1>7. Fresh(c)' /\ Accounted(c)' /\ Confirmed(c)'
    BY <1>5, <1>6 DEF Good, Fresh, Accounted, Confirmed
  <1>8. OneQuestion(c)' /\ AnswerIsLast(c)'
    BY <1>5, <1>6 DEF Good, OneQuestion, AnswerIsLast, Quiet, Waits
  <1>9. OneCommand(c)'
    BY <1>5 DEF OneCommand
  <1> QED
    BY <1>3, <1>4, <1>7, <1>8, <1>9 DEF StepOf, Good

LEMMA FailsKeeps ==
  ASSUME IInv, NEW c \in Client, NEW call \in {"connect", "command"},
         NEW msg \in Errors,
         Fails(c, call, msg), UNCHANGED <<server, executed>>
  PROVE  StepOf(c)
PROOF
  <1>1. /\ errmsg(v[c], msg) \in
             [connected : BOOLEAN, failed : BOOLEAN, errmsg : Errors]
        /\ errmsg(v[c], msg).failed
    BY ClientType, ErrmsgDoes
  <1>2. /\ Return(c, call, errmsg(v[c], msg), -1)
        /\ reported' = [reported EXCEPT ![c] = msg]
        /\ UNCHANGED <<answered, out, wire, events, link, issued, confirmed>>
    BY DEF Fails
  <1>3. reported' \in [Client -> Errors]
    BY <1>2 DEF IInv, Typed
  <1> HIDE DEF Fails
  <1> QED
    BY <1>1, <1>2, <1>3, ErrorKeeps

LEMMA RefusedKeeps ==
  ASSUME IInv, NEW c \in Client, NEW call \in {"connect", "command"},
         Refused(c, call), UNCHANGED <<server, executed>>
  PROVE  StepOf(c)
PROOF
  <1>1. /\ v[c].failed /\ Return(c, call, v[c], -1)
        /\ UNCHANGED <<answered, out, wire, events, link, issued, confirmed, reported>>
    BY DEF Refused, history
  <1>2. reported' \in [Client -> Errors]
    BY <1>1 DEF IInv, Typed
  <1>3. v[c] \in [connected : BOOLEAN, failed : BOOLEAN, errmsg : Errors]
    BY ClientType
  <1> QED
    BY <1>1, <1>2, <1>3, ErrorKeeps

LEMMA NotReadyKeeps ==
  ASSUME IInv, NEW c \in Client, NotReady(c), UNCHANGED <<server, executed>>
  PROVE  StepOf(c)
PROOF
  <1>1. "not connected yet" \in Errors
    BY DEF Errors
  <1> QED
    BY <1>1, FailsKeeps, RefusedKeeps DEF NotReady

(* A round trip begins: the call may have issued a command, and connecting  *)
(* sets the connection up.                                                  *)
LEMMA RoundtripKeeps ==
  ASSUME IInv, NEW c \in Client, NEW call \in {"connect", "command"},
         NEW requests \in Seq(Requests), Sync \notin Elems(requests),
         NEW k \in {0, 1}, InOrder(requests),
         Numbers(requests) = (issued[c] + 1)..(issued[c] + k),
         roundtrip(c, call, requests), doing[c] = "idle", ~v[c].failed,
         NEW up \in {link[c], "up"}, link' = [link EXCEPT ![c] = up],
         issued' = [issued EXCEPT ![c] = @ + k],
         UNCHANGED <<server, executed, confirmed>>,
         up # link[c] => ~v[c].connected,
         Program[c] # "library" => k = IF call = "command" THEN 1 ELSE 0
  PROVE  StepOf(c)
PROOF
  <1>0. PICK q : q = Sent(wire[c], out[c], requests)
    OBVIOUS
  <1>1. /\ doing' = [doing EXCEPT ![c] = call]
        /\ answered' = [answered EXCEPT ![c] = FALSE]
        /\ wire' = [wire EXCEPT ![c] = q]
        /\ out' = [out EXCEPT ![c] = <<>>]
        /\ UNCHANGED <<v, ret, events, reported>>
    BY <1>0 DEF roundtrip, Sent, Before
  <1>2. Quiet(c) /\ Good(c)
    BY DEF IInv, Good, OneQuestion, Waits
  <1>3. /\ q \in Seq(Requests)
        /\ \A i \in 1..Len(q) : q[i] = Sync => i = Len(q)
    <2>1. /\ Sync \notin Elems(wire[c]) /\ wire[c] \in Seq(Requests)
          /\ out[c] \in Seq(Commands)
      BY <1>2, ClientType DEF Quiet
    <2>2. Sent(wire[c], out[c], requests) \in Seq(Requests)
      BY <2>1, QuestionIsLast
    <2>3. \A i \in 1..Len(Sent(wire[c], out[c], requests)) :
            Sent(wire[c], out[c], requests)[i] = Sync =>
              i = Len(Sent(wire[c], out[c], requests))
      BY <2>1, QuestionIsLast
    <2> QED
      BY <1>0, <2>2, <2>3
  <1>4. /\ InLine(executed[c], q, <<>>)
        /\ AllNumbers(executed[c], q, <<>>) \subseteq 1..(issued[c] + k)
        /\ 1..issued[c] \subseteq AllNumbers(executed[c], wire[c], out[c]) =>
             1..(issued[c] + k) \subseteq AllNumbers(executed[c], q, <<>>)
    <2>1. /\ InLine(executed[c], wire[c], out[c])
          /\ AllNumbers(executed[c], wire[c], out[c]) \subseteq 1..issued[c]
      BY <1>2 DEF Good, Accounted
    <2>2. /\ executed[c] \in Seq(Commands) /\ wire[c] \in Seq(Requests)
          /\ out[c] \in Seq(Commands) /\ issued[c] \in Nat
      BY ClientType
    <2>3. /\ InLine(executed[c], Sent(wire[c], out[c], requests), <<>>)
          /\ AllNumbers(executed[c], Sent(wire[c], out[c], requests), <<>>)
               \subseteq 1..(issued[c] + k)
          /\ 1..issued[c] \subseteq AllNumbers(executed[c], wire[c], out[c]) =>
               1..(issued[c] + k) \subseteq
                 AllNumbers(executed[c], Sent(wire[c], out[c], requests), <<>>)
      <3>1. PICK e, w, o, i : /\ e = executed[c] /\ w = wire[c] /\ o = out[c]
                              /\ i = issued[c]
        OBVIOUS
      <3>2. /\ e \in Seq(Commands) /\ w \in Seq(Requests) /\ o \in Seq(Commands)
            /\ i \in Nat /\ InLine(e, w, o) /\ AllNumbers(e, w, o) \subseteq 1..i
            /\ Numbers(requests) = (i + 1)..(i + k)
        BY <2>1, <2>2, <3>1
      <3>3. InLine(e, Sent(w, o, requests), <<>>)
        BY <3>2, LineSent
      <3>4. AllNumbers(e, Sent(w, o, requests), <<>>) \subseteq 1..(i + k)
        BY <3>2, LineSent
      <3>5. 1..i \subseteq AllNumbers(e, w, o) =>
              1..(i + k) \subseteq AllNumbers(e, Sent(w, o, requests), <<>>)
        BY <3>2, LineSent
      <3> QED
        BY <3>1, <3>3, <3>4, <3>5
    <2> QED
      BY <1>0, <2>3
  <1>5. Typed'
    <2>1. issued' \in [Client -> Nat]
      BY DEF IInv, Typed
    <2>2. link' \in [Client -> {"none", "up", "down"}]
      BY DEF IInv, Typed
    <2>3. /\ wire' \in [Client -> Seq(Requests)]
          /\ out' \in [Client -> Seq(Commands)]
      BY <1>1, <1>3 DEF IInv, Typed
    <2>4. /\ doing' \in [Client -> {"idle", "connect", "command", "exit0", "exit1"}]
          /\ answered' \in [Client -> BOOLEAN]
      BY <1>1 DEF IInv, Typed
    <2> QED
      BY <1>1, <2>1, <2>2, <2>3, <2>4 DEF IInv, Typed
  <1>6. \A d \in Client \ {c} : Same(d)
    BY <1>1 DEF Same, IInv, Typed
  <1>7. /\ doing'[c] = call /\ answered'[c] = FALSE /\ wire'[c] = q
        /\ out'[c] = <<>> /\ v'[c] = v[c] /\ events'[c] = events[c]
        /\ link'[c] = up /\ issued'[c] = issued[c] + k
        /\ executed'[c] = executed[c] /\ confirmed'[c] = confirmed[c]
    BY <1>1 DEF IInv, Typed
  <1>8. Fresh(c)' /\ Confirmed(c)'
    BY <1>2, <1>7 DEF Fresh, Good, Confirmed
  <1>9. OneQuestion(c)'
    BY <1>2, <1>3, <1>7 DEF OneQuestion, Good, Quiet, Waits
  <1>10. AnswerIsLast(c)'
    BY <1>2, <1>7 DEF AnswerIsLast, Quiet
  <1>11. Accounted(c)'
    <2>1. up = "up" =>
            1..issued[c] \subseteq AllNumbers(executed[c], wire[c], out[c])
      <3>1. CASE up = link[c]
        BY <1>2, <3>1 DEF Good, Accounted
      <3>2. CASE up # link[c]
        <4>1. /\ issued[c] = 0 /\ executed[c] = <<>>
              /\ out[c] = <<>> /\ wire[c] = <<>>
          BY <1>2, <3>2 DEF Good, Fresh
        <4> QED
          BY <4>1
      <3> QED
        BY <3>1, <3>2
    <2> QED
      BY <1>4, <1>7, <2>1 DEF Accounted
  <1>12. OneCommand(c)'
    BY <1>2, <1>7 DEF OneCommand, Good
  <1> QED
    BY <1>5, <1>6, <1>8, <1>9, <1>10, <1>11, <1>12 DEF StepOf, Good

LEMMA ConnectKeeps ==
  ASSUME IInv, NEW c \in Client, venowm_connect(c)
  PROVE  StepOf(c)
PROOF
  <1>1. doing[c] = "idle" /\ UNCHANGED <<server, executed>>
    BY DEF venowm_connect, Calls
  <1>2. CASE Refused(c, "connect")
    BY <1>1, <1>2, RefusedKeeps
  <1>3. CASE \/ Fails(c, "connect", "already connected")
             \/ Fails(c, "connect", "failed to connect")
    <2>1. {"already connected", "failed to connect"} \subseteq Errors
      BY DEF Errors
    <2> QED
      BY <1>1, <1>3, <2>1, FailsKeeps
  <1>4. CASE /\ ~v[c].failed /\ ~v[c].connected
             /\ roundtrip(c, "connect", <<GetRegistry>>)
             /\ link' = [link EXCEPT ![c] = "up"]
             /\ UNCHANGED <<issued, confirmed>>
    <2>1. PICK requests : requests = <<GetRegistry>>
      OBVIOUS
    <2>2. /\ requests \in Seq(Requests) /\ Sync \notin Elems(requests)
          /\ Numbers(requests) = {} /\ InOrder(requests)
      BY <2>1, NumbersOfOne, SyncIsNoCommand
    <2>3. (issued[c] + 1)..(issued[c] + 0) = {}
      BY ClientType
    <2>4. issued' = [issued EXCEPT ![c] = @ + 0] /\ confirmed' = confirmed
      BY <1>4 DEF IInv, Typed
    <2>5. roundtrip(c, "connect", requests)
      BY <1>4, <2>1
    <2> QED
      BY <1>1, <1>4, <2>2, <2>3, <2>4, <2>5, RoundtripKeeps
  <1> QED
    BY <1>2, <1>3, <1>4 DEF venowm_connect

(* A call other than venowm_connect() that issues what it waits for. *)
LEMMA CallKeeps ==
  ASSUME IInv, NEW c \in Client, NEW requests \in Seq(Requests),
         Sync \notin Elems(requests), doing[c] = "idle", Ready(c),
         NEW k \in {0, 1}, InOrder(requests),
         Numbers(requests) = (issued[c] + 1)..(issued[c] + k),
         roundtrip(c, "command", requests),
         issued' = [issued EXCEPT ![c] = @ + k],
         UNCHANGED <<link, server, executed, confirmed>>,
         Program[c] # "library" => k = 1
  PROVE  StepOf(c)
PROOF
  <1>1. link' = [link EXCEPT ![c] = link[c]]
    BY DEF IInv, Typed
  <1>2. ~v[c].failed
    BY DEF Ready
  <1> QED
    BY <1>1, <1>2, RoundtripKeeps

LEMMA FlushKeeps ==
  ASSUME IInv, NEW c \in Client, venowm_flush(c)
  PROVE  StepOf(c)
PROOF
  <1>1. /\ doing[c] = "idle" /\ Program[c] = "library"
        /\ UNCHANGED <<server, executed>>
    BY DEF venowm_flush, Calls
  <1>2. CASE ~Ready(c)
    <2>1. NotReady(c)
      BY <1>2 DEF venowm_flush
    <2> QED
      BY <1>1, <2>1, NotReadyKeeps
  <1>3. CASE Ready(c)
    <2>1. PICK requests : requests = <<>>
      OBVIOUS
    <2>2. /\ roundtrip(c, "command", requests)
          /\ UNCHANGED <<link, issued, confirmed>>
      BY <1>3, <2>1 DEF venowm_flush
    <2>3. /\ requests \in Seq(Requests) /\ Sync \notin Elems(requests)
          /\ Numbers(requests) = {} /\ InOrder(requests)
      BY <2>1, NumbersEmpty DEF Elems
    <2>4. (issued[c] + 1)..(issued[c] + 0) = {}
      BY ClientType
    <2>5. issued' = [issued EXCEPT ![c] = @ + 0]
      BY <2>2 DEF IInv, Typed
    <2> QED
      BY <1>1, <1>3, <2>2, <2>3, <2>4, <2>5, CallKeeps
  <1> QED
    BY <1>2, <1>3

LEMMA CommandDoes ==
  ASSUME IInv, NEW c \in Client, NEW name \in CommandWords
  PROVE  /\ Command(c, name) \in Commands
         /\ Command(c, name).n = issued[c] + 1
BY ClientType DEF Command, Commands

(* A call that issues a command and waits for it. *)
LEMMA OneCommandKeeps ==
  ASSUME IInv, NEW c \in Client, NEW name \in CommandWords,
         doing[c] = "idle", Ready(c),
         roundtrip(c, "command", <<Command(c, name)>>),
         issued' = [issued EXCEPT ![c] = @ + 1],
         UNCHANGED <<link, server, executed, confirmed>>
  PROVE  StepOf(c)
PROOF
  <1>1. PICK x : x = Command(c, name)
    OBVIOUS
  <1>2. x \in Commands /\ x \in Requests /\ x # Sync /\ x.n = issued[c] + 1
    BY <1>1, CommandDoes, SyncIsNoCommand DEF Requests
  <1>3. PICK requests : requests = <<x>>
    OBVIOUS
  <1>4. /\ requests \in Seq(Requests) /\ Sync \notin Elems(requests)
        /\ Numbers(requests) = {issued[c] + 1} /\ InOrder(requests)
    BY <1>2, <1>3, NumbersOfOne
  <1>5. (issued[c] + 1)..(issued[c] + 1) = {issued[c] + 1}
    BY ClientType
  <1>6. roundtrip(c, "command", requests)
    BY <1>1, <1>3
  <1> QED
    BY <1>4, <1>5, <1>6, CallKeeps

LEMMA LaunchKeeps ==
  ASSUME IInv, NEW c \in Client, venowm_launch(c)
  PROVE  StepOf(c)
PROOF
  <1>1. doing[c] = "idle" /\ UNCHANGED <<server, executed>>
    BY DEF venowm_launch, Calls
  <1>2. CASE ~Ready(c)
    <2>1. NotReady(c)
      BY <1>2 DEF venowm_launch
    <2> QED
      BY <1>1, <2>1, NotReadyKeeps
  <1>3. CASE Ready(c)
    <2>1. /\ issued' = [issued EXCEPT ![c] = @ + 1]
          /\ roundtrip(c, "command", <<Command(c, "launch")>>)
          /\ UNCHANGED <<link, confirmed>>
      BY <1>3 DEF venowm_launch
    <2> QED
      BY <1>1, <1>3, <2>1, OneCommandKeeps DEF CommandWords
  <1> QED
    BY <1>2, <1>3

LEMMA CommandKeeps ==
  ASSUME IInv, NEW c \in Client, NEW flush \in BOOLEAN,
         do_venowm_command(c, flush)
  PROVE  StepOf(c)
PROOF
  <1>1. /\ doing[c] = "idle" /\ UNCHANGED <<server, executed>>
        /\ Program[c] # "library" => flush
    BY DEF do_venowm_command, Calls
  <1>2. CASE ~Ready(c)
    <2>1. NotReady(c)
      BY <1>2 DEF do_venowm_command
    <2> QED
      BY <1>1, <2>1, NotReadyKeeps
  <1>3. CASE Ready(c) /\ flush
    <2>1. /\ issued' = [issued EXCEPT ![c] = @ + 1]
          /\ roundtrip(c, "command", <<Command(c, "focus")>>)
          /\ UNCHANGED <<link, confirmed>>
      BY <1>3 DEF do_venowm_command
    <2> QED
      BY <1>1, <1>3, <2>1, OneCommandKeeps DEF CommandWords
  <1>4. CASE Ready(c) /\ ~flush
    <2>0. PICK x : x = Command(c, "focus")
      OBVIOUS
    <2>1. /\ issued' = [issued EXCEPT ![c] = @ + 1]
          /\ out' = [out EXCEPT ![c] = Append(@, x)]
          /\ Return(c, "command", v[c], 0)
          /\ UNCHANGED <<answered, wire, events, link, confirmed, reported>>
      BY <1>4, <2>0 DEF do_venowm_command
    <2>2. Program[c] = "library" /\ Good(c)
      BY <1>1, <1>4 DEF IInv
    <2>3. /\ v' = v /\ doing' = doing
          /\ ret' = [ret EXCEPT ![c] = 0]
      BY <1>1, <2>1, <2>2 DEF Return, Afterwards, IInv, Typed
    <2>4. /\ issued'[c] = issued[c] + 1
          /\ out'[c] = Append(out[c], x)
      BY <2>1 DEF IInv, Typed
    <2>5. x \in Commands /\ x.n = issued[c] + 1
      BY <2>0, CommandDoes DEF CommandWords
    <2>6. Typed'
      BY <1>1, <2>1, <2>3, <2>5 DEF IInv, Typed
    <2>7. \A d \in Client \ {c} : Same(d)
      BY <1>1, <2>1, <2>3 DEF Same, IInv, Typed
    <2>8. Fresh(c)' /\ AnswerIsLast(c)' /\ Confirmed(c)'
      BY <1>1, <1>4, <2>1, <2>2, <2>3
      DEF Fresh, AnswerIsLast, Waits, Ready, Good, Confirmed
    <2>9. OneQuestion(c)' /\ OneCommand(c)'
      BY <1>1, <2>1, <2>2, <2>3
      DEF OneQuestion, OneCommand, Waits, Good, Quiet
    <2>10. Accounted(c)'
      <3>1. /\ InLine(executed[c], wire[c], out[c])
            /\ AllNumbers(executed[c], wire[c], out[c]) \subseteq 1..issued[c]
        BY <2>2 DEF Good, Accounted
      <3>2. /\ InLine(executed[c], wire[c], Append(out[c], x))
            /\ AllNumbers(executed[c], wire[c], Append(out[c], x)) \subseteq 1..(issued[c] + 1)
            /\ 1..issued[c] \subseteq AllNumbers(executed[c], wire[c], out[c]) =>
                 1..(issued[c] + 1) \subseteq
                   AllNumbers(executed[c], wire[c], Append(out[c], x))
        BY <2>5, <3>1, ClientType, LineBuffered
      <3>3. /\ executed'[c] = executed[c] /\ wire'[c] = wire[c] /\ link'[c] = link[c]
        BY <1>1, <2>1
      <3> QED
        BY <2>2, <2>4, <3>2, <3>3 DEF Accounted, Good
    <2> QED
      BY <2>6, <2>7, <2>8, <2>9, <2>10 DEF StepOf, Good
  <1> QED
    BY <1>2, <1>3, <1>4

LEMMA DispatchKeeps ==
  ASSUME IInv, NEW c \in Client, dispatch(c)
  PROVE  StepOf(c)
PROOF
  <1> DEFINE event == Head(events[c])
             x == HandleEvent(v[c], event)
  <1>1. /\ Waits(c) /\ events[c] # <<>>
        /\ v' = [v EXCEPT ![c] = x]
        /\ answered' = [answered EXCEPT ![c] = answered[c] \/ event = "done"]
        /\ events' = [events EXCEPT ![c] = Tail(events[c])]
        /\ UNCHANGED <<doing, ret, out, wire, link, server, executed, issued,
                       confirmed>>
        /\ \/ reported' = reported
           \/ reported' = [reported EXCEPT ![c] = "global disappeared"]
    BY DEF dispatch, IInv, Typed
  <1>2. /\ x \in [connected : BOOLEAN, failed : BOOLEAN, errmsg : Errors]
        /\ v[c].failed => x.failed
    <2>1. errmsg(v[c], "global disappeared") \in
            [connected : BOOLEAN, failed : BOOLEAN, errmsg : Errors]
      BY ClientType, ErrmsgDoes DEF Errors
    <2>2. v[c].failed => errmsg(v[c], "global disappeared").failed
      BY ClientType, ErrmsgDoes DEF Errors
    <2> QED
      BY <2>1, <2>2, ClientType DEF HandleEvent, Disappears
  <1>3. /\ Tail(events[c]) \in Seq(Events)
        /\ event \in Elems(events[c]) /\ event \in Events
        /\ Elems(Tail(events[c])) \subseteq Elems(events[c])
    <2>1. events[c] \in Seq(Events) /\ events[c] # <<>>
      BY <1>1, ClientType
    <2> QED
      BY <2>1 DEF Elems
  <1>4. Good(c)
    BY DEF IInv
  <1> HIDE DEF x, event
  <1>5. Typed'
    <2>1. reported' \in [Client -> Errors]
      BY <1>1 DEF IInv, Typed, Errors
    <2> QED
      BY <1>1, <1>2, <1>3, <2>1 DEF IInv, Typed
  <1>6. \A d \in Client \ {c} : Same(d)
    BY <1>1 DEF Same, IInv, Typed
  <1>7. /\ v'[c] = x /\ answered'[c] = (answered[c] \/ event = "done")
        /\ events'[c] = Tail(events[c])
    BY <1>1 DEF IInv, Typed
  <1>8. Fresh(c)' /\ Accounted(c)' /\ OneCommand(c)'
        /\ Confirmed(c)'
    BY <1>1, <1>4 DEF Good, Fresh, Accounted, OneCommand, Waits, Confirmed
  <1>9. AnswerIsLast(c)'
    BY <1>1, <1>3, <1>4, <1>7 DEF Good, AnswerIsLast, Waits
  <1>10. OneQuestion(c)'
    <2>1. Waits(c) /\ Waits(c)'
      BY <1>1 DEF Waits
    <2>2. event = "done" => "done" \notin Elems(Tail(events[c]))
      <3>1. events[c] \in Seq(Events) /\ events[c] # <<>>
        BY <1>1, ClientType
      <3>2. \A i, j \in 1..Len(events[c]) :
              events[c][i] = "done" /\ events[c][j] = "done" => i = j
        BY <1>4 DEF Good, OneQuestion
      <3> QED
        BY <3>1, <3>2 DEF Elems, event
    <2>3. answered'[c] => Quiet(c)'
      BY <1>1, <1>3, <1>4, <1>7, <2>1, <2>2 DEF Good, OneQuestion, Quiet
    <2>4. \A i, j \in 1..Len(Tail(events[c])) :
            Tail(events[c])[i] = "done" /\ Tail(events[c])[j] = "done" => i = j
      <3>1. /\ Len(Tail(events[c])) = Len(events[c]) - 1
            /\ \A i \in 1..Len(Tail(events[c])) :
                 Tail(events[c])[i] = events[c][i + 1]
        <4>1. events[c] \in Seq(Events) /\ events[c] # <<>>
          BY <1>1, ClientType
        <4> QED
          BY <4>1
      <3>2. \A i, j \in 1..Len(events[c]) :
              events[c][i] = "done" /\ events[c][j] = "done" => i = j
        BY <1>4 DEF Good, OneQuestion
      <3>3. Len(events[c]) \in Nat
        BY ClientType
      <3> QED
        BY <3>1, <3>2, <3>3
    <2>5. Sync \in Elems(wire[c]) => "done" \notin Elems(Tail(events[c]))
      BY <1>3, <1>4 DEF Good, OneQuestion
    <2>6. \A i \in 1..Len(wire[c]) : wire[c][i] = Sync => i = Len(wire[c])
      BY <1>4 DEF Good, OneQuestion
    <2> QED
      <3>1. wire'[c] = wire[c] /\ events'[c] = Tail(events[c])
        BY <1>1, <1>7
      <3> QED
        BY <2>1, <2>3, <2>4, <2>5, <2>6, <3>1 DEF OneQuestion
  <1> QED
    BY <1>5, <1>6, <1>8, <1>9, <1>10 DEF StepOf, Good

LEMMA ReturnsKeep ==
  ASSUME IInv, NEW c \in Client, roundtrip_returns(c)
  PROVE  StepOf(c)
PROOF
  <1>1. /\ Waits(c) /\ answered[c] /\ Good(c) /\ Quiet(c)
        /\ UNCHANGED <<server, executed>>
    BY DEF roundtrip_returns, IInv, Good, OneQuestion
  <1>2. Numbers(executed[c]) = 1..issued[c]
    BY <1>1 DEF Good, AnswerIsLast
  <1>3. CASE v[c].connected
    <2> DEFINE next == Afterwards(c, doing[c], 0)
    <2>1. /\ v' = v /\ ret' = [ret EXCEPT ![c] = 0]
          /\ doing' = [doing EXCEPT ![c] = next]
          /\ confirmed' = [confirmed EXCEPT ![c] = issued[c]]
          /\ UNCHANGED <<answered, out, wire, events, link, issued, reported>>
      BY <1>3 DEF roundtrip_returns, Return, IInv, Typed
    <2>2. /\ next \in {"idle", "exit0"}
          /\ Program[c] # "library" =>
               next = IF doing[c] = "connect" THEN "idle" ELSE "exit0"
      BY DEF Afterwards
    <2> HIDE DEF next
    <2>3. Typed'
      BY <1>1, <2>1, <2>2 DEF IInv, Typed
    <2>4. \A d \in Client \ {c} : Same(d)
      BY <1>1, <2>1 DEF Same, IInv, Typed
    <2>5. doing'[c] = next /\ confirmed'[c] = issued[c]
      BY <2>1 DEF IInv, Typed
    <2>6. Fresh(c)' /\ Accounted(c)' /\ AnswerIsLast(c)'
      BY <1>1, <1>3, <2>1, <2>2, <2>5
      DEF Good, Fresh, Accounted, AnswerIsLast, Waits
    <2>7. OneQuestion(c)'
      BY <1>1, <2>1, <2>2, <2>5 DEF Good, OneQuestion, Waits, Quiet
    <2>8. OneCommand(c)'
      <3>1. 1..1 = {1}
        OBVIOUS
      <3> QED
        BY <1>1, <1>2, <2>1, <2>2, <2>5, <3>1 DEF Good, OneCommand, Waits
    <2>9. Confirmed(c)'
      BY <1>1, <1>2, <2>5 DEF Confirmed
    <2> QED
      BY <2>3, <2>4, <2>6, <2>7, <2>8, <2>9 DEF StepOf, Good
  <1>4. CASE ~v[c].connected
    <2>1. PICK call \in {"connect", "command"} : call = doing[c]
      BY <1>1 DEF Waits
    <2>2. Fails(c, call, "unable to find venowm")
      BY <1>4, <2>1 DEF roundtrip_returns
    <2> QED
      BY <1>1, <2>2, FailsKeeps DEF Errors
  <1> QED
    BY <1>3, <1>4

LEMMA RoundtripFailsKeeps ==
  ASSUME IInv, NEW c \in Client, roundtrip_fails(c)
  PROVE  StepOf(c)
PROOF
  <1>1. PICK call \in {"connect", "command"} : call = doing[c]
    BY DEF roundtrip_fails, Waits
  <1>2. Fails(c, call, "failed to sync") /\ UNCHANGED <<server, executed>>
    BY <1>1 DEF roundtrip_fails
  <1> QED
    BY <1>2, FailsKeeps DEF Errors

(* The two ways to end without another call. *)
LEMMA EndKeeps ==
  ASSUME IInv, NEW c \in Client, venowm_destroy(c) \/ usage(c)
  PROVE  StepOf(c)
PROOF
  <1>1. PICK next \in {"exit0", "exit1"} :
          /\ doing' = [doing EXCEPT ![c] = next]
          /\ Program[c] # "library" => next = "exit1"
    BY DEF venowm_destroy, usage, Calls
  <1>2. /\ doing[c] = "idle"
        /\ UNCHANGED <<v, answered, ret, events, server, executed, issued,
                       confirmed, reported>>
        /\ \/ UNCHANGED <<out, wire, link>>
           \/ /\ out' = [out EXCEPT ![c] = <<>>]
              /\ wire' = [wire EXCEPT ![c] = <<>>]
              /\ link' = [link EXCEPT ![c] = "none"]
    BY DEF venowm_destroy, usage, Calls, history
  <1>3. Typed'
    <2>1. /\ out' \in [Client -> Seq(Commands)]
          /\ wire' \in [Client -> Seq(Requests)]
          /\ link' \in [Client -> {"none", "up", "down"}]
      <3>1. CASE UNCHANGED <<out, wire, link>>
        BY <3>1 DEF IInv, Typed
      <3>2. CASE /\ out' = [out EXCEPT ![c] = <<>>]
                 /\ wire' = [wire EXCEPT ![c] = <<>>]
                 /\ link' = [link EXCEPT ![c] = "none"]
        BY <3>2 DEF IInv, Typed
      <3> QED
        BY <1>2, <3>1, <3>2
    <2> QED
      BY <1>1, <1>2, <2>1 DEF IInv, Typed
  <1>4. \A d \in Client \ {c} : Same(d)
    BY <1>1, <1>2 DEF Same, IInv, Typed
  <1>5. doing'[c] = next
    BY <1>1 DEF IInv, Typed
  <1>6. Good(c)
    BY DEF IInv
  <1>7. Fresh(c)' /\ AnswerIsLast(c)' /\ Confirmed(c)'
    BY <1>2, <1>5, <1>6 DEF Good, Fresh, AnswerIsLast, Waits, Confirmed
  <1>8. OneCommand(c)'
    BY <1>1, <1>5 DEF OneCommand
  <1>9. Accounted(c)'
    <2>1. CASE UNCHANGED <<out, wire, link>>
      BY <1>2, <1>6, <2>1 DEF Good, Accounted
    <2>2. CASE /\ out' = [out EXCEPT ![c] = <<>>]
               /\ wire' = [wire EXCEPT ![c] = <<>>]
               /\ link' = [link EXCEPT ![c] = "none"]
      <3>1. /\ out'[c] = <<>> /\ wire'[c] = <<>> /\ link'[c] = "none"
            /\ executed'[c] = executed[c] /\ issued'[c] = issued[c]
        BY <1>2, <2>2 DEF IInv, Typed
      <3>2. /\ InLine(executed[c], <<>>, <<>>)
            /\ AllNumbers(executed[c], <<>>, <<>>) \subseteq 1..issued[c]
        <4>1. /\ InLine(executed[c], wire[c], out[c])
              /\ AllNumbers(executed[c], wire[c], out[c]) \subseteq 1..issued[c]
          BY <1>6 DEF Good, Accounted
        <4> QED
          BY <4>1, LineDropped
      <3> QED
        BY <3>1, <3>2 DEF Accounted
    <2> QED
      BY <1>2, <2>1, <2>2
  <1>10. OneQuestion(c)'
    <2>1. wire'[c] \in {wire[c], <<>>} /\ events'[c] = events[c]
      BY <1>2 DEF IInv, Typed
    <2> QED
      BY <1>2, <1>5, <1>6, <2>1 DEF Good, OneQuestion, Waits, Quiet, Elems
  <1> QED
    BY <1>3, <1>4, <1>7, <1>8, <1>9, <1>10 DEF StepOf, Good

LEMMA ServeKeeps ==
  ASSUME IInv, NEW c \in Client, serve(c)
  PROVE  StepOf(c)
PROOF
  <1> DEFINE request == Head(wire[c])
  <1>1. /\ link[c] = "up" /\ wire[c] # <<>>
        /\ wire' = [wire EXCEPT ![c] = Tail(wire[c])]
        /\ UNCHANGED <<v, doing, answered, ret, out, link, server, issued,
                       confirmed, reported>>
    BY DEF serve, history, IInv, Typed
  <1>2. /\ Tail(wire[c]) \in Seq(Requests)
        /\ request \in Requests /\ request = wire[c][1] /\ Len(wire[c]) \in Nat \ {0}
        /\ Len(Tail(wire[c])) = Len(wire[c]) - 1
        /\ \A i \in 1..Len(Tail(wire[c])) : Tail(wire[c])[i] = wire[c][i + 1]
    BY <1>1, ClientType
  <1>3. Good(c)
    BY DEF IInv
  <1>4. PICK f : f = IF request \in Commands THEN Append(executed[c], request)
                      ELSE executed[c]
    OBVIOUS
  <1>5. executed' = [executed EXCEPT ![c] = f]
    <2>1. CASE request \in {GetRegistry, Sync}
      BY <1>4, <2>1, SyncIsNoCommand DEF serve, IInv, Typed
    <2>2. CASE request \in Commands
      BY <1>4, <2>2, SyncIsNoCommand DEF serve, IInv, Typed
    <2> QED
      BY <2>1, <2>2 DEF serve
  <1>6. /\ events[c] # Append(events[c], "done")
         /\ Append(events[c], "global") # Append(events[c], "done")
    <2>1. events[c] \in Seq(Events) /\ "done" \in Events /\ "global" \in Events
      BY ClientType DEF Events
    <2>2. Len(Append(events[c], "done")) = Len(events[c]) + 1
      BY <2>1
    <2>3. /\ Append(events[c], "global")[Len(events[c]) + 1] = "global"
          /\ Append(events[c], "done")[Len(events[c]) + 1] = "done"
      BY <2>1
    <2> QED
      BY <2>1, <2>2, <2>3
  <1>7. PICK e \in {events[c]} \cup {Append(events[c], "global"),
                                     Append(events[c], "done")} :
          /\ events' = [events EXCEPT ![c] = e]
          /\ e = Append(events[c], "done") => request = Sync
    <2>1. CASE request = Sync
      BY <2>1, SyncIsNoCommand DEF serve, Send, IInv, Typed
    <2>2. CASE request # Sync /\ events' = events
      <3>1. events' = [events EXCEPT ![c] = events[c]]
        BY <2>2 DEF IInv, Typed
      <3> QED
        BY <1>6, <3>1
    <2>3. CASE request = GetRegistry /\ Send(c, "global")
      BY <1>6, <2>3 DEF Send
    <2> QED
      BY <2>1, <2>2, <2>3, SyncIsNoCommand DEF serve
  <1>8. e \in Seq(Events)
    <2>1. /\ "global" \in Events /\ "done" \in Events
          /\ events[c] \in Seq(Events)
      BY ClientType DEF Events
    <2> QED
      BY <2>1
  <1>9. /\ f \in Seq(Commands)
        /\ InLine(f, Tail(wire[c]), out[c])
        /\ AllNumbers(f, Tail(wire[c]), out[c])
             = AllNumbers(executed[c], wire[c], out[c])
        /\ Numbers(executed[c]) \subseteq Numbers(f)
    <2>1. /\ executed[c] \in Seq(Commands) /\ wire[c] \in Seq(Requests)
          /\ out[c] \in Seq(Commands) /\ wire[c] # <<>>
          /\ InLine(executed[c], wire[c], out[c])
      BY <1>1, <1>3, ClientType DEF Good, Accounted
    <2> QED
      BY <1>4, <2>1, LineServed
  <1> HIDE DEF request
  <1>10. Typed'
    <2>1. executed' \in [Client -> Seq(Commands)]
      BY <1>5, <1>9 DEF IInv, Typed
    <2>2. /\ wire' \in [Client -> Seq(Requests)]
          /\ events' \in [Client -> Seq(Events)]
      BY <1>1, <1>2, <1>7, <1>8 DEF IInv, Typed
    <2> QED
      BY <1>1, <2>1, <2>2 DEF IInv, Typed
  <1>11. \A d \in Client \ {c} : Same(d)
    BY <1>1, <1>5, <1>7 DEF Same, IInv, Typed
  <1>12. /\ wire'[c] = Tail(wire[c]) /\ executed'[c] = f
        /\ events'[c] = e
    BY <1>1, <1>5, <1>7 DEF IInv, Typed
  <1>13. Accounted(c)'
    BY <1>1, <1>3, <1>9, <1>12 DEF Good, Accounted
  <1>14. Numbers(f) \subseteq 1..issued[c]
    BY <1>3, <1>9 DEF Good, Accounted, AllNumbers
  <1>15. Fresh(c)' /\ Confirmed(c)'
    BY <1>1, <1>3, <1>9, <1>12 DEF Good, Fresh, Confirmed
  <1>16. OneCommand(c)'
    <2>1. doing[c] = "exit0" /\ Program[c] # "library" => Numbers(f) = {1}
      <3>1. 1..1 = {1}
        OBVIOUS
      <3> QED
        BY <1>3, <1>9, <1>14, <3>1 DEF Good, OneCommand
    <2> QED
      BY <1>1, <1>3, <1>12, <2>1 DEF Good, OneCommand
  <1>17. Sync \in Elems(Tail(wire[c])) =>
           request # Sync /\ Sync \in Elems(wire[c])
    BY <1>2, <1>3 DEF Good, OneQuestion, Elems
  <1>18. request = Sync =>
           Sync \in Elems(wire[c]) /\ Tail(wire[c]) = <<>>
    <2>1. SUFFICES ASSUME request = Sync
                   PROVE  Sync \in Elems(wire[c]) /\ Tail(wire[c]) = <<>>
      OBVIOUS
    <2>2. 1 = Len(wire[c]) /\ Sync \in Elems(wire[c])
      <3>1. 1 \in 1..Len(wire[c]) /\ wire[c][1] = Sync
        BY <1>2, <2>1
      <3> QED
        BY <1>3, <3>1 DEF Good, OneQuestion, Elems
    <2>3. Tail(wire[c]) \in Seq(Requests) /\ Len(Tail(wire[c])) = 0
      BY <1>2, <2>2
    <2> QED
      BY <2>2, <2>3, EmptySeq
  <1>19. "done" \in Elems(e) =>
           "done" \in Elems(events[c]) \/ request = Sync
    <2>1. events[c] \in Seq(Events) /\ "done" # "global"
      BY ClientType
    <2>2. CASE e = events[c] \/ e = Append(events[c], "done")
      BY <1>7, <2>2
    <2>3. CASE e = Append(events[c], "global")
      BY <2>1, <2>3 DEF Elems
    <2> QED
      BY <2>2, <2>3
  <1>20. OneQuestion(c)'
    <2>1. /\ ~Waits(c)' /\ ~v'[c].failed => Quiet(c)'
          /\ Waits(c)' /\ answered'[c] => Quiet(c)'
      <3>1. (~Waits(c) /\ ~v[c].failed) \/ (Waits(c) /\ answered[c]) => Quiet(c)'
        BY <1>3, <1>12, <1>17, <1>18, <1>19 DEF Good, OneQuestion, Quiet
      <3> QED
        BY <1>1, <3>1 DEF Waits
    <2>2. Sync \in Elems(Tail(wire[c])) => "done" \notin Elems(e)
      BY <1>3, <1>17, <1>19 DEF Good, OneQuestion
    <2>3. \A i \in 1..Len(Tail(wire[c])) :
            Tail(wire[c])[i] = Sync => i = Len(Tail(wire[c]))
      BY <1>2, <1>3 DEF Good, OneQuestion
    <2>4. \A i, j \in 1..Len(e) : e[i] = "done" /\ e[j] = "done" => i = j
      <3>1. "done" \in Elems(events[c]) => request # Sync
        BY <1>3, <1>18 DEF Good, OneQuestion
      <3>2. \A i, j \in 1..Len(events[c]) :
              events[c][i] = "done" /\ events[c][j] = "done" => i = j
        BY <1>3 DEF Good, OneQuestion
      <3>3. events[c] \in Seq(Events)
        BY ClientType
      <3>4. CASE e = events[c]
        BY <3>2, <3>4
      <3>5. CASE e = Append(events[c], "global")
        BY <3>2, <3>3, <3>5
      <3>6. CASE e = Append(events[c], "done")
        <4>1. \A i \in 1..Len(events[c]) : events[c][i] # "done"
          BY <1>7, <3>1, <3>6 DEF Elems
        <4> QED
          BY <3>3, <3>6, <4>1
      <3> QED
        BY <3>4, <3>5, <3>6
    <2> QED
      BY <1>12, <2>1, <2>2, <2>3, <2>4 DEF OneQuestion
  <1>21. AnswerIsLast(c)'
    <2>1. SUFFICES ASSUME Waits(c)
                   PROVE  /\ out[c] = <<>>
                          /\ answered[c] \/ "done" \in Elems(e) =>
                               Numbers(f) = 1..issued[c]
      BY <1>1, <1>12 DEF AnswerIsLast, Waits
    <2>2. out[c] = <<>>
      BY <1>3, <2>1 DEF Good, AnswerIsLast
    <2>3. CASE answered[c] \/ "done" \in Elems(events[c])
      <3>1. Numbers(executed[c]) = 1..issued[c]
        BY <1>3, <2>1, <2>3 DEF Good, AnswerIsLast
      <3> QED
        BY <1>9, <1>14, <2>2, <3>1
    <2>4. CASE request = Sync
      <3>1. 1..issued[c] \subseteq AllNumbers(f, <<>>, <<>>)
        BY <1>1, <1>3, <1>9, <1>18, <2>2, <2>4 DEF Good, Accounted
      <3>2. AllNumbers(f, <<>>, <<>>) = Numbers(f)
        BY NumbersEmpty DEF AllNumbers
      <3> QED
        BY <1>14, <2>2, <3>1, <3>2
    <2> QED
      BY <1>19, <2>2, <2>3, <2>4
  <1> QED
    BY <1>10, <1>11, <1>13, <1>15, <1>16, <1>20, <1>21 DEF StepOf, Good

(* The end of the compositor takes events away, and may add one that is no  *)
(* answer.                                                                  *)
LEMMA LastEventsDo ==
  ASSUME NEW q \in Seq(Events),
         NEW e, \/ \E n \in 0..Len(q) : e = SubSeq(q, 1, n)
                \/ e = Append(q, "global_remove")
  PROVE  /\ e \in Seq(Events)
         /\ "done" \in Elems(e) => "done" \in Elems(q)
         /\ (\A i, j \in 1..Len(q) : q[i] = "done" /\ q[j] = "done" => i = j) =>
              \A i, j \in 1..Len(e) : e[i] = "done" /\ e[j] = "done" => i = j
PROOF
  <1>1. CASE e = Append(q, "global_remove")
    <2>1. "global_remove" \in Events
      BY DEF Events
    <2> QED
      BY <1>1, <2>1 DEF Elems
  <1>2. ASSUME NEW n \in 0..Len(q), e = SubSeq(q, 1, n)
        PROVE  /\ e \in Seq(Events) /\ Len(e) = n
               /\ \A i \in 1..n : e[i] = q[i]
    BY <1>2
  <1>3. CASE \E n \in 0..Len(q) : e = SubSeq(q, 1, n)
    BY <1>2, <1>3 DEF Elems
  <1> QED
    BY <1>1, <1>3

LEMMA BackendFreeKeeps ==
  ASSUME IInv, backend_free
  PROVE  IInv'
PROOF
  <1>1. /\ UNCHANGED <<v, doing, answered, ret, out, wire, executed, issued,
                       confirmed, reported>>
        /\ server' = "gone"
        /\ link' = [c \in Client |-> IF link[c] = "up" THEN "down" ELSE link[c]]
    BY DEF backend_free, history
  <1>2. \E f \in [Client -> UNION {LastEvents(c) : c \in Client}] :
          events' = f /\ \A c \in Client : f[c] \in LastEvents(c)
    BY DEF backend_free
  <1>3. /\ events' = [c \in Client |-> events'[c]]
        /\ \A c \in Client : events'[c] \in LastEvents(c)
    BY <1>2
  <1>4. ASSUME NEW c \in Client
        PROVE  /\ events'[c] \in Seq(Events)
               /\ "done" \in Elems(events'[c]) => "done" \in Elems(events[c])
               /\ (\A i, j \in 1..Len(events[c]) :
                     events[c][i] = "done" /\ events[c][j] = "done" => i = j) =>
                  \A i, j \in 1..Len(events'[c]) :
                    events'[c][i] = "done" /\ events'[c][j] = "done" => i = j
               /\ link[c] = "none" /\ events[c] = <<>> => events'[c] = <<>>
    <2>1. PICK e : e = events'[c]
      OBVIOUS
    <2>2. PICK q : q = events[c]
      OBVIOUS
    <2>3. q \in Seq(Events)
      BY <2>2, ClientType
    <2>4. \/ \E n \in 0..Len(q) : e = SubSeq(q, 1, n)
          \/ link[c] = "up" /\ e = Append(q, "global_remove")
      BY <1>3, <2>1, <2>2 DEF LastEvents
    <2>5. /\ e \in Seq(Events)
          /\ "done" \in Elems(e) => "done" \in Elems(q)
          /\ (\A i, j \in 1..Len(q) : q[i] = "done" /\ q[j] = "done" => i = j) =>
               \A i, j \in 1..Len(e) : e[i] = "done" /\ e[j] = "done" => i = j
      BY <2>3, <2>4, LastEventsDo
    <2>6. link[c] = "none" /\ q = <<>> => e = <<>>
      BY <2>4
    <2> QED
      BY <2>1, <2>2, <2>5, <2>6
  <1>5. Typed'
    <2>1. events' \in [Client -> Seq(Events)]
      BY <1>3, <1>4
    <2>2. link' \in [Client -> {"none", "up", "down"}]
      BY <1>1 DEF IInv, Typed
    <2> QED
      BY <1>1, <2>1, <2>2 DEF IInv, Typed
  <1>6. ASSUME NEW c \in Client
        PROVE  Good(c)'
    <2>1. Good(c) /\ link'[c] = (IF link[c] = "up" THEN "down" ELSE link[c])
      BY <1>1 DEF IInv
    <2>2. Fresh(c)' /\ Accounted(c)' /\ OneCommand(c)'
          /\ Confirmed(c)'
      BY <1>1, <1>4, <2>1 DEF Good, Fresh, Accounted, OneCommand, Confirmed
    <2>3. OneQuestion(c)'
      BY <1>1, <1>4, <2>1 DEF Good, OneQuestion, Quiet, Waits
    <2>4. AnswerIsLast(c)'
      BY <1>1, <1>4, <2>1 DEF Good, AnswerIsLast, Waits
    <2> QED
      BY <2>2, <2>3, <2>4 DEF Good
  <1> QED
    BY <1>5, <1>6 DEF IInv

LEMMA InitHolds == Init => IInv
PROOF
  <1> SUFFICES ASSUME Init PROVE IInv
    OBVIOUS
  <1>1. Typed
    <2>1. v \in [Client -> [connected : BOOLEAN, failed : BOOLEAN, errmsg : Errors]]
      <3>1. [connected |-> FALSE, failed |-> FALSE, errmsg |-> ""] \in
              [connected : BOOLEAN, failed : BOOLEAN, errmsg : Errors]
        BY DEF Errors
      <3> QED
        BY <3>1 DEF Init
    <2>2. \A T : <<>> \in Seq(T)
      OBVIOUS
    <2>3. /\ out \in [Client -> Seq(Commands)]
          /\ wire \in [Client -> Seq(Requests)]
          /\ events \in [Client -> Seq(Events)]
      BY <2>2 DEF Init
    <2>4. ret \in [Client -> {-1, 0, 1}]
      BY DEF Init
    <2>5. executed \in [Client -> Seq(Commands)]
      BY <2>2 DEF Init
    <2>6. issued \in [Client -> Nat] /\ confirmed \in [Client -> Nat]
      BY DEF Init
    <2>7. reported \in [Client -> Errors]
      BY DEF Init, Errors
    <2> QED
      BY <2>1, <2>3, <2>4, <2>5, <2>6, <2>7 DEF Init, Typed
  <1>2. ASSUME NEW c \in Client
        PROVE  Good(c)
    <2>1. /\ ~Waits(c) /\ doing[c] = "idle" /\ wire[c] = <<>> /\ out[c] = <<>>
          /\ events[c] = <<>> /\ link[c] = "none"
          /\ issued[c] = 0 /\ executed[c] = <<>> /\ confirmed[c] = 0
      BY <1>2 DEF Init, Waits
    <2>2. Elems(<<>>) = {} /\ Len(<<>>) = 0
      BY DEF Elems
    <2>3. Fresh(c) /\ AnswerIsLast(c) /\ OneCommand(c) /\ Confirmed(c)
      BY <2>1 DEF Fresh, AnswerIsLast, OneCommand, Confirmed
    <2>4. OneQuestion(c)
      BY <2>1, <2>2 DEF OneQuestion, Quiet
    <2>5. Accounted(c)
      BY <2>1, NumbersEmpty DEF Accounted, InLine, AllNumbers, Below
    <2> QED
      BY <2>3, <2>4, <2>5 DEF Good
  <1> QED
    BY <1>1, <1>2 DEF IInv

Steps(c) ==
  \/ venowm_connect(c) \/ venowm_flush(c) \/ venowm_launch(c)
  \/ \E flush \in BOOLEAN : do_venowm_command(c, flush)
  \/ venowm_destroy(c) \/ usage(c)
  \/ dispatch(c) \/ roundtrip_returns(c) \/ roundtrip_fails(c)
  \/ serve(c)

LEMMA StepsAreOfOne ==
  ASSUME IInv, NEW c \in Client, Steps(c)
  PROVE  StepOf(c)
BY ConnectKeeps, FlushKeeps, LaunchKeeps, CommandKeeps, EndKeeps,
   DispatchKeeps, ReturnsKeep, RoundtripFailsKeeps, ServeKeeps DEF Steps

LEMMA NextKeeps ==
  ASSUME IInv, [Next]_vars
  PROVE  IInv'
PROOF
  <1>1. CASE UNCHANGED vars
    <2>1. Typed'
      BY <1>1 DEF vars, history, IInv, Typed
    <2>2. \A c \in Client : Same(c)
      BY <1>1 DEF vars, history, Same
    <2> QED
      BY <2>1, <2>2, SameKeeps DEF IInv
  <1>2. CASE \E c \in Client : Steps(c)
    BY <1>2, StepsAreOfOne, StepKeeps
  <1>3. CASE backend_free
    BY <1>3, BackendFreeKeeps
  <1> QED
    BY <1>1, <1>2, <1>3 DEF Next, Steps

-----------------------------------------------------------------------------
THEOREM AlwaysIInv == Spec => []IInv
BY InitHolds, NextKeeps, PTL DEF Spec

LEMMA InLineIsInOrder ==
  ASSUME NEW e \in Seq(Commands), NEW w \in Seq(Requests), NEW o \in Seq(Commands),
         InLine(e, w, o)
  PROVE  InOrder(e \o w \o o) /\ Numbers(e \o w \o o) = AllNumbers(e, w, o)
PROOF
  <1>1. e \in Seq(Requests) /\ o \in Seq(Requests)
    BY DEF Requests
  <1>2. PICK u : u = e \o w
    OBVIOUS
  <1>3. /\ u \in Seq(Requests) /\ Numbers(u) = Numbers(e) \cup Numbers(w)
        /\ InOrder(u)
    BY <1>1, <1>2, NumbersOfConcat DEF InLine
  <1>4. Below(Numbers(u), Numbers(o))
    BY <1>3 DEF InLine, Below
  <1>5. InOrder(u \o o) /\ Numbers(u \o o) = Numbers(u) \cup Numbers(o)
    BY <1>1, <1>3, <1>4, NumbersOfConcat DEF InLine
  <1> QED
    BY <1>2, <1>3, <1>5 DEF AllNumbers

(* The commands of a client are executed in the order in which it issued    *)
(* them, and of a connected client none is missing between its buffer and   *)
(* the compositor, however many clients there are and whatever they issue.  *)
THEOREM CommandsAreAccounted == Spec => []NothingLost
PROOF
  <1>1. IInv => NothingLost
    <2>1. ASSUME IInv, NEW c \in Client
          PROVE  /\ InOrder(executed[c] \o wire[c] \o out[c])
                 /\ link[c] = "up" =>
                      Numbers(executed[c] \o wire[c] \o out[c]) = 1..issued[c]
      <3>1. /\ InOrder(executed[c] \o wire[c] \o out[c])
            /\ Numbers(executed[c] \o wire[c] \o out[c])
                 = AllNumbers(executed[c], wire[c], out[c])
        BY <2>1, ClientType, InLineIsInOrder DEF Good, Accounted
      <3> QED
        BY <2>1, <3>1, ClientType DEF Good, Accounted
    <2> QED
      BY <2>1 DEF NothingLost
  <1> QED
    BY <1>1, AlwaysIInv, PTL

(* An answer means that every command issued before it was executed, and    *)
(* a venowm that exits with 0 had its one command executed.                 *)
THEOREM SuccessIsTrue == Spec => []SuccessMeansExecuted
PROOF
  <1>1. IInv => SuccessMeansExecuted
    BY DEF IInv, Good, OneCommand, Confirmed, SuccessMeansExecuted
  <1> QED
    BY <1>1, AlwaysIInv, PTL

(* No step of a client replaces its first error, or issues a command after  *)
(* it.                                                                      *)
ErrorStays(c) ==
  v'[c].failed /\ v'[c].errmsg = v[c].errmsg /\ issued'[c] = issued[c]

LEMMA StepsKeepError ==
  ASSUME IInv, NEW c \in Client, v[c].failed, Steps(c)
  PROVE  ErrorStays(c)
PROOF
  <1>1. /\ v[c] \in [connected : BOOLEAN, failed : BOOLEAN, errmsg : Errors]
        /\ \A msg \in Errors : errmsg(v[c], msg) = v[c]
    BY ClientType, ErrmsgDoes
  <1>2. ASSUME v' \in {v, [v EXCEPT ![c] = v[c]]}, UNCHANGED issued
        PROVE  ErrorStays(c)
    BY <1>2 DEF ErrorStays, IInv, Typed
  <1>3. ASSUME NEW call, Refused(c, call)
        PROVE  ErrorStays(c)
    BY <1>2, <1>3 DEF Refused, Return, history
  <1>4. CASE \/ venowm_connect(c) \/ venowm_flush(c) \/ venowm_launch(c)
             \/ \E flush \in BOOLEAN : do_venowm_command(c, flush)
    <2>1. Refused(c, "connect") \/ Refused(c, "command")
      BY <1>4 DEF venowm_connect, venowm_flush, venowm_launch,
                  do_venowm_command, Ready, NotReady
    <2> QED
      BY <1>3, <2>1
  <1>5. CASE dispatch(c)
    <2>1. /\ v' = [v EXCEPT ![c] = HandleEvent(v[c], Head(events[c]))]
          /\ UNCHANGED issued
      BY <1>5 DEF dispatch
    <2>2. HandleEvent(v[c], Head(events[c])) \in
            {v[c], [v[c] EXCEPT !.connected = TRUE]}
      BY <1>1 DEF HandleEvent, Disappears, Errors
    <2>3. v'[c] \in {v[c], [v[c] EXCEPT !.connected = TRUE]}
      BY <2>1, <2>2 DEF IInv, Typed
    <2> QED
      BY <1>1, <2>1, <2>3 DEF ErrorStays
  <1>6. CASE roundtrip_returns(c) \/ roundtrip_fails(c)
    <2>1. v' = [v EXCEPT ![c] = v[c]] /\ UNCHANGED issued
      <3>1. {"failed to sync", "unable to find venowm"} \subseteq Errors
        BY DEF Errors
      <3>2. ASSUME NEW msg \in Errors, NEW call, Fails(c, call, msg)
            PROVE  v' = [v EXCEPT ![c] = v[c]] /\ UNCHANGED issued
        BY <1>1, <3>2 DEF Fails, Return
      <3>3. CASE roundtrip_fails(c)
        BY <3>1, <3>2, <3>3 DEF roundtrip_fails
      <3>4. CASE roundtrip_returns(c) /\ v[c].connected
        BY <3>4 DEF roundtrip_returns, Return
      <3>5. CASE roundtrip_returns(c) /\ ~v[c].connected
        BY <3>1, <3>2, <3>5 DEF roundtrip_returns
      <3> QED
        BY <1>6, <3>3, <3>4, <3>5
    <2> QED
      BY <1>2, <2>1
  <1>7. CASE venowm_destroy(c) \/ usage(c) \/ serve(c)
    BY <1>2, <1>7 DEF venowm_destroy, usage, serve, history
  <1> QED
    BY <1>4, <1>5, <1>6, <1>7 DEF Steps

(* venowm_errmsg() keeps telling the first error, whatever goes wrong after *)
(* it, and a client that has failed is done with issuing commands.          *)
THEOREM FirstErrorIsKept == Spec => FirstErrorStays
PROOF
  <1>1. ASSUME IInv, [Next]_vars, NEW c \in Client, v[c].failed
        PROVE  ErrorStays(c)
    <2>1. CASE UNCHANGED vars \/ backend_free
      BY <1>1, <2>1 DEF vars, backend_free, history, ErrorStays
    <2>2. ASSUME NEW d \in Client, Steps(d)
          PROVE  ErrorStays(c)
      <3>1. CASE d = c
        BY <1>1, <2>2, <3>1, StepsKeepError
      <3>2. CASE d # c
        <4>1. Same(c)
          BY <1>1, <2>2, <3>2, StepsAreOfOne DEF StepOf
        <4> QED
          BY <1>1, <4>1 DEF Same, ErrorStays
      <3> QED
        BY <3>1, <3>2
    <2> QED
      BY <1>1, <2>1, <2>2 DEF Next, Steps
  <1>2. IInv /\ [Next]_vars =>
          [\A c \in Client : v[c].failed =>
             /\ v'[c].failed /\ v'[c].errmsg = v[c].errmsg
             /\ issued'[c] = issued[c]]_vars
    BY <1>1 DEF ErrorStays
  <1> QED
    BY <1>2, AlwaysIInv, PTL DEF Spec, FirstErrorStays
=============================================================================

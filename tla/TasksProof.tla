----------------------------- MODULE TasksProof -----------------------------
(***************************************************************************)
(* Proofs about Tasks.tla, for every number of tasks, and for all code,    *)
(* register contents and stacks that the tasks may have.                   *)
(***************************************************************************)
EXTENDS Tasks, SequenceTheorems, TLAPS

-----------------------------------------------------------------------------
(* Stacks *)

(* A finite sequence of words, whatever the words are. *)
IsStack(s) == Len(s) \in Nat /\ s = [i \in 1 .. Len(s) |-> s[i]]

Words(s) == {s[i] : i \in 1 .. Len(s)}

LEMMA StackIsSeq ==
  ASSUME NEW s, IsStack(s)
  PROVE  s \in Seq(Words(s))
<1> DEFINE n == Len(s)
           f == [i \in 1 .. n |-> s[i]]
<1>1. n \in Nat /\ s = f
  BY DEF IsStack
<1>2. \A i \in 1 .. n : s[i] \in Words(s)
  BY DEF Words
<1> HIDE DEF n
<1>3. f \in Seq(Words(s))
  BY <1>1, <1>2, IsASeq
<1> HIDE DEF f
<1> QED
  BY <1>1, <1>3

LEMMA SeqIsStack ==
  ASSUME NEW S, NEW s \in Seq(S)
  PROVE  IsStack(s)
BY DEF IsStack

(* Pushing four words. *)
LEMMA PushFour ==
  ASSUME NEW s, IsStack(s), NEW a, NEW b, NEW c, NEW d
  PROVE  /\ IsStack(s \o <<a, b, c, d>>)
         /\ Len(s \o <<a, b, c, d>>) = Len(s) + 4
         /\ \A i \in 1 .. Len(s) : (s \o <<a, b, c, d>>)[i] = s[i]
         /\ (s \o <<a, b, c, d>>)[Len(s) + 1] = a
         /\ (s \o <<a, b, c, d>>)[Len(s) + 2] = b
         /\ (s \o <<a, b, c, d>>)[Len(s) + 3] = c
         /\ (s \o <<a, b, c, d>>)[Len(s) + 4] = d
<1> DEFINE W == Words(s) \cup {a, b, c, d}
           q == <<a, b, c, d>>
<1>1. s \in Seq(W)
  <2>1. s \in Seq(Words(s))
    BY StackIsSeq
  <2> QED
    BY <2>1
<1>2. q \in Seq(W) /\ Len(q) = 4
  OBVIOUS
<1>2a. q[1] = a /\ q[2] = b /\ q[3] = c /\ q[4] = d
  OBVIOUS
<1> HIDE DEF W, q
<1>3. /\ s \o q \in Seq(W)
      /\ Len(s \o q) = Len(s) + 4
  <2>1. s \o q \in Seq(W) /\ Len(s \o q) = Len(s) + Len(q)
    BY <1>1, <1>2, ConcatProperties
  <2> QED
    BY <1>2, <2>1, Zenon
<1>4. \A i \in 1 .. Len(s) : (s \o q)[i] = s[i]
  BY <1>1, <1>2
<1>5. \A i \in 1 .. 4 : (s \o q)[Len(s) + i] = q[i]
  <2> SUFFICES ASSUME NEW i \in 1 .. 4
               PROVE  (s \o q)[Len(s) + i] = q[i]
    OBVIOUS
  <2>1. Len(s) \in Nat
    BY <1>1
  <2>2. /\ Len(s) + i \in 1 .. Len(s) + 4
        /\ ~(Len(s) + i <= Len(s))
        /\ (Len(s) + i) - Len(s) = i
    BY <2>1
  <2>3. \A j \in 1 .. Len(s) + Len(q) :
          (s \o q)[j] = IF j <= Len(s) THEN s[j] ELSE q[j - Len(s)]
    BY <1>1, <1>2, ConcatProperties
  <2>4. Len(s) + i \in 1 .. Len(s) + Len(q)
    BY <1>2, <2>2
  <2> QED
    BY <2>2, <2>3, <2>4, Zenon
<1>6. IsStack(s \o q)
  BY <1>3, SeqIsStack
<1> QED
  BY <1>2a, <1>3, <1>4, <1>5, <1>6 DEF q

(* Popping k words. *)
LEMMA PopProps ==
  ASSUME NEW s, IsStack(s), NEW k \in 0 .. Len(s)
  PROVE  /\ IsStack(Pop(s, k))
         /\ Len(Pop(s, k)) = Len(s) - k
         /\ \A i \in 1 .. Len(s) - k : Pop(s, k)[i] = s[i]
<1>1. s \in Seq(Words(s))
  BY StackIsSeq
<1>2. Len(s) \in Nat /\ Len(s) - k \in 0 .. Len(s)
  BY <1>1
<1>3. /\ SubSeq(s, 1, Len(s) - k) \in Seq(Words(s))
      /\ Len(SubSeq(s, 1, Len(s) - k)) = Len(s) - k
      /\ \A i \in 1 .. Len(s) - k : SubSeq(s, 1, Len(s) - k)[i] = s[i]
  BY <1>1, <1>2
<1>4. IsStack(SubSeq(s, 1, Len(s) - k))
  BY <1>3, SeqIsStack
<1> QED
  BY <1>3, <1>4 DEF Pop

(* Two stacks with the same words are the same stack. *)
LEMMA StackEqual ==
  ASSUME NEW s, NEW u, IsStack(s), IsStack(u), Len(s) = Len(u),
         \A i \in 1 .. Len(s) : s[i] = u[i]
  PROVE  s = u
<1>1. [i \in 1 .. Len(s) |-> s[i]] = [i \in 1 .. Len(u) |-> u[i]]
  OBVIOUS
<1> QED
  BY <1>1, Zenon DEF IsStack

(* Popping nothing, and popping twice. *)
LEMMA PopNone ==
  ASSUME NEW s, IsStack(s)
  PROVE  SubSeq(s, 1, Len(s)) = s
<1>1. s \in Seq(Words(s))
  BY StackIsSeq
<1> QED
  BY <1>1

LEMMA PopTwice ==
  ASSUME NEW s, IsStack(s), Len(s) >= 8
  PROVE  /\ Pop(Pop(s, 5), 3) = Pop(s, 8)
         /\ At(Pop(s, 5), 2) = At(s, 7)
         /\ Len(Pop(s, 5)) >= 3
<1> DEFINE n == Len(s)
           p == Pop(s, 5)
<1>0. n \in Nat /\ n >= 8
  BY DEF IsStack
<1>0a. 5 \in 0 .. Len(s) /\ 8 \in 0 .. Len(s)
  BY <1>0
<1>1. IsStack(p) /\ Len(p) = n - 5 /\ \A i \in 1 .. n - 5 : p[i] = s[i]
  BY <1>0a, PopProps
<1>2. /\ IsStack(Pop(s, 8)) /\ Len(Pop(s, 8)) = n - 8
      /\ \A i \in 1 .. n - 8 : Pop(s, 8)[i] = s[i]
  BY <1>0a, PopProps
<1> HIDE DEF n, p
<1>3. 3 \in 0 .. Len(p)
  BY <1>0, <1>1
<1>4. /\ IsStack(Pop(p, 3)) /\ Len(Pop(p, 3)) = Len(p) - 3
      /\ \A i \in 1 .. Len(p) - 3 : Pop(p, 3)[i] = p[i]
  BY <1>1, <1>3, PopProps
<1>5. Len(Pop(p, 3)) = n - 8 /\ Len(p) - 3 = n - 8
  BY <1>0, <1>1, <1>4
<1>6. \A i \in 1 .. n - 8 : Pop(p, 3)[i] = Pop(s, 8)[i]
  <2> SUFFICES ASSUME NEW i \in 1 .. n - 8
               PROVE  Pop(p, 3)[i] = Pop(s, 8)[i]
    OBVIOUS
  <2>1. i \in 1 .. n - 5 /\ i \in 1 .. Len(p) - 3
    BY <1>0, <1>5
  <2> QED
    BY <1>1, <1>2, <1>4, <2>1, Zenon
<1>7. Pop(p, 3) = Pop(s, 8)
  BY <1>2, <1>4, <1>5, <1>6, StackEqual
<1>8. p[Len(p) - 2] = s[n - 7]
  <2>1. Len(p) - 2 = n - 7 /\ n - 7 \in 1 .. n - 5
    BY <1>0, <1>1
  <2> QED
    BY <1>1, <2>1, Zenon
<1>9. Len(p) >= 3
  BY <1>0, <1>1
<1> QED
  BY <1>7, <1>8, <1>9 DEF At, p, n

(* The stack of a task that has called context_switch: eight words on top  *)
(* of its own.                                                             *)
Framed(s, a, b, c, d, e, f, g, h) == (s \o <<a, b, c, d>>) \o <<e, f, g, h>>

LEMMA FramedProps ==
  ASSUME NEW s, IsStack(s),
         NEW a, NEW b, NEW c, NEW d, NEW e, NEW f, NEW g, NEW h
  PROVE  /\ IsStack(Framed(s, a, b, c, d, e, f, g, h))
         /\ Len(Framed(s, a, b, c, d, e, f, g, h)) = Len(s) + 8
         /\ At(Framed(s, a, b, c, d, e, f, g, h), 0) = h
         /\ At(Framed(s, a, b, c, d, e, f, g, h), 1) = g
         /\ At(Framed(s, a, b, c, d, e, f, g, h), 2) = f
         /\ At(Framed(s, a, b, c, d, e, f, g, h), 3) = e
         /\ At(Framed(s, a, b, c, d, e, f, g, h), 4) = d
         /\ At(Framed(s, a, b, c, d, e, f, g, h), 5) = c
         /\ At(Framed(s, a, b, c, d, e, f, g, h), 6) = b
         /\ At(Framed(s, a, b, c, d, e, f, g, h), 7) = a
         /\ Pop(Framed(s, a, b, c, d, e, f, g, h), 8) = s
<1> DEFINE x == Framed(s, a, b, c, d, e, f, g, h)
           y == s \o <<a, b, c, d>>
           n == Len(s)
<1>0. n \in Nat
  BY DEF IsStack
<1>1. /\ IsStack(y) /\ Len(y) = n + 4
      /\ \A i \in 1 .. n : y[i] = s[i]
      /\ y[n + 1] = a /\ y[n + 2] = b /\ y[n + 3] = c /\ y[n + 4] = d
  BY PushFour
<1>2. x = y \o <<e, f, g, h>>
  BY DEF Framed
<1> HIDE DEF x, y, n
<1>3. /\ IsStack(x) /\ Len(x) = Len(y) + 4
      /\ \A i \in 1 .. Len(y) : x[i] = y[i]
      /\ x[Len(y) + 1] = e /\ x[Len(y) + 2] = f
      /\ x[Len(y) + 3] = g /\ x[Len(y) + 4] = h
  <2> DEFINE z == y \o <<e, f, g, h>>
  <2>1. /\ IsStack(z) /\ Len(z) = Len(y) + 4
        /\ \A i \in 1 .. Len(y) : z[i] = y[i]
        /\ z[Len(y) + 1] = e /\ z[Len(y) + 2] = f
        /\ z[Len(y) + 3] = g /\ z[Len(y) + 4] = h
    BY <1>1, PushFour
  <2> QED
    BY <1>2, <2>1, Zenon
<1>4. Len(x) = n + 8 /\ Len(y) = n + 4
  BY <1>0, <1>1, <1>3
<1>5. /\ Len(x) - 0 = Len(y) + 4 /\ Len(x) - 1 = Len(y) + 3
      /\ Len(x) - 2 = Len(y) + 2 /\ Len(x) - 3 = Len(y) + 1
      /\ Len(x) - 4 = n + 4 /\ Len(x) - 5 = n + 3
      /\ Len(x) - 6 = n + 2 /\ Len(x) - 7 = n + 1
  BY <1>0, <1>4
<1>6. At(x, 0) = h /\ At(x, 1) = g /\ At(x, 2) = f /\ At(x, 3) = e
  BY <1>3, <1>5, Zenon DEF At
<1>7. {n + 1, n + 2, n + 3, n + 4} \subseteq 1 .. Len(y)
  BY <1>0, <1>4
<1>8. x[n + 1] = a /\ x[n + 2] = b /\ x[n + 3] = c /\ x[n + 4] = d
  BY <1>1, <1>3, <1>7
<1>9. At(x, 4) = d /\ At(x, 5) = c /\ At(x, 6) = b /\ At(x, 7) = a
  BY <1>5, <1>8, Zenon DEF At
<1>10. 8 \in 0 .. Len(x) /\ Len(x) - 8 = n
  BY <1>0, <1>4
<1>11. /\ IsStack(Pop(x, 8)) /\ Len(Pop(x, 8)) = Len(x) - 8
       /\ \A i \in 1 .. Len(x) - 8 : Pop(x, 8)[i] = x[i]
  BY <1>3, <1>10, PopProps
<1>12. \A i \in 1 .. n : Pop(x, 8)[i] = s[i]
  <2> SUFFICES ASSUME NEW i \in 1 .. n
               PROVE  Pop(x, 8)[i] = s[i]
    OBVIOUS
  <2>1. i \in 1 .. Len(y) /\ i \in 1 .. Len(x) - 8
    BY <1>0, <1>4, <1>10
  <2> QED
    BY <1>1, <1>3, <1>11, <2>1, Zenon
<1>13. Pop(x, 8) = s
  BY <1>10, <1>11, <1>12, StackEqual DEF n
<1> QED
  BY <1>3, <1>4, <1>6, <1>9, <1>13 DEF n, x

-----------------------------------------------------------------------------
(* The list *)

(* Linking n behind a member c of a ring yields a ring. *)
LEMMA RingInsert ==
  ASSUME NEW L, NEW c \in L, NEW n, n \notin L, NEW f, NEW g,
         \A t \in L : f[t] \in L,
         \A S \in SUBSET L : S # {} /\ (\A t \in S : f[t] \in S) => S = L,
         g[n] = f[c], g[c] = n, \A t \in L \ {c} : g[t] = f[t]
  PROVE  \A S \in SUBSET (L \cup {n}) :
           S # {} /\ (\A t \in S : g[t] \in S) => S = L \cup {n}
<1> SUFFICES ASSUME NEW S \in SUBSET (L \cup {n}), S # {},
                    \A t \in S : g[t] \in S
             PROVE  S = L \cup {n}
  OBVIOUS
<1> DEFINE R == S \ {n}
<1>1. R \in SUBSET L
  OBVIOUS
<1>2. \A t \in R : f[t] \in R
  <2> SUFFICES ASSUME NEW t \in R
               PROVE  f[t] \in R
    OBVIOUS
  <2>1. t \in L /\ t \in S /\ f[t] \in L /\ f[t] # n
    OBVIOUS
  <2>2. CASE t = c
    <3>1. n \in S
      BY <2>1, <2>2
    <3>2. f[c] \in S
      BY <3>1
    <3> QED
      BY <2>1, <2>2, <3>2
  <2>3. CASE t # c
    <3>1. g[t] = f[t] /\ g[t] \in S
      BY <2>1, <2>3
    <3> QED
      BY <2>1, <3>1
  <2> QED
    BY <2>2, <2>3
<1>3. R # {}
  <2>1. CASE n \in S
    <3>1. f[c] \in S /\ f[c] \in L
      BY <2>1
    <3> QED
      BY <3>1
  <2>2. CASE n \notin S
    BY <2>2
  <2> QED
    BY <2>1, <2>2
<1>4. R = L
  BY <1>1, <1>2, <1>3
<1>5. n \in S
  BY <1>4
<1> QED
  BY <1>4, <1>5

-----------------------------------------------------------------------------
(* The inductive invariant.  ListInv: the linked tasks are the pids below  *)
(* next_pid, and next stays among them.  SavedInv: what a task is to find  *)
(* when it runs again is something it can run.  ResumeInv: a task that has *)
(* just been switched to still has its way back to its own code.           *)
ListInv ==
  /\ current_task = NULL => next_pid = 1 /\ sp = 0
  /\ \A t \in Pids : next[t] # NULL <=> current_task # NULL /\ t < next_pid
  /\ current_task # NULL => current_task \in Linked
  /\ \A t \in Linked : next[t] \in Linked
  /\ eip # "halted" => next_pid <= MaxTasks

SavedInv ==
  /\ \A t \in Pids : IsStack(stack[t])
  /\ \A t \in Linked \ {current_task} :
       view[t].eip \in Code /\ view[t].regs \in RegFiles

ResumeInv ==
  eip = "in task_yield" =>
    /\ current_task # NULL
    /\ Len(stack[sp]) >= 3
    /\ At(stack[sp], 2) = view[current_task].eip
    /\ Pop(stack[sp], 3) = view[current_task].stack
    /\ view[current_task].regs = regs
    /\ view[current_task].eip \in Code

TasksInv ==
  /\ TypeOK
  /\ ListInv
  /\ OneRunning
  /\ OneRing
  /\ ContextSaved
  /\ SavedInv
  /\ ResumeInv

LEMMA PidsNotNull == \A t \in Pids : t # NULL /\ t \in Nat
BY PidAssumption DEF Pids

LEMMA OwnStackIsStack == \A s \in OwnStacks : IsStack(s)
BY StackAssumption, Zenon DEF IsStack

LEMMA TasksInit == Init => TasksInv
<1> SUFFICES ASSUME Init
             PROVE  TasksInv
  OBVIOUS
<1>1. 0 \in Pids /\ 1 \in 1 .. MaxTasks + 1 /\ 1 <= MaxTasks
  BY PidAssumption DEF Pids
<1>2. TypeOK
  <2>1. /\ current_task \in Pids \cup {NULL} /\ next_pid \in 1 .. MaxTasks + 1
        /\ next \in [Pids -> Pids \cup {NULL}] /\ sp \in Pids
    BY <1>1 DEF Init
  <2>2. /\ state \in [Pids -> States \cup {Uninit}]
        /\ DOMAIN esp = Pids /\ DOMAIN stack = Pids /\ DOMAIN view = Pids
    BY DEF Init
  <2>3. /\ eip \in Code \cup {"in task_yield", "halted"} /\ regs \in RegFiles
        /\ ran \in [Pids -> SUBSET Pids]
    BY DEF Init
  <2> QED
    BY <2>1, <2>2, <2>3 DEF TypeOK
<1>3. Linked = {}
  BY DEF Init, Linked
<1>4. IsStack(<<>>)
  BY StackAssumption, OwnStackIsStack
<1>5. eip # "in task_yield"
  BY CodeAssumption DEF Init
<1>6. ListInv /\ OneRunning /\ OneRing /\ ContextSaved
  BY <1>1, <1>3 DEF Init, ListInv, OneRunning, OneRing, ContextSaved
<1>7. SavedInv /\ ResumeInv
  BY <1>3, <1>4, <1>5 DEF Init, SavedInv, ResumeInv
<1> QED
  BY <1>2, <1>6, <1>7 DEF TasksInv

-----------------------------------------------------------------------------
(* The steps that do not switch *)

LEMMA CodeLabels ==
  /\ "in task_yield" \notin Code
  /\ "halted" \notin Code
  /\ "halted" # "in task_yield"
BY CodeAssumption

(* Steps that only touch the running task's registers and own stack. *)
LEMMA OwnStep ==
  ASSUME TasksInv, NEW s, IsStack(s), eip # "halted",
         eip' \in Code \cup {"halted"}, regs' \in RegFiles,
         stack' = [stack EXCEPT ![sp] = s],
         UNCHANGED <<structs, sp, view, ran>>
  PROVE  TasksInv'
<1> USE DEF TasksInv
<1>1. /\ stack'[sp] = s
      /\ \A t \in Pids \ {sp} : stack'[t] = stack[t]
      /\ DOMAIN stack' = Pids
  BY DEF TypeOK
<1>2. TypeOK'
  BY <1>1 DEF TypeOK, structs
<1>3. Linked' = Linked
  BY DEF Linked, structs
<1>4. ListInv' /\ OneRunning' /\ OneRing'
  BY <1>3 DEF ListInv, OneRunning, OneRing, structs
<1>5. ASSUME NEW t \in Linked \ {current_task}
      PROVE  stack'[t] = stack[t] /\ esp'[t] = esp[t] /\ view'[t] = view[t]
  <2>1. t \in Pids /\ t # sp
    BY <1>5 DEF Linked, OneRunning, ListInv
  <2> QED
    BY <1>1, <2>1 DEF structs
<1>6. ContextSaved'
  <2> SUFFICES ASSUME NEW t \in Linked \ {current_task}
               PROVE  /\ esp'[t] = <<t, Len(stack'[t])>>
                      /\ Len(stack'[t]) >= 5
                      /\ Popped(stack'[t]) = view'[t].regs
                      /\ \/ /\ At(stack'[t], 4) = view'[t].eip
                            /\ Pop(stack'[t], 5) = view'[t].stack
                         \/ /\ Len(stack'[t]) >= 8
                            /\ At(stack'[t], 4) = "in task_yield"
                            /\ At(stack'[t], 7) = view'[t].eip
                            /\ Pop(stack'[t], 8) = view'[t].stack
    BY <1>3 DEF ContextSaved, structs
  <2> QED
    BY <1>5, Zenon DEF ContextSaved
<1>7. SavedInv'
  BY <1>1, <1>3, <1>5 DEF SavedInv, structs
<1>8. ResumeInv'
  BY CodeLabels DEF ResumeInv
<1> QED
  BY <1>2, <1>4, <1>6, <1>7, <1>8

LEMMA StepPanic == TasksInv /\ kernel_panic => TasksInv'
<1> SUFFICES ASSUME TasksInv, kernel_panic
             PROVE  TasksInv'
  OBVIOUS
<1>1. sp \in Pids /\ regs \in RegFiles /\ DOMAIN stack = Pids
  BY DEF TasksInv, TypeOK
<1>2. Linked' = Linked
  BY DEF kernel_panic, Linked, structs
<1>3. TypeOK' /\ ListInv' /\ OneRunning' /\ OneRing'
  BY <1>2 DEF kernel_panic, TasksInv, TypeOK, ListInv, OneRunning, OneRing, structs
<1>4. ContextSaved' /\ SavedInv'
  BY <1>2 DEF kernel_panic, TasksInv, ContextSaved, SavedInv, structs
<1>5. ResumeInv'
  BY CodeLabels DEF kernel_panic, ResumeInv
<1> QED
  BY <1>3, <1>4, <1>5 DEF TasksInv

LEMMA StepWork ==
  ASSUME TasksInv, NEW e \in Code, NEW r \in RegFiles, NEW s \in OwnStacks,
         work(e, r, s)
  PROVE  TasksInv'
<1>1. IsStack(s)
  BY OwnStackIsStack
<1>2. /\ eip' \in Code \cup {"halted"} /\ regs' \in RegFiles
      /\ eip # "halted"
      /\ stack' = [stack EXCEPT ![sp] = s]
      /\ UNCHANGED <<structs, sp, view, ran>>
  BY CodeLabels DEF work, Running
<1> QED
  BY <1>1, <1>2, OwnStep

LEMMA StepInit ==
  ASSUME TasksInv, NEW ret \in Code, task_init(ret)
  PROVE  TasksInv'
<1> USE DEF TasksInv
<1>0. 0 \in Pids /\ NULL \notin Pids
  BY PidAssumption, PidsNotNull DEF Pids
<1>1. /\ current_task = NULL /\ current_task' = 0 /\ sp' = 0 /\ next_pid' = 1
      /\ next' = [next EXCEPT ![0] = 0]
      /\ state' = [state EXCEPT ![0] = "RUNNING"]
      /\ eip' = ret
      /\ UNCHANGED <<next_pid, esp, stack, sp, regs, view, ran>>
  BY DEF task_init, ListInv
<1>2. \A t \in Pids : next[t] = NULL
  BY <1>1 DEF ListInv
<1>3. /\ next'[0] = 0
      /\ \A t \in Pids \ {0} : next'[t] = NULL
      /\ next' \in [Pids -> Pids \cup {NULL}]
  BY <1>0, <1>1, <1>2 DEF TypeOK
<1>4. Linked' = {0}
  BY <1>0, <1>3 DEF Linked
<1>5. /\ state'[0] = "RUNNING"
      /\ state' \in [Pids -> States \cup {Uninit}]
  BY <1>0, <1>1 DEF TypeOK, States
<1>6. TypeOK'
  BY <1>0, <1>1, <1>3, <1>5 DEF TypeOK
<1>7. ListInv'
  <2>1. \A t \in Pids : next'[t] # NULL <=> t < 1
    <3>1. \A t \in Pids : t < 1 <=> t = 0
      BY PidsNotNull
    <3>2. 0 # NULL
      BY <1>0
    <3> QED
      BY <1>0, <1>3, <3>1, <3>2, Zenon
  <2>2. \A t \in Pids : next'[t] # NULL <=> current_task' # NULL /\ t < next_pid'
    BY <1>0, <1>1, <2>1, Zenon
  <2> QED
    BY <1>0, <1>1, <1>3, <1>4, <2>2, PidAssumption DEF ListInv
<1>8. OneRunning' /\ OneRing'
  <2>1. OneRunning'
    BY <1>1, <1>4, <1>5, Zenon DEF OneRunning
  <2>2. \A S \in SUBSET {0} : S # {} => S = {0}
    OBVIOUS
  <2>3. OneRing'
    BY <1>4, <2>2, Zenon DEF OneRing
  <2> QED
    BY <2>1, <2>3
<1>9. ContextSaved' /\ SavedInv'
  BY <1>1, <1>4 DEF ContextSaved, SavedInv
<1>10. ResumeInv'
  BY <1>1, CodeLabels DEF ResumeInv
<1> QED
  BY <1>6, <1>7, <1>8, <1>9, <1>10

LEMMA NewStackProps ==
  ASSUME NEW entry
  PROVE  /\ IsStack(NewStack(entry))
         /\ Len(NewStack(entry)) = 5
         /\ Popped(NewStack(entry)) = ZeroRegs
         /\ At(NewStack(entry), 4) = entry
         /\ Pop(NewStack(entry), 5) = <<>>
<1> DEFINE w == <<entry, 0, 0, 0, 0>>
<1>1. w \in Seq({entry, 0}) /\ Len(w) = 5
  OBVIOUS
<1>2. w[1] = entry /\ w[2] = 0 /\ w[3] = 0 /\ w[4] = 0 /\ w[5] = 0
  OBVIOUS
<1>3. NewStack(entry) = w
  BY DEF NewStack
<1> HIDE DEF w
<1>4. IsStack(w)
  BY <1>1, SeqIsStack
<1>5. At(w, 0) = 0 /\ At(w, 1) = 0 /\ At(w, 2) = 0 /\ At(w, 3) = 0
      /\ At(w, 4) = entry
  <2>1. Len(w) - 0 = 5 /\ Len(w) - 1 = 4 /\ Len(w) - 2 = 3 /\ Len(w) - 3 = 2
        /\ Len(w) - 4 = 1
    BY <1>1
  <2> QED
    BY <1>2, <2>1, Zenon DEF At
<1>6. Popped(w) = ZeroRegs
  BY <1>5 DEF Popped, ZeroRegs
<1>7. Pop(w, 5) = <<>>
  <2>1. 5 \in 0 .. Len(w) /\ Len(w) - 5 = 0
    BY <1>1
  <2>2. IsStack(Pop(w, 5)) /\ Len(Pop(w, 5)) = 0
    BY <1>4, <2>1, PopProps
  <2>3. Pop(w, 5) \in Seq(Words(Pop(w, 5)))
    BY <2>2, StackIsSeq
  <2> QED
    BY <2>2, <2>3
<1> QED
  BY <1>1, <1>3, <1>4, <1>5, <1>6, <1>7

LEMMA StepCreate ==
  ASSUME TasksInv, NEW entry \in Entries, NEW ret \in Code, task_create(entry, ret)
  PROVE  TasksInv'
<1> USE DEF TasksInv
<1>0. MaxTasks \in Nat /\ next_pid \in Nat /\ next_pid >= 1 /\ next_pid <= MaxTasks
  <2>1. next_pid \in 1 .. MaxTasks + 1
    BY Zenon DEF TypeOK
  <2>2. next_pid <= MaxTasks
    BY CodeLabels, Zenon DEF task_create, Running, ListInv
  <2> QED
    BY <2>1, <2>2, PidAssumption
<1>1. CASE next_pid >= MaxTasks
  <2>0. MaxTasks \in Nat /\ next_pid \in Nat /\ next_pid = MaxTasks
    BY <1>0, <1>1
  <2>1. /\ next_pid' \in {next_pid, next_pid + 1} /\ eip' = "halted"
        /\ UNCHANGED <<current_task, next, state, esp, stack, view, ran, sp, regs>>
        /\ current_task # NULL
    BY <1>1, <2>0 DEF task_create
  <2>2. Linked' = Linked
    BY <2>1 DEF Linked
  <2>3. TypeOK'
    <3>1. next_pid' \in 1 .. MaxTasks + 1
      BY <2>0, <2>1, PidAssumption
    <3> QED
      BY <2>1, <3>1 DEF TypeOK
  <2>4. ListInv'
    <3>1. \A t \in Pids : t < next_pid /\ t < next_pid'
      BY <2>0, <2>1 DEF Pids
    <3> QED
      BY <2>1, <2>2, <3>1 DEF ListInv
  <2>5. OneRunning' /\ OneRing'
    BY <2>1, <2>2 DEF OneRunning, OneRing
  <2>6. ContextSaved' /\ SavedInv'
    BY <2>1, <2>2 DEF ContextSaved, SavedInv
  <2>7. ResumeInv'
    BY <2>1, CodeLabels DEF ResumeInv
  <2> QED
    BY <2>3, <2>4, <2>5, <2>6, <2>7
<1>2. CASE next_pid < MaxTasks
  <2> DEFINE n == next_pid
             c == current_task
  <2>0. MaxTasks \in Nat /\ n \in Nat /\ n >= 1 /\ n + 1 \in Nat
    BY <1>0
  <2>1. /\ c # NULL /\ c' = c /\ next_pid' = n + 1 /\ eip' = ret
        /\ state' = [state EXCEPT ![n] = "READY"]
        /\ stack' = [stack EXCEPT ![n] = NewStack(entry)]
        /\ esp' = [esp EXCEPT ![n] = <<n, Len(NewStack(entry))>>]
        /\ next' = [next EXCEPT ![n] = next[c], ![c] = n]
        /\ view' = [view EXCEPT ![n] =
                      [eip |-> entry, regs |-> ZeroRegs, stack |-> <<>>]]
        /\ ran' = [ran EXCEPT ![n] = {}]
        /\ UNCHANGED <<sp, regs>>
    BY <1>2, <2>0, PidAssumption DEF task_create, Insert
  <2>2. n \in Pids /\ c \in Linked /\ n \notin Linked /\ c # n
    <3>1. n \in Pids
      BY <1>2, <2>0 DEF Pids
    <3>2. ~(n < next_pid)
      BY <2>0
    <3>3. n \notin Linked
      BY <3>1, <3>2 DEF ListInv, Linked
    <3> QED
      BY <2>1, <3>1, <3>3 DEF ListInv
  <2>3. c \in Pids /\ Linked \subseteq Pids
    BY <2>2 DEF Linked
  <2>4. /\ next'[n] = next[c] /\ next'[c] = n
        /\ \A t \in Pids \ {n, c} : next'[t] = next[t]
        /\ next' \in [Pids -> Pids \cup {NULL}]
    BY <2>1, <2>2, <2>3 DEF TypeOK
  <2>5. next[c] \in Linked
    BY <2>2 DEF ListInv
  <2>6. Linked' = Linked \cup {n}
    BY <2>2, <2>3, <2>4, <2>5, PidsNotNull DEF Linked
  <2>7. /\ state'[n] = "READY" /\ \A t \in Pids \ {n} : state'[t] = state[t]
        /\ state' \in [Pids -> States \cup {Uninit}]
    BY <2>1, <2>2 DEF TypeOK, States
  <2>8. /\ stack'[n] = NewStack(entry)
        /\ \A t \in Pids \ {n} : stack'[t] = stack[t]
        /\ DOMAIN stack' = Pids
    BY <2>1, <2>2 DEF TypeOK
  <2>9. /\ esp'[n] = <<n, Len(NewStack(entry))>>
        /\ \A t \in Pids \ {n} : esp'[t] = esp[t]
        /\ DOMAIN esp' = Pids
    BY <2>1, <2>2 DEF TypeOK
  <2>10. /\ view'[n] = [eip |-> entry, regs |-> ZeroRegs, stack |-> <<>>]
         /\ \A t \in Pids \ {n} : view'[t] = view[t]
         /\ DOMAIN view' = Pids
    BY <2>1, <2>2 DEF TypeOK
  <2>11. TypeOK'
    <3>1. next_pid' \in 1 .. MaxTasks + 1
      BY <1>2, <2>0, <2>1
    <3>2. ran' \in [Pids -> SUBSET Pids]
      BY <2>1, <2>2 DEF TypeOK
    <3> QED
      BY <2>1, <2>4, <2>7, <2>8, <2>9, <2>10, <3>1, <3>2 DEF TypeOK
  <2>12. ListInv'
    <3>1. \A t \in Pids : t \in Linked <=> t < n
      BY <2>1 DEF ListInv, Linked
    <3>2. \A t \in Pids : t < n + 1 <=> t < n \/ t = n
      BY <2>0, PidsNotNull
    <3>3. \A t \in Pids : t \in Linked' <=> t < n + 1
      BY <2>6, <3>1, <3>2
    <3>4. \A t \in Pids : next'[t] # NULL <=> t \in Linked'
      BY DEF Linked
    <3>5. \A t \in Linked' : next'[t] \in Linked'
      <4> SUFFICES ASSUME NEW t \in Linked'
                   PROVE  next'[t] \in Linked'
        OBVIOUS
      <4>1. CASE t = n
        BY <2>4, <2>5, <2>6, <4>1
      <4>2. CASE t = c
        BY <2>4, <2>6, <4>2
      <4>3. CASE t # n /\ t # c
        <5>1. t \in Linked /\ t \in Pids
          BY <2>3, <2>6, <4>3
        <5>2. next'[t] = next[t] /\ next[t] \in Linked
          BY <2>4, <4>3, <5>1 DEF ListInv
        <5> QED
          BY <2>6, <5>2
      <4> QED
        BY <4>1, <4>2, <4>3
    <3>6. next_pid' <= MaxTasks
      BY <1>2, <2>0, <2>1
    <3>7. \A t \in Pids : next'[t] # NULL <=> c' # NULL /\ t < next_pid'
      BY <2>1, <3>3, <3>4, Zenon
    <3> QED
      BY <2>1, <2>2, <2>6, <3>5, <3>6, <3>7 DEF ListInv
  <2>13. OneRunning'
    <3>1. \A t \in Linked' : state'[t] = "RUNNING" <=> t = c
      BY <2>1, <2>2, <2>3, <2>6, <2>7 DEF OneRunning
    <3> QED
      BY <2>1, <3>1 DEF OneRunning
  <2>14. OneRing'
    <3>1. /\ \A t \in Linked : next[t] \in Linked
          /\ \A S \in SUBSET Linked :
               S # {} /\ (\A t \in S : next[t] \in S) => S = Linked
      BY DEF ListInv, OneRing
    <3>2. \A t \in Linked \ {c} : next'[t] = next[t]
      BY <2>2, <2>3, <2>4
    <3>3. \A S \in SUBSET (Linked \cup {n}) :
            S # {} /\ (\A t \in S : next'[t] \in S) => S = Linked \cup {n}
      BY <2>2, <2>4, <3>1, <3>2, RingInsert
    <3> QED
      BY <2>6, <3>3, Zenon DEF OneRing
  <2>15. ContextSaved'
    <3> SUFFICES ASSUME NEW t \in Linked' \ {c}
                 PROVE  /\ esp'[t] = <<t, Len(stack'[t])>>
                        /\ Len(stack'[t]) >= 5
                        /\ Popped(stack'[t]) = view'[t].regs
                        /\ \/ /\ At(stack'[t], 4) = view'[t].eip
                              /\ Pop(stack'[t], 5) = view'[t].stack
                           \/ /\ Len(stack'[t]) >= 8
                              /\ At(stack'[t], 4) = "in task_yield"
                              /\ At(stack'[t], 7) = view'[t].eip
                              /\ Pop(stack'[t], 8) = view'[t].stack
      BY <2>1 DEF ContextSaved
    <3>1. CASE t = n
      <4>1. /\ view'[t].eip = entry /\ view'[t].regs = ZeroRegs
            /\ view'[t].stack = <<>>
        BY <2>10, <3>1
      <4>2. 5 >= 5
        OBVIOUS
      <4> QED
        BY <2>8, <2>9, <3>1, <4>1, <4>2, NewStackProps, ZenonT(60)
    <3>2. CASE t # n
      <4>1. t \in Linked \ {current_task} /\ t \in Pids \ {n}
        BY <2>3, <2>6, <3>2
      <4>2. stack'[t] = stack[t] /\ esp'[t] = esp[t] /\ view'[t] = view[t]
        BY <2>8, <2>9, <2>10, <4>1
      <4> QED
        BY <4>1, <4>2, Zenon DEF ContextSaved
    <3> QED
      BY <3>1, <3>2
  <2>16. SavedInv'
    <3>1. \A t \in Pids : IsStack(stack'[t])
      BY <2>2, <2>8, NewStackProps DEF SavedInv
    <3>2. \A t \in Linked' \ {c} :
            view'[t].eip \in Code /\ view'[t].regs \in RegFiles
      <4> SUFFICES ASSUME NEW t \in Linked' \ {c}
                   PROVE  view'[t].eip \in Code /\ view'[t].regs \in RegFiles
        OBVIOUS
      <4>1. CASE t = n
        <5>1. entry \in Code /\ ZeroRegs \in RegFiles
          BY CodeAssumption
        <5> QED
          BY <2>10, <4>1, <5>1
      <4>2. CASE t # n
        BY <2>3, <2>6, <2>10, <4>2 DEF SavedInv
      <4> QED
        BY <4>1, <4>2
    <3> QED
      BY <2>1, <3>1, <3>2 DEF SavedInv
  <2>17. ResumeInv'
    BY <2>1, CodeLabels DEF ResumeInv
  <2> QED
    BY <2>11, <2>12, <2>13, <2>14, <2>15, <2>16, <2>17
<1>3. next_pid >= MaxTasks \/ next_pid < MaxTasks
  BY <1>0
<1> QED
  BY <1>1, <1>2, <1>3

-----------------------------------------------------------------------------
(* The switch *)

(* What task_yield(ret) leaves behind when old hands over to new. *)
SwitchedTo(old, new, ret) ==
  /\ old \in Linked /\ new \in Linked /\ new # old
  /\ old \in Pids /\ new \in Pids /\ sp = old
  /\ current_task' = new /\ sp' = new
  /\ state' = Switched(old, new)
  /\ esp' = [esp EXCEPT ![old] = <<old, Len(stack'[old])>>]
  /\ stack'[old] = Framed(stack[old], ret, esp[new], old, "in task_yield",
                          regs.ebx, regs.esi, regs.edi, regs.ebp)
  /\ stack'[new] = Pop(stack[new], 5)
  /\ \A t \in Pids \ {old, new} : stack'[t] = stack[t]
  /\ DOMAIN stack' = Pids
  /\ regs' = Popped(stack[new])
  /\ eip' = At(stack[new], 4)
  /\ view' = [view EXCEPT ![old] =
                [eip |-> ret, regs |-> regs, stack |-> stack[old]]]
  /\ ran' = [t \in Pids |-> IF t = new THEN {} ELSE ran[t] \cup {new}]
  /\ UNCHANGED <<next_pid, next>>

LEMMA SwitchFacts ==
  ASSUME TasksInv, NEW ret \in Code, task_yield(ret), ~Alone
  PROVE  SwitchedTo(current_task, next[current_task], ret)
<1> USE DEF TasksInv
<1> DEFINE old == current_task
           new == next[current_task]
<1>1. /\ old \in Linked /\ new \in Linked /\ new # old
      /\ old \in Pids /\ new \in Pids /\ sp = old /\ old # NULL
  BY DEF Alone, ListInv, OneRunning, Linked
<1> DEFINE called == stack[sp] \o <<ret, esp[new], old, "in task_yield">>
           s == Pushed(called)
           x == Framed(stack[old], ret, esp[new], old, "in task_yield",
                       regs.ebx, regs.esi, regs.edi, regs.ebp)
           mem == [stack EXCEPT ![sp] = s]
           w == SubSeq(mem[At(s, 6)[1]], 1, At(s, 6)[2])
<1>2. /\ state' = Switched(old, new)
      /\ current_task' = new
      /\ context_switch(called)
      /\ view' = [view EXCEPT ![old] =
                    [eip |-> ret, regs |-> regs, stack |-> stack[sp]]]
      /\ ran' = [t \in Pids |-> IF t = new THEN {} ELSE ran[t] \cup {new}]
      /\ UNCHANGED <<next_pid, next>>
  BY Zenon DEF task_yield
<1> HIDE DEF old, new
<1>3. /\ esp' = [esp EXCEPT ![At(s, 5)] = <<sp, Len(s)>>]
      /\ sp' = At(s, 6)[1]
      /\ regs' = Popped(w)
      /\ eip' = At(w, 4)
      /\ stack' = [mem EXCEPT ![At(s, 6)[1]] = Pop(w, 5)]
  BY <1>2, Zenon DEF context_switch
<1>4. s = x
  BY <1>1, Zenon DEF Pushed, Framed
<1>5. IsStack(stack[old]) /\ IsStack(stack[new])
  BY <1>1 DEF SavedInv
<1>6. At(s, 5) = old /\ At(s, 6) = esp[new]
  <2> DEFINE p == stack[old]
             q == esp[new]
             r1 == regs.ebx
             r2 == regs.esi
             r3 == regs.edi
             r4 == regs.ebp
             y == "in task_yield"
  <2>0. x = Framed(p, ret, q, old, y, r1, r2, r3, r4) /\ IsStack(p)
    BY <1>5
  <2> HIDE DEF s, x, p, q, r1, r2, r3, r4, y
  <2>1. At(x, 5) = old /\ At(x, 6) = q
    BY <2>0, FramedProps
  <2> QED
    BY <1>4, <2>1, Zenon DEF q
<1>7. esp[new] = <<new, Len(stack[new])>>
  <2>1. new \in Linked \ {current_task}
    BY <1>1 DEF old
  <2> QED
    BY <2>1, Zenon DEF ContextSaved
<1> HIDE DEF s, x, called
<1>8. At(s, 6)[1] = new /\ At(s, 6)[2] = Len(stack[new])
  <2>1. At(s, 6) = <<new, Len(stack[new])>>
    BY <1>6, <1>7, Zenon
  <2> QED
    BY <2>1
<1>9. DOMAIN mem = Pids /\ mem[old] = s
      /\ \A t \in Pids \ {old} : mem[t] = stack[t]
  BY <1>1 DEF TypeOK
<1>10. w = stack[new]
  <2>1. mem[new] = stack[new]
    BY <1>1, <1>9
  <2>2. w = SubSeq(stack[new], 1, Len(stack[new]))
    BY <1>8, <2>1, Zenon
  <2> QED
    BY <1>5, <2>2, PopNone
<1> HIDE DEF w, mem
<1>11. stack' = [mem EXCEPT ![new] = Pop(stack[new], 5)]
  BY <1>3, <1>8, <1>10, Zenon
<1>12. /\ stack'[new] = Pop(stack[new], 5) /\ stack'[old] = s
       /\ \A t \in Pids \ {old, new} : stack'[t] = stack[t]
       /\ DOMAIN stack' = Pids
  BY <1>1, <1>9, <1>11
<1>13. esp' = [esp EXCEPT ![old] = <<old, Len(stack'[old])>>]
  BY <1>1, <1>3, <1>6, <1>12, Zenon
<1>14. sp' = new /\ regs' = Popped(stack[new]) /\ eip' = At(stack[new], 4)
  BY <1>3, <1>8, <1>10, Zenon
<1>15. stack'[old] = x
  BY <1>4, <1>12, Zenon
<1> QED
  BY <1>1, <1>2, <1>12, <1>13, <1>14, <1>15, Zenon DEF x, SwitchedTo, old, new

LEMMA PushedLen == \A k \in Nat : k + 8 >= 5 /\ k + 8 >= 8
OBVIOUS

LEMMA PopRange == \A k \in Nat : k >= 5 => 5 \in 0 .. k
OBVIOUS

LEMMA SwitchKeepsInv ==
  ASSUME TasksInv, eip \in Code, NEW old \in Pids, NEW new \in Pids, NEW ret \in Code,
         old = current_task, SwitchedTo(old, new, ret)
  PROVE  TasksInv'
<1> USE DEF TasksInv
<1>1. /\ old \in Linked /\ new \in Linked /\ new # old /\ sp = old
      /\ current_task' = new /\ sp' = new /\ state' = Switched(old, new)
      /\ next' = next /\ next_pid' = next_pid
      /\ old # NULL /\ new # NULL
  BY PidsNotNull DEF SwitchedTo
<1>2. Linked' = Linked
  BY <1>1 DEF Linked
<1>3. /\ state'[old] = "READY" /\ state'[new] = "RUNNING"
      /\ \A t \in Pids \ {old, new} : state'[t] = state[t]
      /\ state' \in [Pids -> States \cup {Uninit}]
  BY <1>1 DEF Switched, TypeOK, States
<1>4. /\ esp'[old] = <<old, Len(stack'[old])>>
      /\ \A t \in Pids \ {old} : esp'[t] = esp[t]
      /\ DOMAIN esp' = Pids
  BY DEF SwitchedTo, TypeOK
<1>5. /\ view'[old] = [eip |-> ret, regs |-> regs, stack |-> stack[old]]
      /\ \A t \in Pids \ {old} : view'[t] = view[t]
      /\ DOMAIN view' = Pids
  BY DEF SwitchedTo, TypeOK
<1>6. /\ stack'[new] = Pop(stack[new], 5)
      /\ \A t \in Pids \ {old, new} : stack'[t] = stack[t]
      /\ DOMAIN stack' = Pids
      /\ regs' = Popped(stack[new]) /\ eip' = At(stack[new], 4)
      /\ ran' = [t \in Pids |-> IF t = new THEN {} ELSE ran[t] \cup {new}]
  BY DEF SwitchedTo
<1>7. IsStack(stack[old]) /\ IsStack(stack[new])
  BY DEF SavedInv
<1>8. /\ IsStack(stack'[old]) /\ Len(stack'[old]) = Len(stack[old]) + 8
      /\ At(stack'[old], 0) = regs.ebp /\ At(stack'[old], 1) = regs.edi
      /\ At(stack'[old], 2) = regs.esi /\ At(stack'[old], 3) = regs.ebx
      /\ At(stack'[old], 4) = "in task_yield" /\ At(stack'[old], 7) = ret
      /\ Pop(stack'[old], 8) = stack[old]
  <2> DEFINE p == stack[old]
             z == stack'[old]
             q == esp[new]
             r1 == regs.ebx
             r2 == regs.esi
             r3 == regs.edi
             r4 == regs.ebp
             y == "in task_yield"
  <2>1. z = Framed(p, ret, q, old, y, r1, r2, r3, r4) /\ IsStack(p)
    BY <1>7 DEF SwitchedTo
  <2> HIDE DEF p, z, q, r1, r2, r3, r4, y
  <2>2. /\ IsStack(z) /\ Len(z) = Len(p) + 8
        /\ At(z, 0) = r4 /\ At(z, 1) = r3 /\ At(z, 2) = r2 /\ At(z, 3) = r1
        /\ At(z, 4) = y /\ At(z, 7) = ret /\ Pop(z, 8) = p
    BY <2>1, FramedProps
  <2> QED
    BY <2>2 DEF p, z, r1, r2, r3, r4, y
<1>9. Popped(stack'[old]) = regs
  <2>1. regs \in [ebx : Int, esi : Int, edi : Int, ebp : Int]
    BY CodeAssumption DEF TypeOK
  <2>2. regs = [ebp |-> regs.ebp, edi |-> regs.edi, esi |-> regs.esi, ebx |-> regs.ebx]
    BY <2>1
  <2> QED
    BY <1>8, <2>2, Zenon DEF Popped
(* What the saved frame of new says. *)
<1>10. /\ Len(stack[new]) >= 5
       /\ Popped(stack[new]) = view[new].regs
       /\ \/ At(stack[new], 4) = view[new].eip /\ Pop(stack[new], 5) = view[new].stack
          \/ /\ Len(stack[new]) >= 8
             /\ At(stack[new], 4) = "in task_yield"
             /\ At(stack[new], 7) = view[new].eip
             /\ Pop(stack[new], 8) = view[new].stack
       /\ view[new].eip \in Code /\ view[new].regs \in RegFiles
  <2>1. new \in Linked \ {current_task}
    BY <1>1
  <2>2. view[new].eip \in Code /\ view[new].regs \in RegFiles
    BY <2>1, Zenon DEF SavedInv
  <2> QED
    BY <2>1, <2>2, Zenon DEF ContextSaved
<1>11. TypeOK'
  <2>1. eip' \in Code \cup {"in task_yield", "halted"} /\ regs' \in RegFiles
    BY <1>6, <1>10
  <2>2. ran' \in [Pids -> SUBSET Pids]
    BY <1>6 DEF TypeOK
  <2> QED
    BY <1>1, <1>3, <1>4, <1>5, <1>6, <2>1, <2>2 DEF TypeOK
<1>12. ListInv'
  <2>1. next_pid <= MaxTasks
    BY CodeLabels DEF ListInv
  <2>2. current_task # NULL
    BY <1>1
  <2> QED
    BY <1>1, <1>2, <2>1, <2>2 DEF ListInv
<1>13. OneRunning'
  <2>1. \A t \in Linked : state'[t] = "RUNNING" <=> t = new
    <3> SUFFICES ASSUME NEW t \in Linked
                 PROVE  state'[t] = "RUNNING" <=> t = new
      OBVIOUS
    <3>1. t \in Pids
      BY DEF Linked
    <3>2. CASE t = old \/ t = new
      BY <1>1, <1>3, <3>2
    <3>3. CASE t # old /\ t # new
      BY <1>1, <1>3, <3>1, <3>3 DEF OneRunning
    <3> QED
      BY <3>2, <3>3
  <2> QED
    BY <1>1, <1>2, <2>1 DEF OneRunning
<1>14. OneRing'
  BY <1>1, <1>2 DEF OneRing
<1>15. ContextSaved'
  <2> SUFFICES ASSUME NEW t \in Linked \ {new}
               PROVE  /\ esp'[t] = <<t, Len(stack'[t])>>
                      /\ Len(stack'[t]) >= 5
                      /\ Popped(stack'[t]) = view'[t].regs
                      /\ \/ /\ At(stack'[t], 4) = view'[t].eip
                            /\ Pop(stack'[t], 5) = view'[t].stack
                         \/ /\ Len(stack'[t]) >= 8
                            /\ At(stack'[t], 4) = "in task_yield"
                            /\ At(stack'[t], 7) = view'[t].eip
                            /\ Pop(stack'[t], 8) = view'[t].stack
    BY <1>1, <1>2 DEF ContextSaved
  <2>1. CASE t = old
    <3>1. /\ view'[t].eip = ret /\ view'[t].regs = regs
          /\ view'[t].stack = stack[old]
      BY <1>5, <2>1
    <3>2. Len(stack[old]) \in Nat
      BY <1>7 DEF IsStack
    <3>3. Len(stack'[old]) >= 5 /\ Len(stack'[old]) >= 8
      BY <1>8, <3>2, PushedLen, Zenon
    <3> QED
      BY <1>4, <1>8, <1>9, <2>1, <3>1, <3>3, Zenon
  <2>2. CASE t # old
    <3>1. t \in Linked \ {current_task} /\ t \in Pids \ {old, new}
      BY <2>2 DEF Linked
    <3>2. stack'[t] = stack[t] /\ esp'[t] = esp[t] /\ view'[t] = view[t]
      BY <1>4, <1>5, <1>6, <3>1
    <3> QED
      BY <3>1, <3>2, Zenon DEF ContextSaved
  <2> QED
    BY <2>1, <2>2
<1>16. SavedInv'
  <2>1. 5 \in 0 .. Len(stack[new])
    BY <1>7, <1>10, PopRange, Zenon DEF IsStack
  <2>2. IsStack(stack'[new])
    BY <1>6, <1>7, <2>1, PopProps
  <2>3. \A t \in Pids : IsStack(stack'[t])
    BY <1>6, <1>8, <2>2 DEF SavedInv
  <2>4. ASSUME NEW t \in Linked \ {new}
        PROVE  view'[t].eip \in Code /\ view'[t].regs \in RegFiles
    <3>1. CASE t = old
      <4>1. view'[t].eip = ret /\ view'[t].regs = regs
        BY <1>5, <3>1
      <4> QED
        BY <4>1, Zenon DEF TypeOK
    <3>2. CASE t # old
      <4>1. t \in Linked \ {current_task} /\ t \in Pids \ {old}
        BY <3>2 DEF Linked
      <4> QED
        BY <1>5, <4>1 DEF SavedInv
    <3> QED
      BY <3>1, <3>2
  <2> QED
    BY <1>1, <1>2, <2>3, <2>4 DEF SavedInv
<1>17. ResumeInv'
  <2> SUFFICES ASSUME eip' = "in task_yield"
               PROVE  /\ current_task' # NULL
                      /\ Len(stack'[new]) >= 3
                      /\ At(stack'[new], 2) = view'[new].eip
                      /\ Pop(stack'[new], 3) = view'[new].stack
                      /\ view'[new].regs = regs'
                      /\ view'[new].eip \in Code
    BY <1>1 DEF ResumeInv
  <2>1. /\ Len(stack[new]) >= 8
        /\ At(stack[new], 7) = view[new].eip
        /\ Pop(stack[new], 8) = view[new].stack
    BY <1>6, <1>10, CodeLabels
  <2>2. view'[new] = view[new]
    BY <1>1, <1>5
  <2>3. /\ Pop(stack'[new], 3) = Pop(stack[new], 8)
        /\ At(stack'[new], 2) = At(stack[new], 7)
        /\ Len(stack'[new]) >= 3
    BY <1>6, <1>7, <2>1, PopTwice
  <2> QED
    BY <1>1, <1>6, <1>10, <2>1, <2>2, <2>3, Zenon
<1> QED
  BY <1>11, <1>12, <1>13, <1>14, <1>15, <1>16, <1>17

LEMMA StepYield ==
  ASSUME TasksInv, NEW ret \in Code, task_yield(ret)
  PROVE  TasksInv'
<1>1. CASE Alone
  <2>1. /\ eip' = ret
        /\ UNCHANGED <<structs, stack, sp, regs, view, ran>>
    BY <1>1 DEF task_yield
  <2>2. Linked' = Linked
    BY <2>1 DEF Linked, structs
  <2>3. TypeOK' /\ ListInv' /\ OneRunning' /\ OneRing'
    BY <2>1, <2>2, CodeLabels DEF task_yield, Running, TasksInv, TypeOK, ListInv,
      OneRunning, OneRing, structs
  <2>4. ContextSaved' /\ SavedInv'
    BY <2>1, <2>2 DEF TasksInv, ContextSaved, SavedInv, structs
  <2>5. ResumeInv'
    BY <2>1, CodeLabels DEF ResumeInv
  <2> QED
    BY <2>3, <2>4, <2>5 DEF TasksInv
<1>2. CASE ~Alone
  <2>1. SwitchedTo(current_task, next[current_task], ret)
    BY <1>2, SwitchFacts
  <2>2. current_task \in Pids /\ next[current_task] \in Pids
    BY <2>1 DEF SwitchedTo
  <2>3. eip \in Code
    BY DEF task_yield, Running
  <2> QED
    BY <2>1, <2>2, <2>3, SwitchKeepsInv
<1> QED
  BY <1>1, <1>2

LEMMA StepReturn == TasksInv /\ task_yield_return => TasksInv'
<1> SUFFICES ASSUME TasksInv, task_yield_return
             PROVE  TasksInv'
  OBVIOUS
<1>1. /\ Len(stack[sp]) >= 3
      /\ At(stack[sp], 2) \in Code
      /\ eip # "halted"
  BY DEF TasksInv, task_yield_return, ResumeInv
<1>2. IsStack(stack[sp]) /\ regs \in RegFiles
  BY DEF TasksInv, SavedInv, TypeOK
<1>3. 3 \in 0 .. Len(stack[sp])
  BY <1>1, <1>2 DEF IsStack
<1>4. IsStack(Pop(stack[sp], 3))
  BY <1>2, <1>3, PopProps
<1>5. /\ eip' \in Code \cup {"halted"} /\ regs' \in RegFiles
      /\ stack' = [stack EXCEPT ![sp] = Pop(stack[sp], 3)]
      /\ UNCHANGED <<structs, sp, view, ran>>
  BY <1>1, <1>2 DEF task_yield_return
<1> QED
  BY <1>1, <1>4, <1>5, OwnStep

LEMMA TasksStep == TasksInv /\ [Next]_vars => TasksInv'
<1> SUFFICES ASSUME TasksInv, [Next]_vars
             PROVE  TasksInv'
  OBVIOUS
<1>1. CASE UNCHANGED vars
  <2>1. Linked' = Linked
    BY <1>1 DEF vars, structs, Linked
  <2>2. TypeOK' /\ ListInv' /\ OneRunning' /\ OneRing'
    BY <1>1, <2>1 DEF vars, structs, TasksInv, TypeOK, ListInv, OneRunning, OneRing
  <2>3. ContextSaved' /\ SavedInv'
    BY <1>1, <2>1 DEF vars, structs, TasksInv, ContextSaved, SavedInv
  <2>4. ResumeInv'
    BY <1>1 DEF vars, structs, TasksInv, ResumeInv
  <2> QED
    BY <2>2, <2>3, <2>4 DEF TasksInv
<1>2. CASE Next
  BY <1>2, StepPanic, StepWork, StepInit, StepCreate, StepYield, StepReturn DEF Next
<1> QED
  BY <1>1, <1>2

-----------------------------------------------------------------------------
(* The scheduler's variables keep their types: in particular the registers *)
(* popped by context_switch are registers, and eip is an address of code.  *)
THEOREM TasksTypeOK == Spec => []TypeOK
<1>1. TasksInv => TypeOK
  BY DEF TasksInv
<1> QED
  BY <1>1, TasksInit, TasksStep, PTL DEF Spec

(* current_task, the states of the tasks and the stack the CPU is on agree *)
(* about who runs, for any number of tasks.                                *)
THEOREM TasksOneRunning == Spec => []OneRunning
<1>1. TasksInv => OneRunning
  BY DEF TasksInv
<1> QED
  BY <1>1, TasksInit, TasksStep, PTL DEF Spec

(* The task list is a single ring, whoever creates tasks and when. *)
THEOREM TasksOneRing == Spec => []OneRing
<1>1. TasksInv => OneRing
  BY DEF TasksInv
<1> QED
  BY <1>1, TasksInit, TasksStep, PTL DEF Spec

(* Every task that waits has its context on its stack where esp says. *)
THEOREM TasksContextSaved == Spec => []ContextSaved
<1>1. TasksInv => ContextSaved
  BY DEF TasksInv
<1> QED
  BY <1>1, TasksInit, TasksStep, PTL DEF Spec

(* Whoever runs its own code again finds the registers, the stack and the  *)
(* return address it left, whatever the other tasks did meanwhile.         *)
THEOREM TasksContextRestored == Spec => ContextRestored
<1> DEFINE Back == /\ eip' = view[current_task'].eip
                   /\ regs' = view[current_task'].regs
                   /\ stack'[sp'] = view[current_task'].stack
           Starts == (~Running \/ current_task' # current_task) /\ Running'
                       /\ current_task # NULL
<1>1. ASSUME TasksInv, Next, Starts
      PROVE  Back
  <2>1. CASE task_yield_return
    <3>1. current_task' = current_task /\ sp' = sp /\ regs' = regs
          /\ eip' = At(stack[sp], 2) /\ stack' = [stack EXCEPT ![sp] = Pop(@, 3)]
      BY <2>1 DEF task_yield_return, structs
    <3>2. stack'[sp] = Pop(stack[sp], 3)
      BY <1>1, <3>1 DEF TasksInv, TypeOK
    <3>3. /\ At(stack[sp], 2) = view[current_task].eip
          /\ Pop(stack[sp], 3) = view[current_task].stack
          /\ view[current_task].regs = regs
      BY <1>1, <2>1 DEF TasksInv, ResumeInv, task_yield_return
    <3> QED
      BY <3>1, <3>2, <3>3, Zenon
  <2>2. ASSUME NEW ret \in Code, task_yield(ret)
        PROVE  Back
    <3>1. ~Alone
      BY <1>1, <2>2 DEF task_yield, structs
    <3> DEFINE old == current_task
               new == next[current_task]
    <3>2. SwitchedTo(old, new, ret)
      BY <1>1, <2>2, <3>1, SwitchFacts
    <3> HIDE DEF old, new
    <3>3. /\ current_task' = new /\ sp' = new /\ new \in Linked /\ new # old
          /\ regs' = Popped(stack[new]) /\ eip' = At(stack[new], 4)
          /\ stack'[new] = Pop(stack[new], 5)
      BY <3>2 DEF SwitchedTo
    <3>4. new \in Linked \ {current_task} /\ ContextSaved
      BY <1>1, <3>3 DEF old, TasksInv
    <3>5. /\ Popped(stack[new]) = view[new].regs
          /\ \/ /\ At(stack[new], 4) = view[new].eip
                /\ Pop(stack[new], 5) = view[new].stack
             \/ At(stack[new], 4) = "in task_yield"
      BY <3>4, Zenon DEF ContextSaved
    <3>6. At(stack[new], 4) # "in task_yield"
      BY <1>1, <3>3, CodeLabels DEF Running
    <3> QED
      BY <3>3, <3>5, <3>6, Zenon
  <2>3. ~kernel_panic
    BY <1>1, CodeLabels DEF kernel_panic, Running
  <2>4. ASSUME NEW e \in Code, NEW r \in RegFiles, NEW s \in OwnStacks, work(e, r, s)
        PROVE  FALSE
    BY <1>1, <2>4 DEF work, structs
  <2>5. ASSUME NEW ret \in Code, task_init(ret)
        PROVE  FALSE
    BY <1>1, <2>5 DEF task_init
  <2>6. ASSUME NEW entry \in Entries, NEW ret \in Code, task_create(entry, ret)
        PROVE  FALSE
    BY <1>1, <2>6 DEF task_create
  <2> QED
    BY <1>1, <2>1, <2>2, <2>3, <2>4, <2>5, <2>6 DEF Next
<1>2. TasksInv /\ [Next]_vars => [Starts => Back]_vars
  BY <1>1
<1> QED
  BY <1>2, TasksInit, TasksStep, PTL DEF Spec, ContextRestored
-----------------------------------------------------------------------------
(* What round robin rests on: the tasks that ran since t last did are an   *)
(* arc of the ring that ends at the running task and does not reach t.     *)
ArcInv ==
  /\ current_task = NULL => \A t \in Pids : ran[t] = {}
  /\ \A t \in Linked :
       /\ ran[t] \subseteq Linked
       /\ t \notin ran[t]
       /\ \A x \in ran[t] \ {current_task} : next[x] \in ran[t]

(* An arc that reached the task behind the running one would be closed, so *)
(* it would be the whole ring, its own task included.                      *)
LEMMA ArcStopsShort ==
  ASSUME TasksInv, ArcInv, current_task # NULL, NEW t \in Linked
  PROVE  next[current_task] \notin ran[t]
<1> SUFFICES ASSUME next[current_task] \in ran[t]
             PROVE  FALSE
  OBVIOUS
<1>1. \A x \in ran[t] : next[x] \in ran[t]
  BY DEF ArcInv
<1>2. ran[t] \in SUBSET Linked /\ ran[t] # {} /\ t \notin ran[t]
  BY DEF ArcInv
<1>3. ran[t] = Linked
  BY <1>1, <1>2, Zenon DEF TasksInv, OneRing
<1> QED
  BY <1>2, <1>3

LEMMA ArcInit == Init => ArcInv
<1> SUFFICES ASSUME Init
             PROVE  ArcInv
  OBVIOUS
<1>1. Linked = {}
  BY DEF Init, Linked
<1> QED
  BY <1>1 DEF Init, ArcInv

LEMMA ArcStep == TasksInv /\ ArcInv /\ [Next]_vars => ArcInv'
<1> SUFFICES ASSUME TasksInv, ArcInv, [Next]_vars
             PROVE  ArcInv'
  OBVIOUS
<1>0. next \in [Pids -> Pids \cup {NULL}] /\ ran \in [Pids -> SUBSET Pids]
  BY DEF TasksInv, TypeOK
<1>1. CASE UNCHANGED <<current_task, next, ran>>
  <2>1. Linked' = Linked
    BY <1>1 DEF Linked
  <2> QED
    BY <1>1, <2>1 DEF ArcInv
<1>2. ASSUME NEW ret \in Code, task_init(ret)
      PROVE  ArcInv'
  <2>1. current_task' = 0 /\ \A t \in Pids : ran'[t] = {}
    BY <1>2 DEF task_init, ArcInv
  <2>2. Linked' \subseteq Pids /\ 0 # NULL
    BY PidAssumption DEF Linked
  <2> QED
    BY <2>1, <2>2 DEF ArcInv
<1>3. ASSUME NEW entry \in Entries, NEW ret \in Code, task_create(entry, ret)
      PROVE  ArcInv'
  <2>1. CASE next_pid >= MaxTasks /\ UNCHANGED <<current_task, next, ran>>
    BY <1>1, <2>1
  <2>2. CASE /\ next_pid < MaxTasks
             /\ next' = Insert(current_task, next_pid)
             /\ ran' = [ran EXCEPT ![next_pid] = {}]
             /\ UNCHANGED current_task
    <3> DEFINE c == current_task
               n == next_pid
    <3>1. c # NULL /\ c \in Linked /\ c \in Pids
      BY <1>3 DEF task_create, TasksInv, ListInv, Linked
    <3>2. n \in Pids /\ n \notin Linked /\ NULL \notin Pids
      <4>0. MaxTasks \in Nat /\ next_pid \in 1 .. MaxTasks + 1
        BY PidAssumption, Zenon DEF TasksInv, TypeOK
      <4>1. n \in Nat /\ MaxTasks \in Nat
        BY <4>0
      <4>2. n \in Pids
        BY <2>2, <4>1 DEF Pids
      <4>3. n \notin Linked
        BY <4>1, <4>2 DEF TasksInv, ListInv, Linked
      <4> QED
        BY <4>2, <4>3, PidsNotNull
    <3>3. /\ next'[n] = next[c] /\ next'[c] = n
          /\ \A t \in Pids \ {n, c} : next'[t] = next[t]
      BY <1>0, <2>2, <3>1, <3>2 DEF Insert
    <3> HIDE DEF c, n
    <3>4. next[c] \in Pids
      BY <3>1 DEF TasksInv, ListInv, Linked
    <3>5. Linked' = Linked \cup {n}
      BY <3>1, <3>2, <3>3, <3>4 DEF Linked
    <3>6. ran'[n] = {} /\ \A t \in Linked : ran'[t] = ran[t]
      BY <1>0, <2>2, <3>2 DEF n, Linked
    <3>7. ASSUME NEW t \in Linked
          PROVE  /\ ran'[t] \subseteq Linked'
                 /\ t \notin ran'[t]
                 /\ \A x \in ran'[t] \ {c} : next'[x] \in ran'[t]
      <4>1. /\ ran[t] \subseteq Linked /\ t \notin ran[t]
            /\ \A x \in ran[t] \ {c} : next[x] \in ran[t]
        BY DEF ArcInv, c
      <4>2. \A x \in ran[t] \ {c} : next'[x] = next[x]
        BY <3>2, <3>3, <4>1 DEF Linked
      <4> QED
        BY <3>5, <3>6, <4>1, <4>2
    <3>8. c' = c /\ c' # NULL
      BY <2>2, <3>1 DEF c
    <3> QED
      BY <3>5, <3>6, <3>7, <3>8 DEF ArcInv, c
  <2> QED
    BY <1>3, <2>1, <2>2 DEF task_create
<1>4. ASSUME NEW ret \in Code, task_yield(ret), ~Alone
      PROVE  ArcInv'
  <2> DEFINE old == current_task
             new == next[current_task]
  <2>1. SwitchedTo(old, new, ret)
    BY <1>4, SwitchFacts
  <2>2. new \in Linked /\ new \in Pids /\ old \in Linked /\ NULL \notin Pids
    BY <2>1, PidsNotNull DEF SwitchedTo
  <2>3. current_task' = new /\ next' = next
        /\ ran' = [t \in Pids |-> IF t = new THEN {} ELSE ran[t] \cup {new}]
    BY <2>1 DEF SwitchedTo
  <2>4. Linked' = Linked /\ Linked \subseteq Pids
    BY <2>3 DEF Linked
  <2>5. \A x \in Pids : x = old => next[x] = new
    OBVIOUS
  <2> HIDE DEF new
  <2>6. ASSUME NEW t \in Linked
        PROVE  /\ ran'[t] \subseteq Linked
               /\ t \notin ran'[t]
               /\ \A x \in ran'[t] \ {new} : next[x] \in ran'[t]
    <3>1. /\ ran[t] \subseteq Linked /\ t \notin ran[t]
          /\ \A x \in ran[t] \ {old} : next[x] \in ran[t]
      BY DEF ArcInv
    <3>2. ran'[t] = IF t = new THEN {} ELSE ran[t] \cup {new}
      BY <2>3, <2>4
    <3> QED
      BY <2>2, <2>4, <2>5, <3>1, <3>2
  <2> QED
    BY <2>2, <2>3, <2>4, <2>6 DEF ArcInv
<1>5. ASSUME NEW ret \in Code, task_yield(ret), Alone
      PROVE  ArcInv'
  BY <1>1, <1>5 DEF task_yield, structs
<1> QED
  BY <1>1, <1>2, <1>3, <1>4, <1>5 DEF Next, vars, structs, kernel_panic, work,
    task_yield_return

(* Whoever task_yield switches to has not run since any other task did:    *)
(* nobody gets a second turn while another task waits, for any number of   *)
(* tasks and wherever task_create links new ones in between.               *)
THEOREM TasksRoundRobin == Spec => RoundRobin
<1> DEFINE Fair == \A t \in Linked \ {current_task'} : current_task' \notin ran[t]
           Handover == current_task' # current_task /\ current_task # NULL
<1>1. ASSUME TasksInv, ArcInv, Next, Handover
      PROVE  Fair
  <2>1. ASSUME NEW ret \in Code, task_yield(ret)
        PROVE  current_task' = next[current_task]
    BY <1>1, <2>1 DEF task_yield, structs
  <2>2. current_task' = next[current_task]
    BY <1>1, <2>1 DEF Next, kernel_panic, work, task_init, task_create,
      task_yield_return, structs
  <2> QED
    BY <1>1, <2>2, ArcStopsShort
<1>2. TasksInv /\ ArcInv /\ [Next]_vars => [Handover => Fair]_vars
  <2> SUFFICES ASSUME TasksInv, ArcInv, [Next]_vars, Handover
               PROVE  Fair
    OBVIOUS
  <2>1. CASE UNCHANGED vars
    BY <2>1 DEF vars, structs
  <2>2. CASE Next
    BY <2>2, <1>1
  <2> QED
    BY <2>1, <2>2
<1> QED
  BY <1>2, TasksInit, TasksStep, ArcInit, ArcStep, PTL DEF Spec, RoundRobin
=============================================================================

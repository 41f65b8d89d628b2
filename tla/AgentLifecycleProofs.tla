------------------------- MODULE AgentLifecycleProofs -------------------------
(***************************************************************************)
(* Proofs about AgentLifecycle, for any agents, requests, capacity, crashes*)
(* and failing steps.  What concerns types and the capacity holds however  *)
(* requests overlap; the rest where those for one agent take turns.        *)
(***************************************************************************)
EXTENDS AgentLifecycle, SequenceTheorems, FiniteSetTheorems, TLAPS

-----------------------------------------------------------------------------
(* The scripts of the requests *)

LaunchSteps    == {"adopt", "enforce", "reconcile", "boot", "refresh", "session"}
TeardownSteps  == {"fail", "stopBody", "stopEnforcer", "stopped"}
BeforeLaunch   == {"tally", "admit", "guard", "record"} \cup TeardownSteps
StartOps       == {"start", "resume", "restart"}

\* One of the kinds of steps comes after step k; any step is of such a kind.
Later(s, k, kinds) == \E j \in (k + 1)..Len(s) : s[j][1] \in kinds
Has(s, kinds) == Later(s, 0, kinds)
Tallies(s, a) == \E j \in 1..Len(s) : s[j] = <<"tally", a>>

\* A request steps on its own agent, but for the count of all agents.
Owned(s, a) ==
    /\ \A k \in 1..Len(s) : s[k][1] \notin {"tally", "keep"} => s[k][2] = a
    /\ s # <<>> => s[Len(s)][2] = a

\* What comes right before a step, if it is not the first one left.
Ordered(s) ==
    \A k \in 2..Len(s) :
        /\ s[k][1] = "boot"         => s[k - 1][1] = "enforce"
        /\ s[k][1] = "stopEnforcer" => s[k - 1][1] = "stopBody"
        /\ s[k][1] = "stopped"      => s[k - 1][1] = "stopEnforcer"
        /\ s[k][1] = "clear"        => s[k - 1][1] = "session"
        /\ s[k][1] = "keep"         => s[k - 1][1] \in {"inspect", "tally"}
        /\ s[k][1] = "refresh"      => s[k - 1][1] = "keep"

\* The count comes before the admission, and the admission before a launch,
\* which is the way to a session; what follows that is no more than a clearing.
Committed(s) ==
    \A k \in 1..Len(s) :
        /\ s[k][1] = "tally" => Later(s, k, {"admit"})
        /\ s[k][1] = "admit" => Later(s, k, {"adopt"})
        /\ s[k][1] \in LaunchSteps \cup {"admit"} => ~Later(s, k, BeforeLaunch)
        /\ s[k][1] \in (LaunchSteps \cup {"admit"}) \ {"session"} => Later(s, k, {"session"})
        /\ s[k][1] \in LaunchSteps => ~Later(s, k, {"adopt"})
        /\ s[k][1] = "boot" => ~Later(s, k, {"boot"})
        /\ s[k][1] = "session" => ~Later(s, k, LaunchSteps \cup {"inspect", "keep"})
        /\ s[k][1] = "clear" => k = Len(s)
        /\ s[k][1] \in BeforeLaunch \ {"admit"} /\ Later(s, k, {"session"})
              => Later(s, k, {"admit"})

Script(s, a) == s \in Seq(Steps) /\ Owned(s, a) /\ Ordered(s) /\ Committed(s)

\* A request that only reads has no other steps, and only starts boot.
OfOp(o, s) ==
    /\ o = "show" => ~Has(s, BeforeLaunch \cup LaunchSteps \cup {"clear"})
    /\ Has(s, {"boot"}) => o \in StartOps

ScriptsHold == \A r \in Requests, a \in Agents :
                   Works(r, a) => Script(todo[r], a) /\ OfOp(op[r], todo[r])

\* A start between its admission and its end.
Launching(s) == Has(s, {"session"}) /\ ~Has(s, {"admit"})

\* What is left of a start that failed.
TearingDown(s) ==
    s # <<>> /\ s[Len(s)][1] = "stopped" /\ \A k \in 1..Len(s) : s[k][1] \in TeardownSteps

-----------------------------------------------------------------------------
(* The scripts, step by step *)

LEMMA LaterTail ==
    ASSUME NEW s \in Seq(Steps), s # <<>>, NEW k \in Nat, NEW kinds
    PROVE  Later(Tail(s), k, kinds) <=> Later(s, k + 1, kinds)
<1>1. /\ Len(Tail(s)) = Len(s) - 1 /\ Len(s) \in Nat
      /\ \A i \in 1..Len(Tail(s)) : Tail(s)[i] = s[i + 1]
  BY HeadTailProperties, LenProperties
<1>2. ASSUME NEW j \in (k + 1)..Len(Tail(s)), Tail(s)[j][1] \in kinds
      PROVE  Later(s, k + 1, kinds)
  <2>1. j + 1 \in (k + 1 + 1)..Len(s) /\ s[j + 1][1] \in kinds
    BY <1>1, <1>2
  <2>2. QED
    BY <2>1 DEF Later
<1>3. ASSUME NEW j \in (k + 1 + 1)..Len(s), s[j][1] \in kinds
      PROVE  Later(Tail(s), k, kinds)
  <2>1. j - 1 \in (k + 1)..Len(Tail(s)) /\ Tail(s)[j - 1][1] \in kinds
    BY <1>1, <1>3
  <2>2. QED
    BY <2>1 DEF Later
<1>4. QED
  BY <1>2, <1>3 DEF Later

\* A kind of step is left when it comes first or is left after that.
LEMMA HasTail ==
    ASSUME NEW s \in Seq(Steps), s # <<>>, NEW kinds
    PROVE  Has(s, kinds) <=> Head(s)[1] \in kinds \/ Has(Tail(s), kinds)
<1>1. Len(s) \in Nat /\ Len(s) > 0 /\ Head(s) = s[1]
  BY LenProperties, EmptySeq
<1>2. Has(Tail(s), kinds) <=> Later(s, 1, kinds)
  BY LaterTail DEF Has
<1>3. Has(s, kinds) <=> s[1][1] \in kinds \/ Later(s, 1, kinds)
  BY <1>1 DEF Has, Later
<1>4. QED
  BY <1>1, <1>2, <1>3

LEMMA ScriptTail ==
    ASSUME NEW s, NEW a, Script(s, a), s # <<>>
    PROVE  Script(Tail(s), a)
<1>1. s \in Seq(Steps)
  BY DEF Script
<1>2. /\ Tail(s) \in Seq(Steps) /\ Len(Tail(s)) = Len(s) - 1 /\ Len(s) \in Nat
      /\ \A i \in 1..Len(Tail(s)) : Tail(s)[i] = s[i + 1]
      /\ Tail(s) # <<>> => Len(Tail(s)) > 0
  BY <1>1, HeadTailProperties, LenProperties, EmptySeq
<1>3. Owned(Tail(s), a)
  BY <1>2 DEF Script, Owned
<1>4. Ordered(Tail(s))
  <2>1. ASSUME NEW k \in 2..Len(Tail(s))
        PROVE  k + 1 \in 2..Len(s) /\ Tail(s)[k] = s[k + 1] /\ Tail(s)[k - 1] = s[(k + 1) - 1]
    BY <1>2
  <2>2. Ordered(s)
    BY DEF Script
  <2>3. QED
    BY <2>1, <2>2 DEF Ordered
<1>5. Committed(Tail(s))
  <2>1. ASSUME NEW k \in 1..Len(Tail(s))
        PROVE  /\ k + 1 \in 1..Len(s) /\ Tail(s)[k] = s[k + 1]
               /\ k = Len(Tail(s)) <=> k + 1 = Len(s)
               /\ \A kinds : Later(Tail(s), k, kinds) <=> Later(s, k + 1, kinds)
    BY <1>1, <1>2, LaterTail
  <2>2. Committed(s)
    BY DEF Script
  <2>3. QED
    BY <2>1, <2>2 DEF Committed
<1>6. QED
  BY <1>2, <1>3, <1>4, <1>5 DEF Script

LEMMA OfOpTail ==
    ASSUME NEW s \in Seq(Steps), s # <<>>, NEW o, OfOp(o, s)
    PROVE  OfOp(o, Tail(s))
BY HasTail DEF OfOp

\* Whose script it is, and what the first step says of those after it.
LEMMA HeadOfScript ==
    ASSUME NEW s, NEW a, Script(s, a), s # <<>>
    PROVE  /\ Head(s) \in Steps /\ Tail(s) \in Seq(Steps)
           /\ Last(s)[2] = a /\ (Tail(s) # <<>> => Last(Tail(s)) = Last(s))
           /\ Head(s)[1] \notin {"tally", "keep"} => Head(s)[2] = a
           /\ Head(s)[1] = "tally" => Has(Tail(s), {"admit"})
           /\ Head(s)[1] = "admit" => Has(Tail(s), {"adopt"})
           /\ Head(s)[1] \in LaunchSteps \cup {"admit"} => ~Has(Tail(s), BeforeLaunch)
           /\ Head(s)[1] \in (LaunchSteps \cup {"admit"}) \ {"session"}
                 => Has(Tail(s), {"session"})
           /\ Head(s)[1] \in LaunchSteps => ~Has(Tail(s), {"adopt"})
           /\ Head(s)[1] = "boot" => ~Has(Tail(s), {"boot"})
           /\ Head(s)[1] = "session" => ~Has(Tail(s), LaunchSteps \cup {"inspect", "keep"})
           /\ Head(s)[1] = "clear" => Tail(s) = <<>>
           /\ Head(s)[1] \in BeforeLaunch \ {"admit"} /\ Has(Tail(s), {"session"})
                 => Has(Tail(s), {"admit"})
<1>1. /\ s \in Seq(Steps) /\ Len(s) \in Nat /\ Len(s) > 0 /\ Head(s) = s[1]
      /\ 1 \in 1..Len(s) /\ Last(s) = s[Len(s)]
  BY LenProperties, EmptySeq DEF Script, Last
<1>2. /\ Tail(s) \in Seq(Steps) /\ Len(Tail(s)) = Len(s) - 1 /\ Head(s) \in Steps
      /\ \A i \in 1..Len(Tail(s)) : Tail(s)[i] = s[i + 1]
  BY <1>1, HeadTailProperties
<1>3. \A kinds : Has(Tail(s), kinds) <=> Later(s, 1, kinds)
  BY <1>1, LaterTail DEF Has
<1>4. Tail(s) = <<>> <=> Len(s) = 1
  BY <1>1, <1>2, EmptySeq, SMTT(30)
<1>5. Tail(s) # <<>> => Last(Tail(s)) = Last(s)
  <2>1. Last(Tail(s)) = Tail(s)[Len(s) - 1]
    BY <1>2 DEF Last
  <2>2. QED
    BY <2>1, <1>1, <1>2, <1>4
<1>6. Last(s)[2] = a /\ (Head(s)[1] \notin {"tally", "keep"} => Head(s)[2] = a)
  BY <1>1 DEF Script, Owned
<1>7. Committed(s)
  BY DEF Script
<1>8. QED
  BY <1>1, <1>2, <1>3, <1>4, <1>5, <1>6, <1>7 DEF Committed

\* What the next step says of the one before it.
LEMMA NextOfScript ==
    ASSUME NEW s, NEW a, Script(s, a), s # <<>>, Tail(s) # <<>>
    PROVE  LET this == Head(s)[1]
               next == Head(Tail(s))[1]
           IN  /\ next = "boot"         => this = "enforce"
               /\ next = "stopEnforcer" => this = "stopBody"
               /\ next = "stopped"      => this = "stopEnforcer"
               /\ next = "clear"        => this = "session"
               /\ next = "keep"         => this \in {"inspect", "tally"}
               /\ next = "refresh"      => this = "keep"
<1>1. s \in Seq(Steps) /\ Len(s) \in Nat /\ Head(s) = s[1]
  BY LenProperties, EmptySeq DEF Script
<1>2. /\ Tail(s) \in Seq(Steps) /\ Len(Tail(s)) = Len(s) - 1
      /\ \A i \in 1..Len(Tail(s)) : Tail(s)[i] = s[i + 1]
  BY <1>1, HeadTailProperties
<1>3. Len(Tail(s)) > 0
  BY <1>1, <1>2, EmptySeq
<1>4. 2 \in 2..Len(s) /\ Head(Tail(s)) = s[2]
  BY <1>1, <1>2, <1>3
<1>5. Ordered(s)
  BY DEF Script
<1>6. QED
  BY <1>1, <1>4, <1>5 DEF Ordered

\* What is being launched comes to its session next, or goes on being launched.
LEMMA LaunchingTail ==
    ASSUME NEW s, NEW a, Script(s, a), s # <<>>
    PROVE  /\ Head(s)[1] \in LaunchSteps => Launching(s) /\ ~Has(s, BeforeLaunch)
           /\ Head(s)[1] = "admit" => Launching(Tail(s)) /\ ~Has(Tail(s), BeforeLaunch)
           /\ Launching(s) => \/ Head(s)[1] = "session" /\ ~Launching(Tail(s))
                              \/ /\ Head(s)[1] \in LaunchSteps \cup {"inspect", "keep"}
                                 /\ Launching(Tail(s))
           /\ Launching(Tail(s)) => Launching(s) \/ Head(s)[1] = "admit"
<1>1. s \in Seq(Steps) /\ Head(s) \in Steps
  BY HeadOfScript DEF Script
<1>2. \A kinds : Has(s, kinds) <=> Head(s)[1] \in kinds \/ Has(Tail(s), kinds)
  BY <1>1, HasTail
<1>3. Head(s)[1] \in LaunchSteps \cup BeforeLaunch \cup {"inspect", "keep", "clear"}
  BY <1>1 DEF Steps, LaunchSteps, BeforeLaunch, TeardownSteps
<1>4. \A t : ~Has(t, BeforeLaunch) => ~Has(t, {"admit"})
  BY DEF Has, Later, BeforeLaunch
<1>5. \A t : ~Has(t, LaunchSteps \cup {"inspect", "keep"}) => ~Has(t, {"session"})
  BY DEF Has, Later, LaunchSteps
<1>6. ~Has(<<>>, {"session"})
  BY DEF Has, Later
<1>7. QED
  BY <1>2, <1>3, <1>4, <1>5, <1>6, HeadOfScript DEF Launching, LaunchSteps, BeforeLaunch, TeardownSteps

-----------------------------------------------------------------------------
(* The programs are scripts *)

LEMMA LaterJoin ==
    ASSUME NEW p \in Seq(Steps), NEW s \in Seq(Steps), NEW k \in Nat, NEW kinds
    PROVE  /\ k >= Len(p) => (Later(p \o s, k, kinds) <=> Later(s, k - Len(p), kinds))
           /\ k <= Len(p) => (Later(p \o s, k, kinds) <=> Later(p, k, kinds) \/ Has(s, kinds))
<1> DEFINE c == p \o s
<1>1. /\ Len(p) \in Nat /\ Len(s) \in Nat /\ Len(c) = Len(p) + Len(s)
      /\ \A i \in 1..Len(c) : c[i] = IF i <= Len(p) THEN p[i] ELSE s[i - Len(p)]
  BY LenProperties, ConcatProperties
<1> HIDE DEF c
<1>2. ASSUME NEW j \in 1..Len(c)
      PROVE  \/ j \in 1..Len(p) /\ c[j] = p[j]
             \/ j - Len(p) \in 1..Len(s) /\ c[j] = s[j - Len(p)]
  BY <1>1
<1>3. ASSUME NEW j \in 1..Len(p) PROVE j \in 1..Len(c) /\ c[j] = p[j]
  BY <1>1
<1>4. ASSUME NEW j \in 1..Len(s)
      PROVE  j + Len(p) \in 1..Len(c) /\ c[j + Len(p)] = s[j]
  BY <1>1
<1>5. ASSUME Later(c, k, kinds)
      PROVE  /\ k >= Len(p) => Later(s, k - Len(p), kinds)
             /\ Later(p, k, kinds) \/ Has(s, kinds)
  <2>1. PICK j \in (k + 1)..Len(c) : c[j][1] \in kinds
    BY <1>5 DEF Later
  <2>2. j \in 1..Len(c)
    BY <1>1, <2>1
  <2>3. CASE j <= Len(p)
    <3>1. j \in (k + 1)..Len(p) /\ p[j][1] \in kinds /\ ~(k >= Len(p))
      BY <1>1, <1>2, <2>1, <2>2, <2>3
    <3>2. QED
      BY <3>1 DEF Later
  <2>4. CASE ~(j <= Len(p))
    <3>1. /\ j - Len(p) \in 1..Len(s) /\ s[j - Len(p)][1] \in kinds
          /\ k >= Len(p) => j - Len(p) \in (k - Len(p) + 1)..Len(s)
      BY <1>1, <1>2, <2>1, <2>2, <2>4
    <3>2. j - Len(p) \in (0 + 1)..Len(s)
      BY <3>1
    <3>3. QED
      BY <3>1, <3>2 DEF Later, Has
  <2>5. QED
    BY <2>3, <2>4
<1>6. ASSUME k >= Len(p), Later(s, k - Len(p), kinds) PROVE Later(c, k, kinds)
  <2>1. PICK j \in (k - Len(p) + 1)..Len(s) : s[j][1] \in kinds
    BY <1>6 DEF Later
  <2>2. j \in 1..Len(s) /\ j + Len(p) \in (k + 1)..Len(c)
    BY <1>1, <1>6, <2>1
  <2>3. QED
    BY <1>4, <2>1, <2>2 DEF Later
<1>7. ASSUME Later(p, k, kinds) PROVE Later(c, k, kinds)
  <2>1. PICK j \in (k + 1)..Len(p) : p[j][1] \in kinds
    BY <1>7 DEF Later
  <2>2. j \in 1..Len(p) /\ j \in (k + 1)..Len(c)
    BY <1>1, <2>1
  <2>3. QED
    BY <1>3, <2>1, <2>2 DEF Later
<1>8. ASSUME k <= Len(p), Has(s, kinds) PROVE Later(c, k, kinds)
  <2>1. PICK j \in 1..Len(s) : s[j][1] \in kinds
    BY <1>8 DEF Later, Has
  <2>2. j + Len(p) \in (k + 1)..Len(c)
    BY <1>1, <1>8, <2>1
  <2>3. QED
    BY <1>4, <2>1, <2>2 DEF Later
<1>9. QED
  BY <1>5, <1>6, <1>7, <1>8 DEF c

\* What may come before a launch: a Get, a Stop, the count of the agents.
Prologue(p, a) ==
    /\ p \in Seq(Steps)
    /\ \A k \in 1..Len(p) :
          /\ p[k][1] \in {"tally", "inspect", "keep", "guard", "stopBody", "stopEnforcer",
                          "stopped"}
          /\ p[k][1] \notin {"tally", "keep"} => p[k][2] = a
    /\ Ordered(p)

Opening(s) ==
    s # <<>> /\ s[1][1] \notin {"boot", "stopEnforcer", "stopped", "clear", "keep", "refresh"}

LEMMA ScriptJoin ==
    ASSUME NEW p, NEW s, NEW a, Prologue(p, a), Script(s, a), Opening(s), Has(s, {"admit"})
    PROVE  Script(p \o s, a) /\ Has(p \o s, {"admit"})
<1> DEFINE c == p \o s
<1>1. p \in Seq(Steps) /\ s \in Seq(Steps)
  BY DEF Prologue, Script
<1>2. /\ Len(p) \in Nat /\ Len(s) \in Nat /\ Len(c) = Len(p) + Len(s) /\ c \in Seq(Steps)
      /\ Len(s) > 0
      /\ \A i \in 1..Len(c) : c[i] = IF i <= Len(p) THEN p[i] ELSE s[i - Len(p)]
  BY <1>1, LenProperties, ConcatProperties, EmptySeq DEF Opening
<1>3. ASSUME NEW k \in Nat, NEW kinds
      PROVE  /\ k >= Len(p) => (Later(c, k, kinds) <=> Later(s, k - Len(p), kinds))
             /\ k <= Len(p) => (Later(c, k, kinds) <=> Later(p, k, kinds) \/ Has(s, kinds))
  BY <1>1, LaterJoin
<1> HIDE DEF c
<1>4. ASSUME NEW k \in 1..Len(c)
      PROVE  \/ k \in 1..Len(p) /\ c[k] = p[k]
             \/ k - Len(p) \in 1..Len(s) /\ k >= Len(p) /\ c[k] = s[k - Len(p)]
  BY <1>2
<1>5. Owned(c, a)
  <2>1. c[Len(c)] = s[Len(s)] /\ s # <<>>
    BY <1>2 DEF Opening
  <2>2. Owned(s, a)
    BY DEF Script
  <2>3. QED
    BY <1>4, <2>1, <2>2 DEF Owned, Prologue
<1>6. Ordered(c)
  <2>1. ASSUME NEW k \in 2..Len(c)
        PROVE  \/ k \in 2..Len(p) /\ c[k] = p[k] /\ c[k - 1] = p[k - 1]
               \/ k - Len(p) = 1 /\ c[k] = s[1]
               \/ /\ k - Len(p) \in 2..Len(s)
                  /\ c[k] = s[k - Len(p)] /\ c[k - 1] = s[(k - Len(p)) - 1]
    <3>1. k \in 1..Len(c) /\ k - 1 \in 1..Len(c)
      BY <1>2
    <3>2. CASE k <= Len(p)
      BY <1>2, <3>1, <3>2
    <3>3. CASE k = Len(p) + 1
      BY <1>2, <3>1, <3>3
    <3>4. CASE k > Len(p) + 1
      <4>1. k - 1 > Len(p) /\ (k - 1) - Len(p) = (k - Len(p)) - 1
        BY <1>2, <3>4
      <4>2. QED
        BY <1>2, <3>1, <3>4, <4>1
    <3>5. QED
      BY <1>2, <3>2, <3>3, <3>4
  <2>2. Ordered(p) /\ Ordered(s)
    BY DEF Script, Prologue
  <2>3. s[1][1] \notin {"boot", "stopEnforcer", "stopped", "clear", "keep", "refresh"}
    BY DEF Opening
  <2>4. ASSUME NEW k \in 2..Len(c)
        PROVE  /\ c[k][1] = "boot"         => c[k - 1][1] = "enforce"
               /\ c[k][1] = "stopEnforcer" => c[k - 1][1] = "stopBody"
               /\ c[k][1] = "stopped"      => c[k - 1][1] = "stopEnforcer"
               /\ c[k][1] = "clear"        => c[k - 1][1] = "session"
               /\ c[k][1] = "keep"         => c[k - 1][1] \in {"inspect", "tally"}
               /\ c[k][1] = "refresh"      => c[k - 1][1] = "keep"
    BY <2>1, <2>2, <2>3, SMTT(30) DEF Ordered
  <2>5. QED
    BY <2>4 DEF Ordered
<1>7. Committed(c)
  <2>1. ASSUME NEW k \in 1..Len(c) PROVE k \in Nat
    BY <1>2
  <2>2. ASSUME NEW k \in 1..Len(c), k \in 1..Len(p), c[k] = p[k]
        PROVE  /\ Later(c, k, {"admit"})
               /\ c[k][1] \notin LaunchSteps \cup {"admit", "boot", "session", "clear"}
    <3>1. Later(c, k, {"admit"})
      BY <1>2, <1>3, <2>1, <2>2
    <3>2. QED
      BY <2>2, <3>1 DEF Prologue, LaunchSteps
  <2>3. ASSUME NEW k \in 1..Len(c), k >= Len(p)
        PROVE  /\ \A kinds : Later(c, k, kinds) <=> Later(s, k - Len(p), kinds)
               /\ k - Len(p) = Len(s) => k = Len(c)
    BY <1>2, <1>3, <2>1, <2>3
  <2>4. Committed(s)
    BY DEF Script
  <2>5. QED
    BY <1>4, <2>2, <2>3, <2>4 DEF Committed
<1>8. Has(c, {"admit"})
  BY <1>2, <1>3 DEF Has
<1>9. QED
  BY <1>2, <1>5, <1>6, <1>7, <1>8 DEF c, Script


\* The parts of a launch, and all of it.
Launch(a) ==
    For(a, <<"admit", "adopt", "enforce">>) \o (Refresh(a) \o
        (For(a, <<"reconcile", "enforce", "boot">>) \o (Refresh(a) \o For(a, <<"session">>))))

ClearingLaunch(a) == Launch(a) \o For(a, <<"clear">>)

LaunchKinds == <<"admit", "adopt", "enforce", "inspect", "keep", "refresh", "reconcile",
                 "enforce", "boot", "inspect", "keep", "refresh", "session", "clear">>

LEMMA StepKinds ==
    ASSUME NEW a \in Agents
    PROVE  \A kind \in {"tally", "inspect", "keep", "refresh", "admit", "guard", "adopt",
                        "enforce", "fail", "reconcile", "boot", "session", "stopBody",
                        "stopEnforcer", "stopped", "record", "clear"} : <<kind, a>> \in Steps
BY DEF Steps

LEMMA OneStep ==
    ASSUME NEW a \in Agents, NEW x,
           <<x, a>> \in Steps
    PROVE  /\ For(a, <<x>>) \in Seq(Steps) /\ Len(For(a, <<x>>)) = 1
           /\ For(a, <<x>>)[1] = <<x, a>>
<1> DEFINE w == <<x>>
<1>1. Len(w) = 1 /\ w[1] = x
  OBVIOUS
<1>2. \A k \in 1..1 : <<w[k], a>> \in Steps
  BY <1>1
<1> HIDE DEF w
<1>3. /\ For(a, w) \in Seq(Steps) /\ Len(For(a, w)) = 1
      /\ \A k \in 1..1 : For(a, w)[k] = <<w[k], a>>
  <2>1. For(a, w) = [k \in 1..1 |-> <<w[k], a>>]
    BY <1>1 DEF For
  <2>2. 1 \in Nat
    OBVIOUS
  <2>3. QED
    BY <1>2, <2>1, <2>2, IsASeq
<1>4. For(a, w)[1] = <<x, a>>
  BY <1>1, <1>3
<1>5. QED
  BY <1>3, <1>4 DEF w

LEMMA TwoSteps ==
    ASSUME NEW a \in Agents, NEW x, NEW y,
           <<x, a>> \in Steps, <<y, a>> \in Steps
    PROVE  /\ For(a, <<x, y>>) \in Seq(Steps) /\ Len(For(a, <<x, y>>)) = 2
           /\ For(a, <<x, y>>)[1] = <<x, a>>
           /\ For(a, <<x, y>>)[2] = <<y, a>>
<1> DEFINE w == <<x, y>>
<1>1. Len(w) = 2 /\ w[1] = x /\ w[2] = y
  OBVIOUS
<1>2. \A k \in 1..2 : <<w[k], a>> \in Steps
  BY <1>1
<1> HIDE DEF w
<1>3. /\ For(a, w) \in Seq(Steps) /\ Len(For(a, w)) = 2
      /\ \A k \in 1..2 : For(a, w)[k] = <<w[k], a>>
  <2>1. For(a, w) = [k \in 1..2 |-> <<w[k], a>>]
    BY <1>1 DEF For
  <2>2. 2 \in Nat
    OBVIOUS
  <2>3. QED
    BY <1>2, <2>1, <2>2, IsASeq
<1>4. For(a, w)[1] = <<x, a>> /\ For(a, w)[2] = <<y, a>>
  BY <1>1, <1>3
<1>5. QED
  BY <1>3, <1>4 DEF w

LEMMA ThreeSteps ==
    ASSUME NEW a \in Agents, NEW x, NEW y, NEW z,
           <<x, a>> \in Steps, <<y, a>> \in Steps, <<z, a>> \in Steps
    PROVE  /\ For(a, <<x, y, z>>) \in Seq(Steps) /\ Len(For(a, <<x, y, z>>)) = 3
           /\ For(a, <<x, y, z>>)[1] = <<x, a>>
           /\ For(a, <<x, y, z>>)[2] = <<y, a>>
           /\ For(a, <<x, y, z>>)[3] = <<z, a>>
<1> DEFINE w == <<x, y, z>>
<1>1. Len(w) = 3 /\ w[1] = x /\ w[2] = y /\ w[3] = z
  OBVIOUS
<1>2. \A k \in 1..3 : <<w[k], a>> \in Steps
  BY <1>1
<1> HIDE DEF w
<1>3. /\ For(a, w) \in Seq(Steps) /\ Len(For(a, w)) = 3
      /\ \A k \in 1..3 : For(a, w)[k] = <<w[k], a>>
  <2>1. For(a, w) = [k \in 1..3 |-> <<w[k], a>>]
    BY <1>1 DEF For
  <2>2. 3 \in Nat
    OBVIOUS
  <2>3. QED
    BY <1>2, <2>1, <2>2, IsASeq
<1>4. For(a, w)[1] = <<x, a>> /\ For(a, w)[2] = <<y, a>> /\ For(a, w)[3] = <<z, a>>
  BY <1>1, <1>3
<1>5. QED
  BY <1>3, <1>4 DEF w

LEMMA LaunchIs ==
    ASSUME NEW a \in Agents
    PROVE  /\ Launch(a) \in Seq(Steps) /\ Len(Launch(a)) = 13
           /\ ClearingLaunch(a) \in Seq(Steps) /\ Len(ClearingLaunch(a)) = 14
           /\ \A k \in 1..13 : Launch(a)[k] = <<LaunchKinds[k], a>>
           /\ \A k \in 1..14 : ClearingLaunch(a)[k] = <<LaunchKinds[k], a>>
<1> DEFINE A == For(a, <<"admit", "adopt", "enforce">>)
           B == For(a, <<"reconcile", "enforce", "boot">>)
           R == Refresh(a)
           S == For(a, <<"session">>)
           C == For(a, <<"clear">>)
<1>1. /\ A \in Seq(Steps) /\ Len(A) = 3
      /\ A[1] = <<"admit", a>> /\ A[2] = <<"adopt", a>> /\ A[3] = <<"enforce", a>>
  <2>1. <<"admit", a>> \in Steps /\ <<"adopt", a>> \in Steps /\ <<"enforce", a>> \in Steps
    BY StepKinds
  <2>2. QED
    BY <2>1, ThreeSteps, SMTT(30)
<1>2. /\ B \in Seq(Steps) /\ Len(B) = 3
      /\ B[1] = <<"reconcile", a>> /\ B[2] = <<"enforce", a>> /\ B[3] = <<"boot", a>>
  <2>1. <<"reconcile", a>> \in Steps /\ <<"enforce", a>> \in Steps /\ <<"boot", a>> \in Steps
    BY StepKinds
  <2>2. QED
    BY <2>1, ThreeSteps, SMTT(30)
<1>3. /\ R \in Seq(Steps) /\ Len(R) = 3
      /\ R[1] = <<"inspect", a>> /\ R[2] = <<"keep", a>> /\ R[3] = <<"refresh", a>>
  <2>1. <<"inspect", a>> \in Steps /\ <<"keep", a>> \in Steps /\ <<"refresh", a>> \in Steps
    BY StepKinds
  <2>2. QED
    BY <2>1, ThreeSteps, SMTT(30) DEF Refresh
<1>4. S \in Seq(Steps) /\ Len(S) = 1 /\ S[1] = <<"session", a>>
  <2>1. <<"session", a>> \in Steps
    BY StepKinds
  <2>2. QED
    BY <2>1, OneStep
<1>5. C \in Seq(Steps) /\ Len(C) = 1 /\ C[1] = <<"clear", a>>
  <2>1. <<"clear", a>> \in Steps
    BY StepKinds
  <2>2. QED
    BY <2>1, OneStep
<1> DEFINE RS == R \o S
           BRS == B \o RS
           RBRS == R \o BRS
           L == A \o RBRS
           LC == L \o C
<1> HIDE DEF A, B, R, S, C, RS, BRS, RBRS, L, LC
<1>6. /\ RS \in Seq(Steps) /\ Len(RS) = 4
      /\ \A k \in 1..4 : RS[k] = IF k <= 3 THEN R[k] ELSE S[k - 3]
  <2>1. R \in Seq(Steps) /\ S \in Seq(Steps)
    BY <1>3, <1>4
  <2>2. /\ RS \in Seq(Steps) /\ Len(RS) = Len(R) + Len(S)
        /\ \A k \in 1..Len(R) + Len(S) :
              RS[k] = IF k <= Len(R) THEN R[k] ELSE S[k - Len(R)]
    BY <2>1, ConcatProperties DEF RS
  <2>3. QED
    BY <1>3, <1>4, <2>2
<1>7. /\ BRS \in Seq(Steps) /\ Len(BRS) = 7
      /\ \A k \in 1..7 : BRS[k] = IF k <= 3 THEN B[k] ELSE RS[k - 3]
  <2>1. B \in Seq(Steps) /\ RS \in Seq(Steps)
    BY <1>2, <1>6
  <2>2. /\ BRS \in Seq(Steps) /\ Len(BRS) = Len(B) + Len(RS)
        /\ \A k \in 1..Len(B) + Len(RS) :
              BRS[k] = IF k <= Len(B) THEN B[k] ELSE RS[k - Len(B)]
    BY <2>1, ConcatProperties DEF BRS
  <2>3. QED
    BY <1>2, <1>6, <2>2
<1>8. /\ RBRS \in Seq(Steps) /\ Len(RBRS) = 10
      /\ \A k \in 1..10 : RBRS[k] = IF k <= 3 THEN R[k] ELSE BRS[k - 3]
  <2>1. R \in Seq(Steps) /\ BRS \in Seq(Steps)
    BY <1>3, <1>7
  <2>2. /\ RBRS \in Seq(Steps) /\ Len(RBRS) = Len(R) + Len(BRS)
        /\ \A k \in 1..Len(R) + Len(BRS) :
              RBRS[k] = IF k <= Len(R) THEN R[k] ELSE BRS[k - Len(R)]
    BY <2>1, ConcatProperties DEF RBRS
  <2>3. QED
    BY <1>3, <1>7, <2>2
<1>9. /\ L \in Seq(Steps) /\ Len(L) = 13
      /\ \A k \in 1..13 : L[k] = IF k <= 3 THEN A[k] ELSE RBRS[k - 3]
  <2>1. A \in Seq(Steps) /\ RBRS \in Seq(Steps)
    BY <1>1, <1>8
  <2>2. /\ L \in Seq(Steps) /\ Len(L) = Len(A) + Len(RBRS)
        /\ \A k \in 1..Len(A) + Len(RBRS) :
              L[k] = IF k <= Len(A) THEN A[k] ELSE RBRS[k - Len(A)]
    BY <2>1, ConcatProperties DEF L
  <2>3. QED
    BY <1>1, <1>8, <2>2
<1>10. /\ LC \in Seq(Steps) /\ Len(LC) = 14
       /\ \A k \in 1..14 : LC[k] = IF k <= 13 THEN L[k] ELSE C[k - 13]
  <2>1. L \in Seq(Steps) /\ C \in Seq(Steps)
    BY <1>5, <1>9
  <2>2. /\ LC \in Seq(Steps) /\ Len(LC) = Len(L) + Len(C)
        /\ \A k \in 1..Len(L) + Len(C) :
              LC[k] = IF k <= Len(L) THEN L[k] ELSE C[k - Len(L)]
    BY <2>1, ConcatProperties DEF LC
  <2>3. QED
    BY <1>5, <1>9, <2>2
<1>11. /\ L[1] = <<"admit", a>> /\ L[2] = <<"adopt", a>>
       /\ L[3] = <<"enforce", a>> /\ L[4] = <<"inspect", a>>
       /\ L[5] = <<"keep", a>> /\ L[6] = <<"refresh", a>>
       /\ L[7] = <<"reconcile", a>> /\ L[8] = <<"enforce", a>>
       /\ L[9] = <<"boot", a>> /\ L[10] = <<"inspect", a>>
       /\ L[11] = <<"keep", a>> /\ L[12] = <<"refresh", a>>
       /\ L[13] = <<"session", a>>
  <2>1. RS[1] = R[1] /\ RS[2] = R[2] /\ RS[3] = R[3] /\ RS[4] = S[1]
    BY <1>6
  <2>2. /\ BRS[1] = B[1] /\ BRS[2] = B[2] /\ BRS[3] = B[3]
        /\ BRS[4] = RS[1] /\ BRS[5] = RS[2] /\ BRS[6] = RS[3] /\ BRS[7] = RS[4]
    BY <1>7
  <2>3. /\ RBRS[1] = R[1] /\ RBRS[2] = R[2] /\ RBRS[3] = R[3]
        /\ RBRS[4] = BRS[1] /\ RBRS[5] = BRS[2] /\ RBRS[6] = BRS[3] /\ RBRS[7] = BRS[4]
        /\ RBRS[8] = BRS[5] /\ RBRS[9] = BRS[6] /\ RBRS[10] = BRS[7]
    BY <1>8
  <2>4. /\ L[1] = A[1] /\ L[2] = A[2] /\ L[3] = A[3]
        /\ L[4] = RBRS[1] /\ L[5] = RBRS[2] /\ L[6] = RBRS[3]
        /\ L[7] = RBRS[4] /\ L[8] = RBRS[5] /\ L[9] = RBRS[6]
        /\ L[10] = RBRS[7] /\ L[11] = RBRS[8]
        /\ L[12] = RBRS[9] /\ L[13] = RBRS[10]
    BY <1>9
  <2>5. QED
    BY <1>1, <1>2, <1>3, <1>4, <2>1, <2>2, <2>3, <2>4
<1>12. \A k \in 1..13 : L[k] = <<LaunchKinds[k], a>>
  BY <1>11 DEF LaunchKinds
<1>13. LC[14] = <<LaunchKinds[14], a>>
  BY <1>5, <1>10 DEF LaunchKinds
<1>14. QED
  <2>1. L = Launch(a) /\ LC = ClearingLaunch(a)
    BY DEF LC, L, RBRS, BRS, RS, A, B, R, S, C, Launch, ClearingLaunch
  <2>2. \A k \in 1..14 : LC[k] = <<LaunchKinds[k], a>>
    BY <1>10, <1>12, <1>13, SMTT(30)
  <2>3. QED
    BY <1>9, <1>10, <1>12, <2>1, <2>2

LEMMA LaunchIsScript ==
    ASSUME NEW a \in Agents, NEW s \in Seq(Steps), NEW n \in {13, 14}, Len(s) = n,
           \A k \in 1..n : s[k] = <<LaunchKinds[k], a>>
    PROVE  Script(s, a) /\ Opening(s) /\ Has(s, {"admit"})
<1>1. \A k \in 1..n : s[k][1] = LaunchKinds[k] /\ s[k][2] = a
  OBVIOUS
<1>2. Owned(s, a)
  BY <1>1 DEF Owned
<1>3. Ordered(s)
  <2>1. \A k \in 1..n : /\ s[k][1] = "boot" => k = 9
                        /\ s[k][1] = "clear" => k = 14
                        /\ s[k][1] = "keep" => k \in {5, 11}
                        /\ s[k][1] = "refresh" => k \in {6, 12}
                        /\ s[k][1] \notin {"stopEnforcer", "stopped"}
    BY <1>1 DEF LaunchKinds
  <2>2. /\ s[8][1] = "enforce" /\ s[13][1] = "session"
        /\ s[4][1] = "inspect" /\ s[10][1] = "inspect"
        /\ s[5][1] = "keep" /\ s[11][1] = "keep"
    BY <1>1 DEF LaunchKinds
  <2>3. ASSUME NEW k \in 2..n
        PROVE  /\ k \in 1..n
               /\ k = 9 => k - 1 = 8
               /\ k = 14 => k - 1 = 13
               /\ k = 5 => k - 1 = 4
               /\ k = 11 => k - 1 = 10
               /\ k = 6 => k - 1 = 5
               /\ k = 12 => k - 1 = 11
    OBVIOUS
  <2>4. ASSUME NEW k \in 2..n
        PROVE  /\ s[k][1] = "boot"         => s[k - 1][1] = "enforce"
               /\ s[k][1] = "stopEnforcer" => s[k - 1][1] = "stopBody"
               /\ s[k][1] = "stopped"      => s[k - 1][1] = "stopEnforcer"
               /\ s[k][1] = "clear"        => s[k - 1][1] = "session"
               /\ s[k][1] = "keep"         => s[k - 1][1] \in {"inspect", "tally"}
               /\ s[k][1] = "refresh"      => s[k - 1][1] = "keep"
    BY <2>1, <2>2, <2>3
  <2>5. QED
    BY <2>4 DEF Ordered
<1>4. \A k \in 1..n : /\ s[k][1] \notin BeforeLaunch \ {"admit"}
                      /\ s[k][1] = "admit" <=> k = 1
                      /\ s[k][1] = "adopt" <=> k = 2
                      /\ s[k][1] = "boot" <=> k = 9
                      /\ s[k][1] = "session" <=> k = 13
                      /\ s[k][1] = "clear" <=> k = 14
  BY <1>1 DEF LaunchKinds, BeforeLaunch, TeardownSteps
<1>5. ASSUME NEW k \in 1..n
      PROVE  /\ ~Later(s, k, BeforeLaunch)
             /\ s[k][1] = "admit" => Later(s, k, {"adopt"})
             /\ k < 13 => Later(s, k, {"session"})
             /\ k >= 2 => ~Later(s, k, {"adopt"})
             /\ k >= 9 => ~Later(s, k, {"boot"})
             /\ k = 13 => ~Later(s, k, LaunchSteps \cup {"inspect", "keep"})
  <2>1. \A j \in 2..n : s[j][1] \notin BeforeLaunch
    BY <1>4
  <2>2. \A j \in (k + 1)..n : j \in 1..n /\ j \in 2..n
    OBVIOUS
  <2>3. ~Later(s, k, BeforeLaunch)
    BY <2>1, <2>2 DEF Later
  <2>4. s[k][1] = "admit" => Later(s, k, {"adopt"})
    BY <1>4 DEF Later
  <2>5. k < 13 => Later(s, k, {"session"})
    <3>1. 13 \in 1..n /\ s[13][1] = "session"
      BY <1>4
    <3>2. k < 13 => 13 \in (k + 1)..n
      OBVIOUS
    <3>3. QED
      BY <3>1, <3>2 DEF Later
  <2>6. k >= 2 => ~Later(s, k, {"adopt"})
    BY <1>4 DEF Later
  <2>7. k >= 9 => ~Later(s, k, {"boot"})
    BY <1>4 DEF Later
  <2>8. k = 13 => ~Later(s, k, LaunchSteps \cup {"inspect", "keep"})
    BY <1>4 DEF Later, LaunchSteps
  <2>9. QED
    BY <2>3, <2>4, <2>5, <2>6, <2>7, <2>8
<1>6. Committed(s)
  BY <1>4, <1>5 DEF Committed, LaunchSteps, BeforeLaunch, TeardownSteps
<1>7. s # <<>> /\ s[1][1] = "admit" /\ Has(s, {"admit"})
  BY <1>4 DEF Has, Later
<1>8. QED
  BY <1>2, <1>3, <1>6, <1>7 DEF Script, Opening

\* Every agent is counted.
LEMMA TallyIsPrologue ==
    ASSUME NEW a \in Agents
    PROVE  /\ Prologue(Tally, a) /\ \A b \in Agents : Tallies(Tally, b)
           /\ Len(Tally) > 0 /\ Tally[1][1] = "tally"
<1>1. /\ Names \in Seq(Agents) /\ Len(Names) \in Nat
      /\ Agents = {Names[i] : i \in 1..Len(Names)}
  BY LifecycleAssumption, LenProperties DEF ToSet
<1> DEFINE n == 2 * Len(Names)
<1>2. ASSUME NEW k \in 1..n PROVE (k + 1) \div 2 \in 1..Len(Names)
  BY <1>1
<1>3. ASSUME NEW k \in 1..n
      PROVE  <<IF k % 2 = 1 THEN "tally" ELSE "keep", Names[(k + 1) \div 2]>> \in Steps
  <2>1. Names[(k + 1) \div 2] \in Agents
    BY <1>1, <1>2
  <2>2. QED
    BY <2>1, StepKinds
<1>4. n \in Nat /\ Tally = [k \in 1..n |-> <<IF k % 2 = 1 THEN "tally" ELSE "keep",
                                            Names[(k + 1) \div 2]>>]
  BY <1>1 DEF Tally
<1>5. Tally \in Seq(Steps) /\ Len(Tally) = n
  BY <1>3, <1>4, IsASeq
<1>6. \A k \in 1..n : Tally[k][1] = IF k % 2 = 1 THEN "tally" ELSE "keep"
  BY <1>4
<1>7. Ordered(Tally)
  <2>1. ASSUME NEW k \in 2..n, k % 2 # 1
        PROVE  k - 1 \in 1..n /\ (k - 1) % 2 = 1
    BY <1>1, <2>1, SMTT(30)
  <2>2. QED
    BY <1>5, <1>6, <2>1 DEF Ordered
<1>8. Prologue(Tally, a)
  BY <1>5, <1>6, <1>7 DEF Prologue
<1>9. ASSUME NEW b \in Agents PROVE Tallies(Tally, b)
  <2>1. PICK i \in 1..Len(Names) : Names[i] = b
    BY <1>1
  <2>2. 2 * i - 1 \in 1..n /\ (2 * i - 1) % 2 = 1 /\ ((2 * i - 1) + 1) \div 2 = i
    BY <1>1
  <2>3. Tally[2 * i - 1] = <<"tally", b>>
    BY <1>4, <2>1, <2>2
  <2>4. QED
    BY <1>5, <2>2, <2>3 DEF Tallies
<1>10. Len(Tally) > 0 /\ Tally[1][1] = "tally"
  <2>1. PICK j \in 1..Len(Tally) : Tally[j] = <<"tally", a>>
    BY <1>9 DEF Tallies
  <2>2. j \in 1..n
    BY <1>5, <2>1
  <2>3. n > 0 /\ 1 \in 1..n /\ 1 % 2 = 1
    BY <1>4, <2>2
  <2>4. QED
    BY <1>5, <1>6, <2>3
<1>11. QED
  BY <1>8, <1>9, <1>10

LEMMA OpeningJoin ==
    ASSUME NEW p \in Seq(Steps), NEW s \in Seq(Steps), Len(p) > 0,
           p[1][1] \notin {"boot", "stopEnforcer", "stopped", "clear", "keep", "refresh"}
    PROVE  Opening(p \o s)
<1>1. /\ Len(p) \in Nat /\ Len(s) \in Nat /\ Len(p \o s) = Len(p) + Len(s)
      /\ \A i \in 1..Len(p) + Len(s) : (p \o s)[i] = IF i <= Len(p) THEN p[i] ELSE s[i - Len(p)]
  BY LenProperties, ConcatProperties
<1>2. (p \o s)[1] = p[1] /\ p \o s # <<>>
  BY <1>1
<1>3. QED
  BY <1>2 DEF Opening

LEMMA PartsArePrologues ==
    ASSUME NEW a \in Agents
    PROVE  /\ Prologue(Get(a), a) /\ Prologue(Stop(a), a) /\ Prologue(For(a, <<"guard">>), a)
           /\ \A s \in Seq(Steps) : Opening(Stop(a) \o s) /\ Opening(For(a, <<"guard">>) \o s)
<1>1. /\ Get(a) \in Seq(Steps) /\ Len(Get(a)) = 2
      /\ Get(a)[1] = <<"inspect", a>> /\ Get(a)[2] = <<"keep", a>>
  <2>1. <<"inspect", a>> \in Steps /\ <<"keep", a>> \in Steps
    BY StepKinds
  <2>2. QED
    BY <2>1, TwoSteps DEF Get
<1>2. /\ Stop(a) \in Seq(Steps) /\ Len(Stop(a)) = 3 /\ Stop(a)[1] = <<"stopBody", a>>
      /\ Stop(a)[2] = <<"stopEnforcer", a>> /\ Stop(a)[3] = <<"stopped", a>>
  <2>1. <<"stopBody", a>> \in Steps /\ <<"stopEnforcer", a>> \in Steps /\ <<"stopped", a>> \in Steps
    BY StepKinds
  <2>2. QED
    BY <2>1, ThreeSteps, SMTT(30) DEF Stop
<1> DEFINE G == For(a, <<"guard">>)
<1>3. G \in Seq(Steps) /\ Len(G) = 1 /\ G[1] = <<"guard", a>>
  <2>1. <<"guard", a>> \in Steps
    BY StepKinds
  <2>2. QED
    BY <2>1, OneStep
<1> HIDE DEF G
<1>4. Prologue(Get(a), a)
  BY <1>1 DEF Prologue, Ordered
<1>5. Prologue(Stop(a), a)
  BY <1>2 DEF Prologue, Ordered
<1>6. Prologue(G, a)
  BY <1>3 DEF Prologue, Ordered
<1>7. ASSUME NEW s \in Seq(Steps) PROVE Opening(Stop(a) \o s) /\ Opening(G \o s)
  <2>1. Len(Stop(a)) > 0 /\ Stop(a)[1][1] = "stopBody" /\ Len(G) > 0 /\ G[1][1] = "guard"
    BY <1>2, <1>3
  <2>2. QED
    BY <1>2, <1>3, <2>1, OpeningJoin
<1>8. QED
  BY <1>4, <1>5, <1>6, <1>7 DEF G

LEMMA TalliesJoin ==
    ASSUME NEW p \in Seq(Steps), NEW s \in Seq(Steps), NEW b, Tallies(p, b) \/ Tallies(s, b)
    PROVE  Tallies(p \o s, b)
<1> DEFINE c == p \o s
<1>1. /\ Len(p) \in Nat /\ Len(s) \in Nat /\ Len(c) = Len(p) + Len(s)
      /\ \A i \in 1..Len(p) + Len(s) : c[i] = IF i <= Len(p) THEN p[i] ELSE s[i - Len(p)]
  BY LenProperties, ConcatProperties
<1> HIDE DEF c
<1>2. ASSUME NEW j \in 1..Len(p), p[j] = <<"tally", b>> PROVE Tallies(c, b)
  <2>1. j \in 1..Len(c) /\ c[j] = p[j]
    BY <1>1
  <2>2. QED
    BY <1>2, <2>1 DEF Tallies
<1>3. ASSUME NEW j \in 1..Len(s), s[j] = <<"tally", b>> PROVE Tallies(c, b)
  <2>1. j + Len(p) \in 1..Len(c) /\ c[j + Len(p)] = s[j]
    BY <1>1
  <2>2. QED
    BY <1>3, <2>1 DEF Tallies
<1>4. QED
  BY <1>2, <1>3 DEF c, Tallies

\* The start sequence: the count of all agents, and the launch of this one.
LEMMA RunIs ==
    ASSUME NEW a \in Agents
    PROVE  /\ Run(a) = Tally \o Launch(a)
           /\ Run(a) \o For(a, <<"clear">>) = Tally \o ClearingLaunch(a)
<1> DEFINE A == For(a, <<"admit", "adopt", "enforce">>)
           B == For(a, <<"reconcile", "enforce", "boot">>)
           R == Refresh(a)
           S == For(a, <<"session">>)
           C == For(a, <<"clear">>)
<1>1. Tally \in Seq(Steps)
  BY TallyIsPrologue DEF Prologue
<1>2. A \in Seq(Steps) /\ B \in Seq(Steps)
  BY StepKinds, ThreeSteps
<1>3. S \in Seq(Steps) /\ C \in Seq(Steps)
  BY StepKinds, OneStep
<1>4. R \in Seq(Steps)
  BY StepKinds, ThreeSteps DEF Refresh
<1>5. Run(a) = ((((Tally \o A) \o R) \o B) \o R) \o S
  BY DEF Run
<1>6. Launch(a) = A \o (R \o (B \o (R \o S)))
  BY DEF Launch
<1> HIDE DEF A, B, R, S, C
<1> DEFINE T1 == Tally \o A
           T2 == T1 \o R
           T3 == T2 \o B
           U3 == R \o S
           U2 == B \o U3
           U1 == R \o U2
<1> HIDE DEF T1, T2, T3, U1, U2, U3
<1>7. T1 \in Seq(Steps) /\ U3 \in Seq(Steps)
  BY <1>1, <1>2, <1>3, <1>4, ConcatProperties DEF T1, U3
<1>8. T2 \in Seq(Steps) /\ U2 \in Seq(Steps)
  BY <1>2, <1>4, <1>7, ConcatProperties DEF T2, U2
<1>9. T3 \in Seq(Steps) /\ U1 \in Seq(Steps)
  BY <1>2, <1>4, <1>8, ConcatProperties DEF T3, U1
<1>10. /\ (T3 \o R) \o S = T3 \o U3
       /\ (T2 \o B) \o U3 = T2 \o U2
       /\ (T1 \o R) \o U2 = T1 \o U1
       /\ (Tally \o A) \o U1 = Tally \o (A \o U1)
  <2>1. (T3 \o R) \o S = T3 \o (R \o S)
    BY <1>3, <1>4, <1>9, ConcatAssociative, SMTT(30)
  <2>2. (T2 \o B) \o U3 = T2 \o (B \o U3)
    BY <1>2, <1>7, <1>8, ConcatAssociative, SMTT(30)
  <2>3. (T1 \o R) \o U2 = T1 \o (R \o U2)
    <3>1. T1 \in Seq(Steps) /\ R \in Seq(Steps) /\ U2 \in Seq(Steps)
      BY <1>4, <1>7, <1>8
    <3>2. QED
      BY <3>1, ConcatAssociative
  <2>4. (Tally \o A) \o U1 = Tally \o (A \o U1)
    BY <1>1, <1>2, <1>9, ConcatAssociative, SMTT(30)
  <2>5. QED
    BY <2>1, <2>2, <2>3, <2>4 DEF U1, U2, U3
<1>11. Run(a) = (T3 \o R) \o S /\ Launch(a) = A \o U1
  BY <1>5, <1>6 DEF T1, T2, T3, U1, U2, U3
<1>13. Run(a) = Tally \o Launch(a)
  <2>1. T3 \o U3 = (T2 \o B) \o U3 /\ T2 \o U2 = (T1 \o R) \o U2 /\ T1 \o U1 = (Tally \o A) \o U1
    BY DEF T1, T2, T3
  <2>2. QED
    BY <1>10, <1>11, <2>1
<1>14. (Tally \o Launch(a)) \o C = Tally \o (Launch(a) \o C)
  <2>1. Launch(a) \in Seq(Steps)
    BY LaunchIs
  <2>2. QED
    BY <1>1, <1>3, <2>1, ConcatAssociative
<1>15. QED
  BY <1>13, <1>14 DEF C, ClearingLaunch

LEMMA StartsAreScripts ==
    ASSUME NEW a \in Agents, NEW l \in {Launch(a), ClearingLaunch(a)}, NEW s,
           s \in {Get(a) \o (Tally \o l), Get(a) \o (Stop(a) \o (Tally \o l)),
                  Get(a) \o (For(a, <<"guard">>) \o (Stop(a) \o (Tally \o l)))}
    PROVE  Script(s, a) /\ Has(s, {"admit"}) /\ \A b \in Agents : Tallies(s, b)
<1> DEFINE G == For(a, <<"guard">>)
<1> HIDE DEF G
<1>1. l \in Seq(Steps) /\ Script(l, a) /\ Opening(l) /\ Has(l, {"admit"})
  <2>1. CASE l = Launch(a)
    <3>1. l \in Seq(Steps) /\ Len(l) = 13 /\ \A k \in 1..13 : l[k] = <<LaunchKinds[k], a>>
      BY <2>1, LaunchIs
    <3>2. QED
      BY <3>1, LaunchIsScript
  <2>2. CASE l = ClearingLaunch(a)
    <3>1. l \in Seq(Steps) /\ Len(l) = 14 /\ \A k \in 1..14 : l[k] = <<LaunchKinds[k], a>>
      BY <2>2, LaunchIs
    <3>2. QED
      BY <3>1, LaunchIsScript
  <2>3. QED
    BY <2>1, <2>2
<1>2. /\ Prologue(Get(a), a) /\ Prologue(Stop(a), a) /\ Prologue(G, a)
      /\ \A t \in Seq(Steps) : Opening(Stop(a) \o t) /\ Opening(G \o t)
  BY PartsArePrologues DEF G
<1>3. /\ Prologue(Tally, a) /\ Tally \in Seq(Steps)
      /\ Tally[1][1] = "tally" /\ Len(Tally) > 0 /\ \A b \in Agents : Tallies(Tally, b)
  BY TallyIsPrologue DEF Prologue
<1>4. Get(a) \in Seq(Steps) /\ Stop(a) \in Seq(Steps) /\ G \in Seq(Steps)
  BY <1>2 DEF Prologue
<1> DEFINE Good(t) == /\ t \in Seq(Steps) /\ Script(t, a) /\ Has(t, {"admit"})
                      /\ \A b \in Agents : Tallies(t, b)
<1>5. ASSUME NEW p, Prologue(p, a), NEW t, Good(t), Opening(t) PROVE Good(p \o t)
  <2>1. p \in Seq(Steps) /\ Script(p \o t, a) /\ Has(p \o t, {"admit"})
    BY <1>5, ScriptJoin DEF Prologue
  <2>2. \A b \in Agents : Tallies(p \o t, b)
    BY <1>5, <2>1, TalliesJoin
  <2>3. QED
    BY <2>1, <2>2 DEF Script
<1>6. Good(Tally \o l) /\ Opening(Tally \o l)
  <2>1. Script(Tally \o l, a) /\ Has(Tally \o l, {"admit"})
    BY <1>1, <1>3, ScriptJoin
  <2>2. \A b \in Agents : Tallies(Tally \o l, b)
    BY <1>1, <1>3, TalliesJoin
  <2>3. Opening(Tally \o l)
    BY <1>1, <1>3, OpeningJoin
  <2>4. QED
    BY <2>1, <2>2, <2>3 DEF Script
<1> HIDE DEF Good
<1>7. \A t : Good(t) => t \in Seq(Steps)
  BY DEF Good
<1>8. Good(Stop(a) \o (Tally \o l)) /\ Opening(Stop(a) \o (Tally \o l))
  BY <1>2, <1>5, <1>6, <1>7
<1>9. Good(G \o (Stop(a) \o (Tally \o l))) /\ Opening(G \o (Stop(a) \o (Tally \o l)))
  BY <1>2, <1>5, <1>7, <1>8
<1>10. Good(s)
  BY <1>2, <1>5, <1>6, <1>8, <1>9 DEF G
<1>11. QED
  BY <1>10 DEF Good

LEMMA ShortProgramsAreScripts ==
    ASSUME NEW a \in Agents
    PROVE  /\ Script(Get(a), a) /\ Get(a) # <<>> /\ Head(Get(a))[1] = "inspect"
           /\ ~Has(Get(a), BeforeLaunch \cup LaunchSteps \cup {"clear"})
           /\ Script(Program("halt", a), a) /\ Program("halt", a) # <<>>
           /\ Head(Program("halt", a))[1] = "stopBody"
           /\ ~Has(Program("halt", a), LaunchSteps)
<1>1. /\ Get(a) \in Seq(Steps) /\ Len(Get(a)) = 2
      /\ Get(a)[1] = <<"inspect", a>> /\ Get(a)[2] = <<"keep", a>>
  <2>1. <<"inspect", a>> \in Steps /\ <<"keep", a>> \in Steps
    BY StepKinds
  <2>2. QED
    BY <2>1, TwoSteps DEF Get
<1> DEFINE s == Program("halt", a)
<1>2. /\ s \in Seq(Steps) /\ Len(s) = 4
      /\ s[1] = <<"stopBody", a>> /\ s[2] = <<"stopEnforcer", a>>
      /\ s[3] = <<"stopped", a>> /\ s[4] = <<"record", a>>
  <2> DEFINE S == Stop(a)
             R == For(a, <<"record">>)
  <2>1. /\ S \in Seq(Steps) /\ Len(S) = 3 /\ S[1] = <<"stopBody", a>>
        /\ S[2] = <<"stopEnforcer", a>> /\ S[3] = <<"stopped", a>>
    <3>1. <<"stopBody", a>> \in Steps /\ <<"stopEnforcer", a>> \in Steps
          /\ <<"stopped", a>> \in Steps
      BY StepKinds
    <3>2. QED
      BY <3>1, ThreeSteps, SMTT(30) DEF Stop
  <2>2. R \in Seq(Steps) /\ Len(R) = 1 /\ R[1] = <<"record", a>>
    <3>1. <<"record", a>> \in Steps
      BY StepKinds
    <3>2. QED
      BY <3>1, OneStep
  <2>3. s = S \o R
    BY DEF Program
  <2> HIDE DEF S, R, s
  <2>4. /\ s \in Seq(Steps) /\ Len(s) = Len(S) + Len(R)
        /\ \A k \in 1..Len(S) + Len(R) : s[k] = IF k <= Len(S) THEN S[k] ELSE R[k - Len(S)]
    <3>1. S \in Seq(Steps) /\ R \in Seq(Steps)
      BY <2>1, <2>2
    <3>2. QED
      BY <2>3, <3>1, ConcatProperties
  <2>5. QED
    BY <2>1, <2>2, <2>4
<1> HIDE DEF s
<1>3. Script(Get(a), a)
  <2>1. Owned(Get(a), a)
    BY <1>1 DEF Owned
  <2>2. Ordered(Get(a))
    BY <1>1 DEF Ordered
  <2>3. Committed(Get(a))
    BY <1>1 DEF Committed, LaunchSteps, BeforeLaunch, TeardownSteps
  <2>4. QED
    BY <1>1, <2>1, <2>2, <2>3 DEF Script
<1>4. Get(a) # <<>> /\ Head(Get(a))[1] = "inspect" /\ s # <<>> /\ Head(s)[1] = "stopBody"
  BY <1>1, <1>2
<1>5. ~Has(Get(a), BeforeLaunch \cup LaunchSteps \cup {"clear"})
  BY <1>1 DEF Has, Later, BeforeLaunch, LaunchSteps, TeardownSteps
<1>6. \A k \in 1..4 : s[k][1] \in {"stopBody", "stopEnforcer", "stopped", "record"} /\ s[k][2] = a
  BY <1>2
<1>7. \A k \in Nat : ~Later(s, k, LaunchSteps) /\ ~Later(s, k, {"session"})
  <2>1. ASSUME NEW k \in Nat, NEW j \in (k + 1)..Len(s), Len(s) = 4, s[j][1] \in LaunchSteps PROVE FALSE
    BY <1>6, <2>1 DEF LaunchSteps
  <2>2. QED
    BY <1>2, <2>1 DEF Later, LaunchSteps
<1>8. Script(s, a)
  <2>1. Owned(s, a)
    BY <1>2, <1>6 DEF Owned
  <2>2. Ordered(s)
    BY <1>2 DEF Ordered
  <2>3. Committed(s)
    <3>1. \A k \in 1..Len(s) : k \in Nat
      BY <1>2
    <3>2. QED
      BY <1>2, <1>6, <1>7, <3>1 DEF Committed, LaunchSteps
  <2>4. QED
    BY <1>2, <2>1, <2>2, <2>3 DEF Script
<1>9. ~Has(s, LaunchSteps)
  BY <1>7 DEF Has
<1>10. QED
  BY <1>3, <1>4, <1>5, <1>8, <1>9 DEF s

\* The program of every request is a script, which is not a launch yet.
LEMMA ProgramsAreScripts ==
    ASSUME NEW a \in Agents, NEW o \in Ops
    PROVE  LET s == Program(o, a)
           IN  /\ Script(s, a) /\ OfOp(o, s) /\ s # <<>>
               /\ Head(s)[1] \in {"inspect", "stopBody"} /\ ~Launching(s)
               /\ Has(s, {"boot"}) => Has(s, {"admit"}) /\ \A b \in Agents : Tallies(s, b)
<1> DEFINE s == Program(o, a)
           G == For(a, <<"guard">>)
           C == For(a, <<"clear">>)
<1>1. CASE o \in StartOps
  <2>1. Get(a) \in Seq(Steps) /\ Stop(a) \in Seq(Steps) /\ G \in Seq(Steps) /\ Tally \in Seq(Steps)
    BY PartsArePrologues, TallyIsPrologue DEF Prologue
  <2>2. C \in Seq(Steps)
    BY StepKinds, OneStep
  <2>3. Launch(a) \in Seq(Steps)
    BY LaunchIs
  <2> DEFINE T == Tally \o Launch(a)
  <2>4. /\ Run(a) = T /\ T \o C = Tally \o ClearingLaunch(a) /\ T \in Seq(Steps)
        /\ Tally \o ClearingLaunch(a) \in Seq(Steps)
    BY <2>1, <2>2, <2>3, RunIs, ConcatProperties
  <2> DEFINE X == Get(a)
             Y == Stop(a)
  <2> HIDE DEF G, C, T, X, Y
  <2>0. /\ X \in Seq(Steps) /\ Y \in Seq(Steps) /\ G \in Seq(Steps) /\ C \in Seq(Steps)
        /\ T \in Seq(Steps)
    BY <2>1, <2>2, <2>4 DEF X, Y
  <2>5. ASSUME o = "start" PROVE s = Get(a) \o T
    BY <2>4, <2>5 DEF Program
  <2>6. ASSUME o = "restart" PROVE s = Get(a) \o (Stop(a) \o T)
    <3>1. s = (X \o Y) \o T
      BY <2>4, <2>6 DEF Program, X, Y
    <3>2. (X \o Y) \o T = X \o (Y \o T)
      BY <2>0, ConcatAssociative, SMTT(30)
    <3>3. QED
      BY <3>1, <3>2 DEF X, Y
  <2>7. ASSUME o = "resume" PROVE s = Get(a) \o (G \o (Stop(a) \o (T \o C)))
    <3> DEFINE XG == X \o G
               XGY == XG \o Y
               TC == T \o C
               YTC == Y \o TC
    <3> HIDE DEF XG, XGY, TC, YTC
    <3>1. s = (XGY \o T) \o C
      BY <2>4, <2>7 DEF Program, Resume, G, C, X, Y, XG, XGY
    <3>2. XG \in Seq(Steps) /\ TC \in Seq(Steps)
      BY <2>0, ConcatProperties DEF XG, TC
    <3>3. XGY \in Seq(Steps) /\ YTC \in Seq(Steps)
      BY <2>0, <3>2, ConcatProperties DEF XGY, YTC
    <3>4. (XGY \o T) \o C = XGY \o (T \o C)
      <4>1. XGY \in Seq(Steps) /\ T \in Seq(Steps) /\ C \in Seq(Steps)
        BY <2>0, <3>3
      <4>2. QED
        BY <4>1, ConcatAssociative
    <3>5. (XG \o Y) \o TC = XG \o (Y \o TC)
      <4>1. XG \in Seq(Steps) /\ Y \in Seq(Steps) /\ TC \in Seq(Steps)
        BY <2>0, <3>2
      <4>2. QED
        BY <4>1, ConcatAssociative
    <3>6. (X \o G) \o YTC = X \o (G \o YTC)
      <4>1. X \in Seq(Steps) /\ G \in Seq(Steps) /\ YTC \in Seq(Steps)
        BY <2>0, <3>3
      <4>2. QED
        BY <4>1, ConcatAssociative
    <3>7. QED
      BY <3>1, <3>4, <3>5, <3>6 DEF X, Y, XG, XGY, TC, YTC
  <2>8. Script(s, a) /\ Has(s, {"admit"}) /\ \A b \in Agents : Tallies(s, b)
    <3>1. CASE o = "start"
      BY <2>5, <3>1, StartsAreScripts DEF T
    <3>2. CASE o = "restart"
      BY <2>6, <3>2, StartsAreScripts DEF T
    <3>3. CASE o = "resume"
      <4>1. s = Get(a) \o (G \o (Stop(a) \o (Tally \o ClearingLaunch(a))))
        BY <2>4, <2>7, <3>3
      <4>2. QED
        BY <4>1, StartsAreScripts DEF G
    <3>4. QED
      BY <1>1, <3>1, <3>2, <3>3 DEF StartOps
  <2>9. s # <<>> /\ Head(s)[1] = "inspect"
    <3>1. PICK t \in Seq(Steps) : s = Get(a) \o t
      <4>1. Stop(a) \o T \in Seq(Steps) /\ T \o C \in Seq(Steps)
        BY <2>1, <2>2, <2>4, ConcatProperties
      <4>2. Stop(a) \o (T \o C) \in Seq(Steps)
        BY <2>1, <4>1, ConcatProperties
      <4>3. G \o (Stop(a) \o (T \o C)) \in Seq(Steps)
        BY <2>1, <4>2, ConcatProperties
      <4>4. QED
        BY <1>1, <2>4, <2>5, <2>6, <2>7, <4>1, <4>3 DEF StartOps
    <3>2. Get(a) # <<>> /\ Head(Get(a))[1] = "inspect"
      BY ShortProgramsAreScripts
    <3>3. Len(Get(a)) > 0 /\ Head(Get(a)) = Get(a)[1]
      BY <2>1, <3>2, LenProperties, EmptySeq
    <3>4. Len(s) = Len(Get(a)) + Len(t) /\ s[1] = Get(a)[1] /\ Len(t) \in Nat
      BY <2>1, <3>1, <3>3, ConcatProperties, LenProperties
    <3>5. QED
      BY <3>2, <3>3, <3>4
  <2>10. OfOp(o, s) /\ ~Launching(s)
    BY <1>1, <2>8 DEF OfOp, StartOps, Launching
  <2>11. QED
    BY <2>8, <2>9, <2>10
<1>2. CASE o = "show"
  <2>1. s = Get(a)
    BY <1>2 DEF Program
  <2>2. ~Has(s, {"boot"}) /\ ~Has(s, {"session"})
    BY <2>1, ShortProgramsAreScripts DEF Has, Later, LaunchSteps
  <2>3. QED
    BY <1>2, <2>1, <2>2, ShortProgramsAreScripts DEF OfOp, Launching
<1>3. CASE o = "halt"
  <2>1. ~Has(s, {"boot"}) /\ ~Has(s, {"session"})
    BY <1>3, ShortProgramsAreScripts DEF Has, Later, LaunchSteps
  <2>2. QED
    BY <1>3, <2>1, ShortProgramsAreScripts DEF OfOp, Launching
<1>4. QED
  BY <1>1, <1>2, <1>3 DEF Ops, StartOps

\* What failClosed leaves to do.
Teardown(a) == {For(a, <<>>) \o Stop(a), For(a, <<"fail">>) \o Stop(a)}

LEMMA OnlyTeardown ==
    ASSUME NEW a \in Agents, NEW s \in Seq(Steps), s # <<>>,
           \A k \in 1..Len(s) : s[k][1] \in TeardownSteps /\ s[k][2] = a,
           s[Len(s)][1] = "stopped", Ordered(s), NEW o, o # "show"
    PROVE  /\ Script(s, a) /\ OfOp(o, s) /\ Last(s)[2] = a /\ TearingDown(s)
           /\ ~Launching(s) /\ ~Has(s, {"boot"})
<1>1. Len(s) \in 1..Len(s)
  BY EmptySeq, LenProperties
<1>2. Owned(s, a) /\ Last(s)[2] = a
  BY <1>1 DEF Owned, Last
<1>3. \A k \in 1..Len(s) : /\ s[k][1] \notin {"tally", "admit", "clear", "session"} \cup LaunchSteps
                      /\ ~Later(s, k, {"session"})
  BY DEF TeardownSteps, LaunchSteps, Later
<1>4. Committed(s)
  BY <1>3 DEF Committed, LaunchSteps
<1>5. ~Has(s, {"boot"}) /\ ~Has(s, {"session"})
  BY DEF Has, Later, TeardownSteps
<1>6. QED
  BY <1>1, <1>2, <1>4, <1>5 DEF Script, OfOp, TearingDown, Launching

LEMMA TeardownsAreScripts ==
    ASSUME NEW a \in Agents, NEW s \in Teardown(a), NEW o, o # "show"
    PROVE  /\ Script(s, a) /\ OfOp(o, s) /\ s # <<>> /\ Last(s)[2] = a /\ TearingDown(s)
           /\ Head(s)[1] \in {"fail", "stopBody"}
           /\ ~Launching(s) /\ ~Has(s, {"boot"})
<1> DEFINE S == Stop(a)
           F == For(a, <<"fail">>)
<1>1. /\ S \in Seq(Steps) /\ Len(S) = 3 /\ S[1] = <<"stopBody", a>>
      /\ S[2] = <<"stopEnforcer", a>> /\ S[3] = <<"stopped", a>>
  <2>1. <<"stopBody", a>> \in Steps /\ <<"stopEnforcer", a>> \in Steps
        /\ <<"stopped", a>> \in Steps
    BY StepKinds
  <2>2. QED
    BY <2>1, ThreeSteps, SMTT(30) DEF Stop
<1>2. F \in Seq(Steps) /\ Len(F) = 1 /\ F[1] = <<"fail", a>>
  <2>1. <<"fail", a>> \in Steps
    BY StepKinds
  <2>2. QED
    BY <2>1, OneStep
<1>3. For(a, <<>>) = <<>>
  BY DEF For
<1>4. s = S \/ s = F \o S
  <2>1. <<>> \o S = S
    BY <1>1, ConcatEmptySeq
  <2>2. QED
    BY <1>3, <2>1 DEF Teardown
<1> HIDE DEF S, F
<1>5. CASE s = F \o S
  <2>1. /\ s \in Seq(Steps) /\ Len(s) = Len(F) + Len(S)
        /\ \A k \in 1..Len(F) + Len(S) : s[k] = IF k <= Len(F) THEN F[k] ELSE S[k - Len(F)]
    <3>1. F \in Seq(Steps) /\ S \in Seq(Steps)
      BY <1>1, <1>2
    <3>2. QED
      BY <1>5, <3>1, ConcatProperties
  <2>2. /\ s \in Seq(Steps) /\ Len(s) = 4
        /\ s[1] = <<"fail", a>> /\ s[2] = <<"stopBody", a>> /\ s[3] = <<"stopEnforcer", a>>
        /\ s[4] = <<"stopped", a>>
    BY <1>1, <1>2, <2>1
  <2>3. /\ \A k \in 1..Len(s) : s[k][1] \in TeardownSteps /\ s[k][2] = a
        /\ s[Len(s)][1] = "stopped" /\ s[1][1] = "fail" /\ Head(s) = s[1]
        /\ s # <<>>
    BY <2>2 DEF TeardownSteps
  <2>4. Ordered(s)
    BY <2>2 DEF Ordered
  <2>5. QED
    BY <2>2, <2>3, <2>4, OnlyTeardown
<1>6. CASE s = S
  <2>1. /\ s \in Seq(Steps) /\ Len(s) = 3 /\ s[1] = <<"stopBody", a>>
        /\ s[2] = <<"stopEnforcer", a>> /\ s[3] = <<"stopped", a>>
    BY <1>1, <1>6
  <2>2. /\ \A k \in 1..Len(s) : s[k][1] \in TeardownSteps /\ s[k][2] = a
        /\ s[Len(s)][1] = "stopped" /\ s[1][1] = "stopBody" /\ Head(s) = s[1]
        /\ s # <<>>
    BY <2>1 DEF TeardownSteps
  <2>3. Ordered(s)
    BY <2>1 DEF Ordered
  <2>4. QED
    BY <2>1, <2>2, <2>3, OnlyTeardown
<1>7. QED
  BY <1>4, <1>5, <1>6

-----------------------------------------------------------------------------
(* Types, and scripts *)

LEMMA InspectionsAreTyped ==
    ASSUME TypeOK, NEW a \in Agents
    PROVE  Seen(a) \subseteq Phases /\ Changes(a) \in BOOLEAN
BY DEF TypeOK, Seen, Inspected, Changes, WasUp, Phases, Bodies

LEMMA OwnerOf ==
    ASSUME TypeOK, NEW r \in Requests, todo[r] # <<>>
    PROVE  \E a \in Agents : Works(r, a)
<1>1. todo[r] \in Seq(Steps) /\ Len(todo[r]) \in 1..Len(todo[r])
  BY LenProperties, EmptySeq DEF TypeOK
<1>2. Last(todo[r]) \in Steps
  BY <1>1 DEF Last
<1>3. QED
  BY <1>2 DEF Works, Steps

\* A step of a request goes on to the next one, gives up, or tears down.
LEMMA StepMoves ==
    ASSUME TypeOK, ScriptsHold, NEW r \in Requests, NEW b \in Agents, Step(r, b)
    PROVE  /\ op' = op /\ begun' = begun /\ faults' = faults
           /\ \E a \in Agents, t \in Seq(Steps) :
                 /\ Works(r, a) /\ Script(todo[r], a) /\ OfOp(op[r], todo[r])
                 /\ todo' = [todo EXCEPT ![r] = t]
                 /\ t = <<>> \/ (Script(t, a) /\ OfOp(op[r], t) /\ Last(t)[2] = a)
                 /\ \/ t = Tail(todo[r])
                    \/ t = <<>>
                    \/ t \in Teardown(b) /\ b = a /\ Head(todo[r])[1] \in LaunchSteps
<1>1. todo[r] # <<>> /\ Head(todo[r])[2] = b
  BY DEF Step, At, Inspect, CountAgent, Keep, Admit, Adopt, EnsureEnforcer, Fail, Reconcile,
         Boot, Session, StopBody, StopEnforcer, Stopped, Record, Guard, ClearActiveHalt
<1>2. PICK a \in Agents : Works(r, a)
  BY <1>1, OwnerOf
<1>3. Script(todo[r], a) /\ OfOp(op[r], todo[r])
  BY <1>2 DEF ScriptsHold
<1> DEFINE Left == \/ Advance(r) \/ GiveUp(r)
                   \/ /\ \E t \in Teardown(b) : todo' = [todo EXCEPT ![r] = t]
                      /\ Head(todo[r])[1] \in {"enforce", "reconcile", "boot", "session"}
<1>4. Left
  <2>1. CASE Inspect(r, b) \/ CountAgent(r, b) \/ Keep(r, b) \/ Admit(r, b) \/ Adopt(r, b)
    BY <2>1 DEF Inspect, CountAgent, Keep, Admit, Adopt
  <2>2. CASE EnsureEnforcer(r, b)
    BY <2>2 DEF EnsureEnforcer, At, failClosed, Teardown
  <2>3. CASE Reconcile(r, b)
    BY <2>3 DEF Reconcile, At, failClosed, Teardown
  <2>4. CASE Boot(r, b)
    BY <2>4 DEF Boot, At, failClosed, Teardown
  <2>5. CASE Session(r, b)
    BY <2>5 DEF Session, At, failClosed, Teardown
  <2>6. CASE \/ Fail(r, b) \/ StopBody(r, b) \/ StopEnforcer(r, b) \/ Stopped(r, b)
             \/ Record(r, b) \/ Guard(r, b) \/ ClearActiveHalt(r, b)
    BY <2>6 DEF Fail, StopBody, StopEnforcer, Stopped, Record, Guard, ClearActiveHalt
  <2>7. QED
    BY <2>1, <2>2, <2>3, <2>4, <2>5, <2>6 DEF Step
<1>5. op' = op /\ begun' = begun /\ faults' = faults
  BY DEF Step, Inspect, CountAgent, Keep, Admit, Adopt, EnsureEnforcer, Fail, Reconcile,
         Boot, Session, StopBody, StopEnforcer, Stopped, Record, Guard, ClearActiveHalt
<1>6. CASE todo' = [todo EXCEPT ![r] = Tail(@)]
  <2> DEFINE t == Tail(todo[r])
  <2>1. t \in Seq(Steps) /\ Script(t, a) /\ OfOp(op[r], t)
    BY <1>1, <1>3, ScriptTail, OfOpTail DEF Script
  <2>2. t = <<>> \/ Last(t)[2] = a
    BY <1>1, <1>3, HeadOfScript
  <2>3. QED
    BY <1>2, <1>3, <1>5, <1>6, <2>1, <2>2
<1>7. CASE todo' = [todo EXCEPT ![r] = <<>>]
  <2>1. <<>> \in Seq(Steps)
    OBVIOUS
  <2>2. QED
    BY <1>2, <1>3, <1>5, <1>7, <2>1
<1>8. ASSUME NEW t \in Teardown(b), todo' = [todo EXCEPT ![r] = t],
             Head(todo[r])[1] \in {"enforce", "reconcile", "boot", "session"}
      PROVE  /\ Script(t, a) /\ OfOp(op[r], t) /\ Last(t)[2] = a /\ t \in Seq(Steps)
             /\ b = a /\ Head(todo[r])[1] \in LaunchSteps
  <2>1. b = a /\ Head(todo[r])[1] \in LaunchSteps
    BY <1>1, <1>3, <1>8, HeadOfScript DEF LaunchSteps
  <2>2. op[r] # "show"
    <3>1. SUFFICES ASSUME op[r] = "show" PROVE FALSE
      OBVIOUS
    <3>2. ~Has(todo[r], BeforeLaunch \cup LaunchSteps \cup {"clear"})
      BY <1>3, <3>1 DEF OfOp
    <3>3. todo[r] \in Seq(Steps)
      BY <1>3 DEF Script
    <3>4. QED
      BY <1>1, <2>1, <3>2, <3>3, HasTail
  <2>3. QED
    BY <2>1, <2>2, TeardownsAreScripts DEF Script
<1>9. QED
  BY <1>2, <1>3, <1>4, <1>5, <1>6, <1>7, <1>8 DEF Advance, GiveUp


LEMMA ScriptsHoldInit == Init => ScriptsHold
BY DEF Init, ScriptsHold, Works

LEMMA ScriptsHoldNext ==
    ASSUME TypeOK, ScriptsHold, [Next]_vars
    PROVE  ScriptsHold'
<1>1. ASSUME NEW q \in Requests, NEW a \in Agents, Works(q, a),
             todo'[q] = todo[q], op'[q] = op[q]
      PROVE  Script(todo'[q], a) /\ OfOp(op'[q], todo'[q])
  BY <1>1 DEF ScriptsHold
<1>2. ASSUME NEW r \in Requests, NEW o \in Ops, NEW b \in Agents, Begin(r, o, b)
      PROVE  ScriptsHold'
  <2>1. ASSUME NEW q \in Requests, NEW a \in Agents, Works(q, a)'
        PROVE  Script(todo'[q], a) /\ OfOp(op'[q], todo'[q])
    <3>1. CASE q = r
      <4>1. todo'[q] = Program(o, b) /\ op'[q] = o
        BY <1>2, <3>1 DEF Begin, TypeOK
      <4>2. Script(Program(o, b), b) /\ OfOp(o, Program(o, b)) /\ Program(o, b) # <<>>
        BY ProgramsAreScripts
      <4>3. a = b
        BY <2>1, <4>1, <4>2, HeadOfScript DEF Works
      <4>4. QED
        BY <4>1, <4>2, <4>3
    <3>2. CASE q # r
      <4>1. todo'[q] = todo[q] /\ op'[q] = op[q]
        BY <1>2, <3>2 DEF Begin, TypeOK
      <4>2. Works(q, a)
        BY <2>1, <4>1 DEF Works
      <4>3. QED
        BY <1>1, <4>1, <4>2
    <3>3. QED
      BY <3>1, <3>2
  <2>2. QED
    BY <2>1 DEF ScriptsHold
<1>3. ASSUME NEW r \in Requests, NEW b \in Agents, Step(r, b)
      PROVE  ScriptsHold'
  <2>1. PICK c \in Agents, t \in Seq(Steps) :
           /\ todo' = [todo EXCEPT ![r] = t]
           /\ t = <<>> \/ (Script(t, c) /\ OfOp(op[r], t) /\ Last(t)[2] = c)
    BY <1>3, StepMoves
  <2>2. op' = op
    BY <1>3, StepMoves
  <2>3. ASSUME NEW q \in Requests, NEW a \in Agents, Works(q, a)'
        PROVE  Script(todo'[q], a) /\ OfOp(op'[q], todo'[q])
    <3>1. CASE q = r
      <4>1. todo'[q] = t
        BY <2>1, <3>1 DEF TypeOK
      <4>2. t # <<>> /\ a = c
        BY <2>1, <2>3, <4>1 DEF Works
      <4>3. QED
        BY <2>1, <2>2, <3>1, <4>1, <4>2
    <3>2. CASE q # r
      <4>1. todo'[q] = todo[q] /\ op'[q] = op[q]
        BY <2>1, <2>2, <3>2 DEF TypeOK
      <4>2. Works(q, a)
        BY <2>3, <4>1 DEF Works
      <4>3. QED
        BY <1>1, <4>1, <4>2
    <3>3. QED
      BY <3>1, <3>2
  <2>4. QED
    BY <2>3 DEF ScriptsHold
<1>4. ASSUME UNCHANGED <<todo, op>> PROVE ScriptsHold'
  BY <1>4 DEF ScriptsHold, Works
<1>5. ASSUME NEW a \in Agents, BodyEnds(a) \/ BodyDies(a) \/ BodyRestarts(a) \/ EnforcerEnds(a)
      PROVE  ScriptsHold'
  BY <1>4, <1>5 DEF BodyEnds, BodyDies, BodyRestarts, EnforcerEnds, requestVars
<1>6. ASSUME GatewayRestarts PROVE ScriptsHold'
  BY <1>6 DEF GatewayRestarts, ScriptsHold, Works
<1>7. ASSUME UNCHANGED vars PROVE ScriptsHold'
  BY <1>4, <1>7 DEF vars, requestVars
<1>8. QED
  BY <1>2, <1>3, <1>5, <1>6, <1>7 DEF Next

LEMMA TypeOKInit == Init => TypeOK
<1>1. <<>> \in Seq(Steps)
  OBVIOUS
<1>2. QED
  BY <1>1, LifecycleAssumption DEF Init, TypeOK, Phases, Bodies, Ops, Fates

\* The steps of the requests, in the order of the module.
LEMMA TypeOKStep ==
    ASSUME TypeOK, ScriptsHold, NEW r \in Requests, NEW a \in Agents, Step(r, a),
           UNCHANGED crowd
    PROVE  TypeOK'
<1>1. todo' \in [Requests -> Seq(Steps)]
  <2>1. PICK t \in Seq(Steps) : todo' = [todo EXCEPT ![r] = t]
    BY StepMoves
  <2>2. QED
    BY <2>1 DEF TypeOK
<1>2. Seen(a) \subseteq Phases /\ Changes(a) \in BOOLEAN
  BY InspectionsAreTyped
<1>3. CASE Inspect(r, a)
  <2>1. PICK s \in Seen(a) :
           /\ status' = [status EXCEPT ![r] = s]
           /\ dirty' = [dirty EXCEPT ![r] = Changes(a)]
           /\ count' = [count EXCEPT ![r] = IF s \in {"running", "degraded", "reconciled"}
                                             THEN @ + 0 ELSE @]
    BY <1>3 DEF Inspect, GetStatus
  <2>2. count' \in [Requests -> Nat] /\ status' \in [Requests -> Phases]
        /\ dirty' \in [Requests -> BOOLEAN]
    BY <1>2, <2>1 DEF TypeOK
  <2>3. QED
    BY <1>1, <1>3, <2>2 DEF Inspect, Found, TypeOK, ghostVars
<1>4. CASE CountAgent(r, a)
  <2>1. PICK s \in Seen(a) :
           /\ status' = [status EXCEPT ![r] = s]
           /\ dirty' = [dirty EXCEPT ![r] = Changes(a)]
           /\ count' = [count EXCEPT ![r] = IF s \in {"running", "degraded", "reconciled"}
                                             THEN @ + 1 ELSE @]
    BY <1>4 DEF CountAgent, GetStatus
  <2>2. count' \in [Requests -> Nat] /\ status' \in [Requests -> Phases]
        /\ dirty' \in [Requests -> BOOLEAN]
    BY <1>2, <2>1 DEF TypeOK
  <2>3. QED
    BY <1>1, <1>4, <2>2 DEF CountAgent, Found, TypeOK, ghostVars
<1>5. CASE Keep(r, a)
  BY <1>1, <1>5 DEF Keep, TypeOK, ghostVars
<1>6. CASE Admit(r, a) \/ Session(r, a)
  BY <1>1, <1>6 DEF Admit, Session, TypeOK, agentVars, Fates
<1>7. CASE Adopt(r, a) \/ Fail(r, a) \/ Reconcile(r, a)
  BY <1>1, <1>7 DEF Adopt, Fail, Reconcile, TypeOK, ghostVars, Phases
<1>8. CASE EnsureEnforcer(r, a)
  BY <1>1, <1>8 DEF EnsureEnforcer, Enforce, TypeOK
<1>9. CASE Boot(r, a) \/ StopBody(r, a)
  BY <1>1, <1>9 DEF Boot, StopBody, Ended, TypeOK, Bodies, ghostVars
<1>10. CASE StopEnforcer(r, a)
  BY <1>1, <1>10 DEF StopEnforcer, TypeOK, ghostVars
<1>11. CASE Stopped(r, a)
  BY <1>1, <1>11 DEF Stopped, TypeOK, Phases, Fates
<1>12. CASE Record(r, a) \/ Guard(r, a) \/ ClearActiveHalt(r, a)
  BY <1>1, <1>12 DEF Record, Guard, ClearActiveHalt, TypeOK, agentVars, ghostVars
<1>13. QED
  BY <1>3, <1>4, <1>5, <1>6, <1>7, <1>8, <1>9, <1>10, <1>11, <1>12 DEF Step

LEMMA TypeOKNext ==
    ASSUME TypeOK, ScriptsHold, [Next]_vars
    PROVE  TypeOK'
<1>1. ASSUME NEW r \in Requests, NEW o \in Ops, NEW a \in Agents, Begin(r, o, a)
      PROVE  TypeOK'
  <2>1. Program(o, a) \in Seq(Steps)
    BY ProgramsAreScripts DEF Script
  <2>2. Starting' \subseteq Requests
    BY DEF Starting
  <2>3. Cardinality(Starting') \in Nat
    BY <2>2, FS_Subset, FS_CardinalityType, LifecycleAssumption
  <2>4. crowd' \in Nat
    BY <1>1, <2>3 DEF Begin, TypeOK
  <2>5. begun' \in 0..MaxOps
    BY <1>1, LifecycleAssumption DEF Begin, TypeOK
  <2>6. QED
    BY <1>1, <2>1, <2>4, <2>5 DEF Begin, TypeOK, agentVars, ghostVars
<1>2. ASSUME NEW r \in Requests, NEW a \in Agents, Step(r, a), UNCHANGED crowd
      PROVE  TypeOK'
  BY <1>2, TypeOKStep
<1>3. ASSUME NEW a \in Agents, BodyEnds(a) \/ BodyDies(a) \/ BodyRestarts(a) \/ EnforcerEnds(a),
             UNCHANGED crowd
      PROVE  TypeOK'
  <2>1. CASE BodyEnds(a)
    BY <1>3, <2>1, LifecycleAssumption DEF BodyEnds, TypeOK, Bodies, requestVars, ghostVars
  <2>2. CASE BodyDies(a) \/ BodyRestarts(a)
    BY <1>3, <2>2 DEF BodyDies, BodyRestarts, TypeOK, Bodies, requestVars, ghostVars
  <2>3. CASE EnforcerEnds(a)
    BY <1>3, <2>3, LifecycleAssumption DEF EnforcerEnds, TypeOK, requestVars
  <2>4. QED
    BY <1>3, <2>1, <2>2, <2>3
<1>4. ASSUME GatewayRestarts, UNCHANGED crowd PROVE TypeOK'
  <2>1. <<>> \in Seq(Steps)
    OBVIOUS
  <2>2. QED
    BY <1>4, <2>1, LifecycleAssumption DEF GatewayRestarts, TypeOK, Bodies, Fates
<1>5. ASSUME UNCHANGED vars PROVE TypeOK'
  BY <1>5 DEF vars, agentVars, requestVars, ghostVars, TypeOK
<1>6. QED
  BY <1>1, <1>2, <1>3, <1>4, <1>5 DEF Next

-----------------------------------------------------------------------------
(* The manifests *)

\* A launch past its adoption.
Equipped(s) == Launching(s) /\ ~Has(s, {"adopt"})

\* An agent that was ever booted has a manifest, and no save takes it away.
ManifestsStay ==
    /\ \A a \in Agents : body[a] # "untracked" => phase[a] # "none"
    /\ \A r \in Requests :
          todo[r] # <<>> /\ Head(todo[r])[1] = "keep" /\ dirty[r] => status[r] # "none"
    /\ \A r \in Requests, a \in Agents :
          Works(r, a) /\ Equipped(todo[r]) =>
             /\ phase[a] # "none"
             /\ Head(todo[r])[1] \in {"keep", "refresh"} => status[r] # "none"

LEMMA EquippedTail ==
    ASSUME NEW s, NEW a, Script(s, a), s # <<>>
    PROVE  /\ Head(s)[1] \in LaunchSteps \ {"adopt"} => Equipped(s)
           /\ Equipped(Tail(s)) => Equipped(s) \/ Head(s)[1] = "adopt"
           /\ Equipped(s) => Head(s)[1] \in LaunchSteps \cup {"inspect", "keep"}
           /\ Equipped(Tail(s)) /\ Tail(s) # <<>> /\ Head(Tail(s))[1] \in {"keep", "refresh"}
                 => Head(s)[1] \in {"inspect", "keep"}
<1>1. s \in Seq(Steps)
  BY DEF Script
<1>2. \A kinds : Has(s, kinds) <=> Head(s)[1] \in kinds \/ Has(Tail(s), kinds)
  BY <1>1, HasTail
<1>3. /\ Head(s)[1] \in LaunchSteps => Launching(s)
      /\ Launching(s) => Head(s)[1] \in LaunchSteps \cup {"inspect", "keep"}
      /\ Launching(Tail(s)) => Launching(s) \/ Head(s)[1] = "admit"
  BY LaunchingTail DEF LaunchSteps
<1>4. /\ Head(s)[1] \in LaunchSteps => ~Has(Tail(s), {"adopt"})
      /\ Head(s)[1] = "admit" => Has(Tail(s), {"adopt"})
      /\ Head(s)[1] = "tally" => Has(Tail(s), {"admit"})
  BY HeadOfScript
<1>5. Tail(s) # <<>> => /\ Head(Tail(s))[1] = "keep" => Head(s)[1] \in {"inspect", "tally"}
                        /\ Head(Tail(s))[1] = "refresh" => Head(s)[1] = "keep"
  BY NextOfScript
<1>6. QED
  BY <1>2, <1>3, <1>4, <1>5 DEF Equipped, Launching

\* What Get and Inspect return of an agent with a manifest is a phase.
LEMMA SeenOfManifest ==
    ASSUME TypeOK, NEW a \in Agents
    PROVE  /\ phase[a] # "none" => "none" \notin Seen(a)
           /\ Changes(a) => "none" \notin Seen(a)
BY DEF TypeOK, Seen, Inspected, WasUp, Changes, Bodies

LEMMA ManifestsStayStep ==
    ASSUME TypeOK, ScriptsHold, ManifestsStay, NEW r \in Requests, NEW b \in Agents, Step(r, b)
    PROVE  ManifestsStay'
<1> DEFINE s == todo[r]
<1>1. PICK a \in Agents, t \in Seq(Steps) :
         /\ Works(r, a) /\ Script(s, a) /\ todo' = [todo EXCEPT ![r] = t]
         /\ t = <<>> \/ (Script(t, a) /\ OfOp(op[r], t) /\ Last(t)[2] = a)
         /\ \/ t = Tail(s)
            \/ t = <<>>
            \/ t \in Teardown(b) /\ b = a /\ Head(s)[1] \in LaunchSteps
  BY StepMoves
<1>2. s # <<>>
  BY <1>1 DEF Works
<1>3. \A c \in Agents : Works(r, c) => c = a
  BY <1>1 DEF Works
<1>4. Head(s)[2] = b /\ (Head(s)[1] \notin {"tally", "keep"} => a = b)
  <2>1. Head(s)[2] = b
    BY DEF Step, At, Inspect, CountAgent, Keep, Admit, Adopt, EnsureEnforcer, Fail, Reconcile,
         Boot, Session, StopBody, StopEnforcer, Stopped, Record, Guard, ClearActiveHalt
  <2>2. QED
    BY <1>1, <1>2, <2>1, HeadOfScript
<1>5. Equipped(s) => phase[a] # "none"
  BY <1>1 DEF ManifestsStay
<1>6. todo'[r] = t /\ \A q \in Requests \ {r} : todo'[q] = todo[q]
  BY <1>1 DEF TypeOK
<1>7. /\ Head(s)[1] \in LaunchSteps \ {"adopt"} => Equipped(s)
      /\ Equipped(Tail(s)) => Equipped(s) \/ Head(s)[1] = "adopt"
      /\ Equipped(s) => Head(s)[1] \in LaunchSteps \cup {"inspect", "keep"}
      /\ Equipped(Tail(s)) /\ Tail(s) # <<>> /\ Head(Tail(s))[1] \in {"keep", "refresh"}
            => Head(s)[1] \in {"inspect", "keep"}
  BY <1>1, <1>2, EquippedTail
<1>8. t \in Teardown(b) => ~Equipped(t) /\ (t # <<>> => Head(t)[1] \notin {"keep", "refresh"})
  BY TeardownsAreScripts DEF Equipped
<1>9. ~Equipped(<<>>)
  BY DEF Equipped, Launching, Has, Later
<1> HIDE DEF s
<1>10. \A c \in Agents : phase[c] # "none" => phase'[c] # "none"
  <2>1. CASE Keep(r, b)
    <3>1. dirty[r] /\ Head(s)[1] = "keep" => status[r] # "none"
      BY <1>2 DEF ManifestsStay, s
    <3>2. Head(s)[1] = "refresh" => status[r] # "none"
      BY <1>1, <1>7 DEF ManifestsStay, LaunchSteps, s
    <3>3. \/ Head(s)[1] = "keep" /\ ~At(r, "refresh", b)
          \/ Head(s)[1] = "refresh"
      BY <2>1 DEF Keep, At, s
    <3>4. phase' = [phase EXCEPT ![b] =
                       IF dirty[r] \/ At(r, "refresh", b) THEN status[r] ELSE @]
      BY <2>1 DEF Keep
    <3>5. QED
      BY <3>1, <3>2, <3>3, <3>4 DEF TypeOK
  <2>2. CASE Adopt(r, b) \/ Fail(r, b) \/ Reconcile(r, b) \/ Stopped(r, b)
    BY <2>2 DEF Adopt, Fail, Reconcile, Stopped, TypeOK
  <2>3. QED
    BY <2>1, <2>2 DEF Step, Inspect, CountAgent, Admit, EnsureEnforcer, Boot, Session,
         StopBody, StopEnforcer, Record, Guard, ClearActiveHalt, agentVars
<1>11. \A c \in Agents : body'[c] # "untracked" => body[c] # "untracked" \/ phase[c] # "none"
  <2>1. CASE Boot(r, b)
    <3>1. Head(s)[1] = "boot" /\ a = b
      BY <1>4, <2>1 DEF Boot, At, s
    <3>2. phase[b] # "none"
      BY <1>5, <1>7, <3>1 DEF LaunchSteps
    <3>3. \A c \in Agents \ {b} : body'[c] = body[c]
      BY <2>1 DEF Boot, TypeOK
    <3>4. QED
      BY <3>2, <3>3
  <2>2. CASE StopBody(r, b)
    BY <2>2 DEF StopBody, TypeOK, Alive
  <2>3. QED
    BY <2>1, <2>2 DEF Step, Inspect, CountAgent, Keep, Admit, Adopt, EnsureEnforcer, Fail,
         Reconcile, Session, Stopped, StopEnforcer, Record, Guard, ClearActiveHalt, agentVars
<1>12. \A c \in Agents : body'[c] # "untracked" => phase'[c] # "none"
  BY <1>10, <1>11 DEF ManifestsStay
<1>13. \A q \in Requests \ {r} : status'[q] = status[q] /\ dirty'[q] = dirty[q]
  BY DEF Step, Inspect, CountAgent, GetStatus, Keep, Admit, Adopt, EnsureEnforcer, Fail,
         Reconcile, Boot, Session, StopBody, StopEnforcer, Stopped, Record, Guard,
         ClearActiveHalt, TypeOK
<1>14. Head(s)[1] \notin {"inspect", "tally"} => status'[r] = status[r] /\ dirty'[r] = dirty[r]
  BY DEF Step, At, Inspect, CountAgent, Keep, Admit, Adopt, EnsureEnforcer, Fail,
         Reconcile, Boot, Session, StopBody, StopEnforcer, Stopped, Record, Guard,
         ClearActiveHalt, s
<1>15. Head(s)[1] \in {"inspect", "tally"} =>
          status'[r] \in Seen(b) /\ dirty'[r] = Changes(b)
  BY DEF Step, At, Inspect, CountAgent, GetStatus, Keep, Admit, Adopt, EnsureEnforcer, Fail,
         Reconcile, Boot, Session, StopBody, StopEnforcer, Stopped, Record, Guard,
         ClearActiveHalt, TypeOK, s
<1>16. ASSUME NEW q \in Requests, todo'[q] # <<>>, Head(todo'[q])[1] = "keep", dirty'[q]
       PROVE  status'[q] # "none"
  <2>1. CASE q # r
    BY <1>6, <1>13, <1>16, <2>1 DEF ManifestsStay
  <2>2. CASE q = r
    <3>1. t = Tail(s) /\ t # <<>> /\ Head(t)[1] = "keep"
      BY <1>1, <1>6, <1>8, <1>16, <2>2
    <3>2. Head(s)[1] \in {"inspect", "tally"}
      BY <1>1, <1>2, <3>1, NextOfScript
    <3>3. QED
      BY <1>15, <1>16, <2>2, <3>2, SeenOfManifest
  <2>3. QED
    BY <2>1, <2>2
<1>17. ASSUME NEW q \in Requests, NEW c \in Agents, Works(q, c)', Equipped(todo'[q])
       PROVE  /\ phase'[c] # "none"
              /\ Head(todo'[q])[1] \in {"keep", "refresh"} => status'[q] # "none"
  <2>1. CASE q # r
    <3>1. Works(q, c) /\ todo'[q] = todo[q] /\ status'[q] = status[q]
      BY <1>6, <1>13, <1>17, <2>1 DEF Works
    <3>2. QED
      BY <1>10, <1>17, <3>1 DEF ManifestsStay
  <2>2. CASE q = r
    <3>1. t # <<>> /\ t = Tail(s) /\ c = a /\ Equipped(t)
      BY <1>1, <1>6, <1>8, <1>9, <1>17, <2>2 DEF Works
    <3>2. CASE Head(s)[1] = "adopt"
      <4>1. Adopt(r, b) /\ a = b
        BY <1>4, <3>2 DEF Step, At, Inspect, CountAgent, Keep, Admit, EnsureEnforcer, Fail,
             Reconcile, Boot, Session, StopBody, StopEnforcer, Stopped, Record, Guard,
             ClearActiveHalt, s
      <4>2. phase'[a] # "none"
        BY <4>1 DEF Adopt, TypeOK
      <4>3. Head(t)[1] \notin {"keep", "refresh"}
        BY <1>1, <1>2, <3>1, <3>2, NextOfScript
      <4>4. QED
        BY <1>6, <2>2, <3>1, <4>2, <4>3
    <3>3. CASE Head(s)[1] # "adopt"
      <4>1. Equipped(s) /\ phase[a] # "none"
        BY <1>5, <1>7, <3>1, <3>3
      <4>2. ASSUME Head(t)[1] \in {"keep", "refresh"} PROVE status'[r] # "none"
        <5>1. Head(s)[1] \in {"inspect", "keep"}
          BY <1>7, <3>1, <4>2
        <5>2. CASE Head(s)[1] = "inspect"
          BY <1>4, <1>15, <4>1, <5>2, SeenOfManifest
        <5>3. CASE Head(s)[1] = "keep"
          BY <1>1, <1>14, <4>1, <5>3 DEF ManifestsStay, s
        <5>4. QED
          BY <5>1, <5>2, <5>3
      <4>3. QED
        BY <1>6, <1>10, <2>2, <3>1, <4>1, <4>2
    <3>4. QED
      BY <3>2, <3>3
  <2>3. QED
    BY <2>1, <2>2
<1>18. QED
  BY <1>12, <1>16, <1>17 DEF ManifestsStay

LEMMA ManifestsStayInit == Init => ManifestsStay
BY DEF Init, ManifestsStay, Works

LEMMA ManifestsStayNext ==
    ASSUME TypeOK, ScriptsHold, ManifestsStay, [Next]_vars
    PROVE  ManifestsStay'
<1>1. ASSUME NEW r \in Requests, NEW o \in Ops, NEW b \in Agents, Begin(r, o, b)
      PROVE  ManifestsStay'
  <2>1. /\ todo'[r] = Program(o, b) /\ \A q \in Requests \ {r} : todo'[q] = todo[q]
        /\ UNCHANGED <<phase, body, status, dirty>>
    BY <1>1 DEF Begin, TypeOK, agentVars
  <2>2. /\ ~Equipped(Program(o, b))
        /\ Head(Program(o, b))[1] # "keep"
    BY ProgramsAreScripts DEF Equipped
  <2>3. QED
    BY <2>1, <2>2 DEF ManifestsStay, Works
<1>2. ASSUME NEW r \in Requests, NEW a \in Agents, Step(r, a)
      PROVE  ManifestsStay'
  BY <1>2, ManifestsStayStep
<1>3. ASSUME NEW a \in Agents, BodyEnds(a) \/ BodyDies(a) \/ BodyRestarts(a) \/ EnforcerEnds(a)
      PROVE  ManifestsStay'
  <2>1. UNCHANGED <<phase, todo, status, dirty>>
    BY <1>3 DEF BodyEnds, BodyDies, BodyRestarts, EnforcerEnds, requestVars
  <2>2. \A c \in Agents : body'[c] # "untracked" => body[c] # "untracked"
    BY <1>3 DEF BodyEnds, BodyDies, BodyRestarts, EnforcerEnds, TypeOK
  <2>3. QED
    BY <2>1, <2>2 DEF ManifestsStay, Works
<1>4. ASSUME GatewayRestarts PROVE ManifestsStay'
  <2>1. \A c \in Agents : body'[c] # "untracked" => body[c] # "untracked"
    BY <1>4 DEF GatewayRestarts, Up
  <2>2. \A r \in Requests : todo'[r] = <<>>
    BY <1>4 DEF GatewayRestarts
  <2>3. phase' = phase
    BY <1>4 DEF GatewayRestarts
  <2>4. QED
    BY <2>1, <2>2, <2>3 DEF ManifestsStay, Works
<1>5. ASSUME UNCHANGED vars PROVE ManifestsStay'
  BY <1>5 DEF vars, agentVars, requestVars, ManifestsStay, Works
<1>6. QED
  BY <1>1, <1>2, <1>3, <1>4, <1>5 DEF Next

-----------------------------------------------------------------------------
(* The capacity *)

Crashed == {a \in Agents : body[a] = "crashed"}
Booting == {r \in Requests : Has(todo[r], {"boot"})}

\* Starts are told apart by the order they began in: turn[r] is that of request
\* r, since[a] that of the start that booted a, top the last that booted any.
\* Of the agents that are up a start has passed those it will not count any more,
\* but for those a start that began later brought up, which counted itself.
Passed(r, since, n) ==
    {a \in Agents : a \in Crashed \/ (a \in Up /\ since[a] < n /\ ~Tallies(todo[r], a))}
Older(turn, n) == {r \in Booting : turn[r] < n}
Slack == (crowd - 1) + faults

\* A start has counted who it passed, or was not too early for those before it;
\* once it is admitted there is room for it.
HasRoom(r, turn, since) ==
    LET held == Cardinality(Passed(r, since, turn[r])) + Cardinality(Older(turn, turn[r]))
    IN  IF Has(todo[r], {"admit"}) THEN held <= count[r] + Slack
                                   ELSE held + 1 <= MaxAgents + Slack

\* The last start that booted an agent had room for all there are.
TopHasRoom(turn, top) ==
    IF top = 0 THEN Up \cup Crashed = {}
    ELSE Cardinality(Up \cup Crashed) + Cardinality(Older(turn, top)) <= MaxAgents + Slack

InTurn(turn, since, top) ==
    /\ turn \in [Requests -> 0..begun] /\ since \in [Agents -> 0..begun] /\ top \in 0..begun
    /\ \A a \in Agents : since[a] <= top
    /\ \A r \in Booting : /\ \A q \in Booting : turn[q] = turn[r] => q = r
                          /\ turn[r] # top /\ \A a \in Agents : since[a] # turn[r]

Accounted(turn, since, top) ==
    /\ InTurn(turn, since, top)
    /\ \A r \in Booting : HasRoom(r, turn, since)
    /\ TopHasRoom(turn, top)

CrashesCounted == Cardinality(Crashed) <= faults

Counted ==
    /\ CrashesCounted
    /\ \E turn \in [Requests -> 0..begun], since \in [Agents -> 0..begun], top \in 0..begun :
          Accounted(turn, since, top)

CapacityInv == TypeOK /\ ScriptsHold /\ ManifestsStay /\ Counted

LEMMA SetsAreFinite ==
    ASSUME NEW r, NEW since, NEW turn, NEW n
    PROVE  /\ IsFiniteSet(Up) /\ IsFiniteSet(Crashed) /\ IsFiniteSet(Up \cup Crashed)
           /\ IsFiniteSet(Passed(r, since, n)) /\ IsFiniteSet(Older(turn, n))
           /\ IsFiniteSet(Booting) /\ IsFiniteSet(Starting)
<1>1. IsFiniteSet(Agents) /\ IsFiniteSet(Requests)
  BY LifecycleAssumption
<1>2. /\ Up \subseteq Agents /\ Crashed \subseteq Agents /\ Up \cup Crashed \subseteq Agents
      /\ Passed(r, since, n) \subseteq Agents
      /\ Older(turn, n) \subseteq Requests /\ Booting \subseteq Requests
      /\ Starting \subseteq Requests
  BY DEF Up, Crashed, Passed, Older, Booting, Starting
<1>3. \A S, T : IsFiniteSet(S) /\ T \subseteq S => IsFiniteSet(T)
  BY FS_Subset
<1> HIDE DEF Up, Crashed, Passed, Older, Booting, Starting
<1>4. QED
  BY <1>1, <1>2, <1>3

LEMMA SmallerSet ==
    ASSUME NEW S, NEW T, IsFiniteSet(S), T \subseteq S
    PROVE  IsFiniteSet(T) /\ Cardinality(T) \in Nat /\ Cardinality(S) \in Nat
           /\ Cardinality(T) <= Cardinality(S)
BY FS_Subset, FS_CardinalityType

LEMMA OneMore ==
    ASSUME NEW S, NEW T, NEW x, IsFiniteSet(S), T \subseteq S \cup {x}
    PROVE  IsFiniteSet(T) /\ Cardinality(T) \in Nat /\ Cardinality(S) \in Nat
           /\ Cardinality(T) <= Cardinality(S) + 1
<1>1. IsFiniteSet(S \cup {x}) /\ Cardinality(S \cup {x}) <= Cardinality(S) + 1
      /\ Cardinality(S) \in Nat /\ Cardinality(S \cup {x}) \in Nat
  BY FS_AddElement, FS_CardinalityType
<1>2. QED
  BY <1>1, SmallerSet

LEMMA OneLess ==
    ASSUME NEW S, NEW T, NEW x \in S, IsFiniteSet(S), T \subseteq S \ {x}
    PROVE  Cardinality(T) + 1 <= Cardinality(S) /\ Cardinality(T) \in Nat
           /\ Cardinality(S) \in Nat
<1>1. IsFiniteSet(S \ {x}) /\ Cardinality(S \ {x}) = Cardinality(S) - 1
      /\ Cardinality(S) \in Nat
  BY FS_RemoveElement, FS_CardinalityType
<1>2. QED
  BY <1>1, SmallerSet

LEMMA TalliesTail ==
    ASSUME NEW s \in Seq(Steps), s # <<>>, NEW c
    PROVE  Tallies(s, c) <=> Head(s) = <<"tally", c>> \/ Tallies(Tail(s), c)
<1>1. /\ Len(s) \in Nat /\ Len(s) > 0 /\ Head(s) = s[1] /\ Len(Tail(s)) = Len(s) - 1
      /\ \A i \in 1..Len(Tail(s)) : Tail(s)[i] = s[i + 1]
  BY LenProperties, EmptySeq, HeadTailProperties
<1>2. ASSUME NEW j \in 1..Len(s), s[j] = <<"tally", c>>, j # 1
      PROVE  Tallies(Tail(s), c)
  <2>1. j - 1 \in 1..Len(Tail(s)) /\ Tail(s)[j - 1] = s[j]
    BY <1>1, <1>2
  <2>2. QED
    BY <1>2, <2>1 DEF Tallies
<1>3. ASSUME NEW j \in 1..Len(Tail(s)), Tail(s)[j] = <<"tally", c>>
      PROVE  Tallies(s, c)
  <2>1. j + 1 \in 1..Len(s) /\ s[j + 1] = <<"tally", c>>
    BY <1>1, <1>3
  <2>2. QED
    BY <2>1 DEF Tallies
<1>4. Head(s) = <<"tally", c>> => Tallies(s, c)
  BY <1>1 DEF Tallies
<1>5. QED
  BY <1>1, <1>2, <1>3, <1>4 DEF Tallies

LEMMA SlackIs == ASSUME TypeOK PROVE Slack \in Int /\ Slack = crowd - 1 + faults
BY LifecycleAssumption DEF TypeOK, Slack

\* Room is kept when no more is up, crashed or about to boot than before.
LEMMA RoomKept ==
    ASSUME TypeOK, TypeOK', NEW r \in Requests, NEW turn, NEW since,
           HasRoom(r, turn, since), Slack' >= Slack, count'[r] >= count[r],
           Passed(r, since, turn[r])' \subseteq Passed(r, since, turn[r]),
           Booting' \subseteq Booting,
           Has(todo[r], {"admit"})' <=> Has(todo[r], {"admit"})
    PROVE  HasRoom(r, turn, since)'
<1> DEFINE n == turn[r]
           P == Passed(r, since, n)
           O == Older(turn, n)
<1>1. O' \subseteq O
  BY DEF Older
<1>2. IsFiniteSet(P) /\ IsFiniteSet(O)
  BY SetsAreFinite
<1>3. P' \subseteq P
  OBVIOUS
<1> DEFINE p == Cardinality(P)
           o == Cardinality(O)
           pp == Cardinality(P')
           oo == Cardinality(O')
<1>4. p \in Nat /\ pp \in Nat /\ pp <= p /\ o \in Nat /\ oo \in Nat /\ oo <= o
  <2> HIDE DEF P, O
  <2>1. QED
    BY <1>1, <1>2, <1>3, SmallerSet
<1>5. Slack \in Int /\ Slack' \in Int
  BY LifecycleAssumption DEF TypeOK, Slack
<1>6. count[r] \in Nat /\ count'[r] \in Nat /\ MaxAgents \in Nat
  BY LifecycleAssumption DEF TypeOK
<1>7. IF Has(todo[r], {"admit"}) THEN p + o <= count[r] + Slack
                                 ELSE p + o + 1 <= MaxAgents + Slack
  BY DEF HasRoom
<1>8. IF Has(todo[r], {"admit"}) THEN pp + oo <= count'[r] + Slack'
                                 ELSE pp + oo + 1 <= MaxAgents + Slack'
  BY <1>4, <1>5, <1>6, <1>7
<1>9. QED
  BY <1>8 DEF HasRoom

LEMMA TopKept ==
    ASSUME TypeOK, TypeOK', NEW turn, NEW top, TopHasRoom(turn, top), Slack' >= Slack,
           (Up \cup Crashed)' \subseteq Up \cup Crashed, Booting' \subseteq Booting
    PROVE  TopHasRoom(turn, top)'
<1> DEFINE U == Up \cup Crashed
           O == Older(turn, top)
<1>1. O' \subseteq O /\ U' \subseteq U
  BY DEF Older
<1>2. IsFiniteSet(U) /\ IsFiniteSet(O)
  BY SetsAreFinite
<1> DEFINE u == Cardinality(U)
           o == Cardinality(O)
           uu == Cardinality(U')
           oo == Cardinality(O')
<1>3. u \in Nat /\ uu \in Nat /\ uu <= u /\ o \in Nat /\ oo \in Nat /\ oo <= o
  <2> HIDE DEF U, O
  <2>1. QED
    BY <1>1, <1>2, SmallerSet
<1>4. Slack \in Int /\ Slack' \in Int /\ MaxAgents \in Nat
  BY LifecycleAssumption DEF TypeOK, Slack
<1>5. top # 0 => u + o <= MaxAgents + Slack
  BY DEF TopHasRoom
<1>6. top # 0 => uu + oo <= MaxAgents + Slack'
  BY <1>3, <1>4, <1>5
<1>7. top = 0 => U' = {}
  BY <1>1 DEF TopHasRoom
<1>8. QED
  BY <1>6, <1>7 DEF TopHasRoom

\* A request goes on counting what it has to.
GoesOn(r) ==
    /\ r \in Booting /\ count'[r] >= count[r]
    /\ Has(todo'[r], {"admit"}) <=> Has(todo[r], {"admit"})
    /\ \A a \in Agents : Tallies(todo[r], a) => Tallies(todo'[r], a)

LEMMA AccountKept ==
    ASSUME TypeOK, TypeOK', NEW turn, NEW since, NEW top, Accounted(turn, since, top),
           begun' = begun, Slack' >= Slack, Crashed' \subseteq Crashed,
           Up' \subseteq Up \cup Crashed, Booting' \subseteq Booting,
           \A r \in Booting' : GoesOn(r) \/ HasRoom(r, turn, since)'
    PROVE  Accounted(turn, since, top)'
<1>1. ASSUME NEW r \in Booting', GoesOn(r) PROVE HasRoom(r, turn, since)'
  <2>1. r \in Requests /\ HasRoom(r, turn, since)
    BY <1>1 DEF Accounted, GoesOn, Booting
  <2>2. Passed(r, since, turn[r])' \subseteq Passed(r, since, turn[r])
    BY <1>1 DEF Passed, GoesOn
  <2>3. count'[r] >= count[r] /\ (Has(todo[r], {"admit"})' <=> Has(todo[r], {"admit"}))
    BY <1>1 DEF GoesOn
  <2>4. QED
    BY <2>1, <2>2, <2>3, RoomKept
<1>2. \A r \in Booting' : HasRoom(r, turn, since)'
  BY <1>1
<1>3. InTurn(turn, since, top)'
  BY DEF Accounted, InTurn
<1>4. (Up \cup Crashed)' \subseteq Up \cup Crashed
  OBVIOUS
<1>5. TopHasRoom(turn, top)'
  BY <1>4, TopKept DEF Accounted
<1>6. QED
  BY <1>2, <1>3, <1>5 DEF Accounted

LEMMA CrashesKept ==
    ASSUME TypeOK, TypeOK', CrashesCounted, Crashed' \subseteq Crashed, faults' >= faults
    PROVE  CrashesCounted'
<1>1. Cardinality(Crashed') \in Nat /\ Cardinality(Crashed) \in Nat
      /\ Cardinality(Crashed') <= Cardinality(Crashed)
  BY SetsAreFinite, SmallerSet
<1>2. QED
  BY <1>1, LifecycleAssumption DEF CrashesCounted, TypeOK

LEMMA SlackKept ==
    ASSUME TypeOK, TypeOK', crowd' >= crowd, faults' >= faults
    PROVE  Slack \in Int /\ Slack' \in Int /\ Slack' >= Slack
<1>1. crowd \in Int /\ faults \in Int
  BY LifecycleAssumption DEF TypeOK
<1>2. crowd' \in Int /\ faults' \in Int
  BY LifecycleAssumption DEF TypeOK
<1>3. \A c, f \in Int : (c - 1) + f \in Int
  OBVIOUS
<1>4. (crowd - 1) + faults \in Int /\ (crowd' - 1) + faults' \in Int
  BY <1>1, <1>2, <1>3, Zenon
<1>5. \A c, cc, f, ff \in Int : cc >= c /\ ff >= f => (cc - 1) + ff >= (c - 1) + f
  OBVIOUS
<1>6. (crowd' - 1) + faults' >= (crowd - 1) + faults
  BY <1>1, <1>2, <1>5, Zenon
<1>7. QED
  BY <1>4, <1>6 DEF Slack

LEMMA CountedKept ==
    ASSUME TypeOK, TypeOK', Counted, begun' = begun, crowd' = crowd, faults' >= faults,
           Crashed' \subseteq Crashed, Up' \subseteq Up \cup Crashed,
           \A r \in Booting' : GoesOn(r)
    PROVE  Counted'
<1>1. PICK turn \in [Requests -> 0..begun], since \in [Agents -> 0..begun], top \in 0..begun :
         Accounted(turn, since, top)
  BY DEF Counted
<1>2. Slack' >= Slack
  BY SlackKept DEF TypeOK
<1>3. Booting' \subseteq Booting
  BY DEF GoesOn
<1>4. Accounted(turn, since, top)'
  BY <1>1, <1>2, <1>3, AccountKept
<1>5. CrashesCounted'
  BY CrashesKept DEF Counted
<1>6. QED
  BY <1>1, <1>4, <1>5 DEF Counted

\* A request comes to its next step.
LEMMA NextStepGoesOn ==
    ASSUME ScriptsHold, NEW r \in Requests, NEW a \in Agents, Works(r, a),
           todo'[r] = Tail(todo[r]), Head(todo[r])[1] \notin {"tally", "admit"},
           count'[r] >= count[r], Has(todo'[r], {"boot"})
    PROVE  GoesOn(r)
<1>1. todo[r] # <<>> /\ todo[r] \in Seq(Steps)
  BY DEF ScriptsHold, Works, Script
<1>2. \A kinds : Has(todo[r], kinds) <=> Head(todo[r])[1] \in kinds \/ Has(Tail(todo[r]), kinds)
  BY <1>1, HasTail
<1>3. \A c : Tallies(todo[r], c) <=> Head(todo[r]) = <<"tally", c>> \/ Tallies(Tail(todo[r]), c)
  BY <1>1, TalliesTail
<1>4. \A c : Head(todo[r]) # <<"tally", c>>
  OBVIOUS
<1>5. QED
  BY <1>2, <1>3, <1>4 DEF GoesOn, Booting

LEMMA CountStep ==
    ASSUME TypeOK, TypeOK', ScriptsHold, ManifestsStay, Counted,
           NEW r \in Requests, NEW b \in Agents, CountAgent(r, b), UNCHANGED crowd
    PROVE  Counted'
<1>1. PICK turn \in [Requests -> 0..begun], since \in [Agents -> 0..begun], top \in 0..begun :
         Accounted(turn, since, top)
  BY DEF Counted
<1> DEFINE s == todo[r]
<1>2. /\ s # <<>> /\ Head(s) = <<"tally", b>> /\ todo'[r] = Tail(s)
      /\ UNCHANGED <<body, begun, faults, phase>>
      /\ \A q \in Requests \ {r} : todo'[q] = todo[q] /\ count'[q] = count[q]
  BY DEF CountAgent, GetStatus, At, Advance, TypeOK
<1>3. PICK a \in Agents : Works(r, a) /\ Script(s, a)
  BY <1>2, OwnerOf DEF ScriptsHold
<1>4. Has(s, {"admit"}) /\ Has(Tail(s), {"admit"}) /\ s \in Seq(Steps)
  BY <1>2, <1>3, HeadOfScript, HasTail DEF Script
<1>5. \A c : Tallies(s, c) <=> c = b \/ Tallies(Tail(s), c)
  BY <1>2, <1>4, TalliesTail
<1>6. Has(Tail(s), {"boot"}) => Has(s, {"boot"})
  BY <1>2, <1>4, HasTail
<1>7. /\ count'[r] \in {count[r], count[r] + 1}
      /\ b \in Up => count'[r] = count[r] + 1
  <2>1. PICK x \in Seen(b) :
           count' = [count EXCEPT ![r] = IF x \in {"running", "degraded", "reconciled"}
                                         THEN @ + 1 ELSE @]
    BY DEF CountAgent, GetStatus
  <2>2. b \in Up => x \in {"running", "degraded"}
    BY DEF Up, ManifestsStay, Seen, Inspected
  <2>3. QED
    BY <2>1, <2>2 DEF TypeOK
<1>8. Crashed' = Crashed /\ Up' = Up /\ Slack' = Slack
  BY <1>2 DEF Crashed, Up, Slack
<1>9. Booting' \subseteq Booting
  BY <1>2, <1>6 DEF Booting
<1>10. ASSUME NEW q \in Booting', q # r PROVE GoesOn(q)
  BY <1>2, <1>9, <1>10 DEF GoesOn, Booting, TypeOK
<1>11. ASSUME r \in Booting' PROVE HasRoom(r, turn, since)'
  <2> DEFINE n == turn[r]
             P == Passed(r, since, n)
             O == Older(turn, n)
             p == Cardinality(P)
             o == Cardinality(O)
             pp == Cardinality(P')
             oo == Cardinality(O')
  <2>1. IsFiniteSet(P) /\ IsFiniteSet(O)
    BY SetsAreFinite
  <2>2. O' \subseteq O
    BY <1>9 DEF Older
  <2>3. o \in Nat /\ oo \in Nat /\ oo <= o
    <3> HIDE DEF O
    <3>1. QED
      BY <2>1, <2>2, SmallerSet
  <2>4. P' \subseteq P \cup {b} /\ (b \notin Up => P' \subseteq P)
    BY <1>2, <1>5, <1>8 DEF Passed
  <2>5. p \in Nat /\ pp \in Nat /\ pp <= p + 1 /\ (b \notin Up => pp <= p)
    <3> HIDE DEF P
    <3>1. p \in Nat /\ pp \in Nat /\ pp <= p + 1
      BY <2>1, <2>4, OneMore
    <3>2. b \notin Up => pp <= p
      BY <2>1, <2>4, SmallerSet
    <3>3. QED
      BY <3>1, <3>2
  <2>6. p + o <= count[r] + Slack
    BY <1>1, <1>4, <1>9, <1>11 DEF Accounted, HasRoom
  <2>7. count[r] \in Nat /\ Slack \in Int
    BY LifecycleAssumption DEF TypeOK, Slack
  <2>8. pp + oo <= count'[r] + Slack
    <3>1. CASE b \in Up
      BY <1>7, <2>3, <2>5, <2>6, <2>7, <3>1
    <3>2. CASE b \notin Up
      BY <1>7, <2>3, <2>5, <2>6, <2>7, <3>2
    <3>3. QED
      BY <3>1, <3>2
  <2>9. QED
    BY <1>2, <1>4, <1>8, <2>8 DEF HasRoom
<1>12. Accounted(turn, since, top)'
  <2>1. Slack' >= Slack
    BY <1>2, SlackKept, SMTT(30) DEF TypeOK
  <2>2. \A q \in Booting' : GoesOn(q) \/ HasRoom(q, turn, since)'
    BY <1>10, <1>11
  <2>3. begun' = begun
    BY <1>2
  <2>4. QED
    BY <1>1, <1>8, <1>9, <2>1, <2>2, <2>3, AccountKept
<1>13. CrashesCounted'
  BY <1>2, <1>8 DEF Counted, CrashesCounted
<1>14. QED
  BY <1>1, <1>2, <1>12, <1>13 DEF Counted

LEMMA AdmitStep ==
    ASSUME TypeOK, TypeOK', ScriptsHold, Counted,
           NEW r \in Requests, NEW b \in Agents, Admit(r, b), UNCHANGED crowd
    PROVE  Counted'
<1>1. PICK turn \in [Requests -> 0..begun], since \in [Agents -> 0..begun], top \in 0..begun :
         Accounted(turn, since, top)
  BY DEF Counted
<1> DEFINE s == todo[r]
<1>2. /\ s # <<>> /\ Head(s) = <<"admit", b>>
      /\ UNCHANGED <<body, begun, faults, count>>
      /\ \A q \in Requests \ {r} : todo'[q] = todo[q]
      /\ \/ todo'[r] = Tail(s) /\ count[r] < MaxAgents
         \/ todo'[r] = <<>>
  BY DEF Admit, At, Advance, GiveUp, TypeOK, agentVars
<1>3. PICK a \in Agents : Works(r, a) /\ Script(s, a)
  BY <1>2, OwnerOf DEF ScriptsHold
<1>4. /\ s \in Seq(Steps) /\ Has(s, {"admit"}) /\ ~Has(Tail(s), {"admit"})
      /\ Has(Tail(s), {"boot"}) => Has(s, {"boot"})
  <2>1. s \in Seq(Steps)
    BY <1>3 DEF Script
  <2>2. ~Has(Tail(s), BeforeLaunch)
    BY <1>2, <1>3, HeadOfScript
  <2>3. ~Has(Tail(s), {"admit"})
    BY <2>2 DEF Has, Later, BeforeLaunch
  <2>4. QED
    BY <1>2, <2>1, <2>3, HasTail
<1>5. \A c : Tallies(s, c) => Tallies(Tail(s), c)
  BY <1>2, <1>4, TalliesTail
<1>6. Crashed' = Crashed /\ Up' = Up /\ Slack' = Slack
  BY <1>2 DEF Crashed, Up, Slack
<1>7. Booting' \subseteq Booting
  <2>1. ~Has(<<>>, {"boot"})
    BY DEF Has, Later
  <2>2. ASSUME NEW q \in Booting' PROVE q \in Booting
    <3>1. q \in Requests /\ Has(todo'[q], {"boot"})
      BY DEF Booting
    <3>2. CASE q = r
      BY <1>2, <1>4, <2>1, <3>1, <3>2 DEF Booting
    <3>3. CASE q # r
      BY <1>2, <3>1, <3>3 DEF Booting
    <3>4. QED
      BY <3>2, <3>3
  <2>3. QED
    BY <2>2
<1>8. ASSUME NEW q \in Booting', q # r PROVE GoesOn(q)
  BY <1>2, <1>7, <1>8 DEF GoesOn, Booting, TypeOK
<1>9. ASSUME r \in Booting' PROVE HasRoom(r, turn, since)'
  <2> DEFINE n == turn[r]
             P == Passed(r, since, n)
             O == Older(turn, n)
             p == Cardinality(P)
             o == Cardinality(O)
             pp == Cardinality(P')
             oo == Cardinality(O')
  <2>1. IsFiniteSet(P) /\ IsFiniteSet(O)
    BY SetsAreFinite
  <2>2. todo'[r] = Tail(s) /\ count[r] < MaxAgents
    BY <1>2, <1>9 DEF Booting, Has, Later
  <2>3. O' \subseteq O
    BY <1>7 DEF Older
  <2>4. P' \subseteq P
    BY <1>5, <1>6, <2>2 DEF Passed
  <2>5. p \in Nat /\ pp \in Nat /\ pp <= p /\ o \in Nat /\ oo \in Nat /\ oo <= o
    <3> HIDE DEF P, O
    <3>1. QED
      BY <2>1, <2>3, <2>4, SmallerSet
  <2>6. p + o <= count[r] + Slack
    BY <1>1, <1>4, <1>7, <1>9 DEF Accounted, HasRoom
  <2>7. count[r] \in Nat /\ Slack \in Int /\ MaxAgents \in Nat
    BY LifecycleAssumption DEF TypeOK, Slack
  <2>8. pp + oo + 1 <= MaxAgents + Slack
    BY <2>2, <2>5, <2>6, <2>7
  <2>9. QED
    BY <1>4, <1>6, <2>2, <2>8 DEF HasRoom
<1>10. Accounted(turn, since, top)'
  <2>1. Slack' >= Slack
    BY <1>2, SlackKept, SMTT(30) DEF TypeOK
  <2>2. \A q \in Booting' : GoesOn(q) \/ HasRoom(q, turn, since)'
    BY <1>8, <1>9
  <2>3. begun' = begun
    BY <1>2
  <2>4. QED
    BY <1>1, <1>6, <1>7, <2>1, <2>2, <2>3, AccountKept
<1>11. CrashesCounted'
  BY <1>2, <1>6 DEF Counted, CrashesCounted
<1>12. QED
  BY <1>1, <1>2, <1>10, <1>11 DEF Counted


-----------------------------------------------------------------------------
(* A body comes up *)

\* A start that is about to boot an agent has counted and is admitted.
LEMMA BootingHasRoom ==
    ASSUME ScriptsHold, TypeOK, NEW r \in Requests, NEW b \in Agents, At(r, "boot", b),
           NEW turn, NEW since, NEW top, Accounted(turn, since, top)
    PROVE  /\ r \in Booting /\ ~Has(Tail(todo[r]), {"boot"})
           /\ \A c : ~Tallies(todo[r], c)
           /\ Cardinality(Passed(r, since, turn[r])) + Cardinality(Older(turn, turn[r])) + 1
                 <= MaxAgents + Slack
<1> DEFINE s == todo[r]
<1>1. s # <<>> /\ Head(s) = <<"boot", b>>
  BY DEF At
<1>2. PICK a \in Agents : Works(r, a) /\ Script(s, a)
  BY <1>1, OwnerOf DEF ScriptsHold
<1>3. ~Has(s, BeforeLaunch) /\ ~Has(Tail(s), {"boot"})
  BY <1>1, <1>2, HeadOfScript, LaunchingTail DEF LaunchSteps
<1>4. s \in Seq(Steps)
  BY <1>2 DEF Script
<1>5. Has(s, {"boot"})
  BY <1>1, <1>4, HasTail
<1>6. ~Has(s, {"admit"})
  BY <1>3 DEF Has, Later, BeforeLaunch
<1>7. ASSUME NEW c, Tallies(s, c) PROVE FALSE
  <2>1. PICK j \in 1..Len(s) : s[j] = <<"tally", c>>
    BY <1>7 DEF Tallies
  <2>2. s[j][1] \in BeforeLaunch /\ j \in (0 + 1)..Len(s)
    BY <2>1 DEF BeforeLaunch
  <2>3. QED
    BY <1>3, <2>2 DEF Has, Later
<1>8. r \in Booting
  BY <1>5 DEF Booting
<1>9. HasRoom(r, turn, since)
  BY <1>8 DEF Accounted
<1>10. QED
  BY <1>3, <1>6, <1>7, <1>8, <1>9 DEF HasRoom

LEMMA BootUpStep ==
    ASSUME TypeOK, TypeOK', ScriptsHold, Counted,
           NEW r \in Requests, NEW b \in Agents, At(r, "boot", b), ~Alive(b),
           body' = [body EXCEPT ![b] = "running"], Advance(r),
           UNCHANGED <<count, begun, faults, crowd>>
    PROVE  Counted'
<1>1. PICK turn \in [Requests -> 0..begun], since \in [Agents -> 0..begun], top \in 0..begun :
         Accounted(turn, since, top)
  BY DEF Counted
<1> DEFINE s == todo[r]
           m == turn[r]
           later == [since EXCEPT ![b] = m]
           last == IF top > m THEN top ELSE m
<1>2. /\ r \in Booting /\ ~Has(Tail(s), {"boot"}) /\ \A c : ~Tallies(s, c)
      /\ Cardinality(Passed(r, since, m)) + Cardinality(Older(turn, m)) + 1
            <= MaxAgents + Slack
  BY <1>1, BootingHasRoom
<1>3. todo'[r] = Tail(s) /\ \A q \in Requests \ {r} : todo'[q] = todo[q]
  BY DEF Advance, TypeOK
<1>4. Booting' = Booting \ {r}
  <2>1. ASSUME NEW q \in Requests PROVE q \in Booting' <=> q \in Booting \ {r}
    <3>1. CASE q = r
      BY <1>2, <1>3, <3>1 DEF Booting
    <3>2. CASE q # r
      BY <1>3, <3>2 DEF Booting
    <3>3. QED
      BY <3>1, <3>2
  <2>2. QED
    BY <2>1 DEF Booting
<1>5. b \notin Up /\ Up' = Up \cup {b} /\ Crashed' = Crashed \ {b}
  BY DEF TypeOK, Up, Crashed, Alive
<1>6. Slack' = Slack /\ Slack \in Int /\ MaxAgents \in Nat
  BY SlackKept, LifecycleAssumption DEF Slack, TypeOK
<1>7. begun \in Nat /\ begun' = begun
  BY LifecycleAssumption DEF TypeOK
<1>8. /\ turn \in [Requests -> 0..begun] /\ since \in [Agents -> 0..begun] /\ top \in 0..begun
      /\ \A a \in Agents : since[a] <= top
      /\ \A q \in Booting : /\ \A p \in Booting : turn[p] = turn[q] => p = q
                            /\ turn[q] # top /\ \A a \in Agents : since[a] # turn[q]
  BY <1>1 DEF Accounted, InTurn
<1>9. /\ m \in Int /\ m >= 0 /\ m <= begun /\ top \in Int /\ top >= 0 /\ m # top
      /\ \A a \in Agents : since[a] \in Int /\ later[a] = IF a = b THEN m ELSE since[a]
      /\ \A q \in Requests : turn[q] \in Int
  BY <1>2, <1>7, <1>8
<1>10. later \in [Agents -> 0..begun] /\ last \in 0..begun /\ last \in {top, m}
       /\ last >= top /\ last >= m /\ last # 0
  BY <1>7, <1>8, <1>9
<1>11. InTurn(turn, later, last)'
  <2>1. \A a \in Agents : later[a] <= last
    BY <1>8, <1>9, <1>10
  <2>2. ASSUME NEW q \in Booting'
        PROVE  /\ \A p \in Booting' : turn[p] = turn[q] => p = q
               /\ turn[q] # last /\ \A a \in Agents : later[a] # turn[q]
    <3>1. q \in Booting /\ turn[q] # m
      BY <1>2, <1>4, <1>8
    <3>2. QED
      BY <1>4, <1>8, <1>9, <1>10, <3>1
  <2> HIDE DEF later, last, m
  <2>3. QED
    BY <1>7, <1>8, <1>10, <2>1, <2>2 DEF InTurn
<1>12. ASSUME NEW q \in Booting' PROVE HasRoom(q, turn, later)'
  <2> DEFINE n == turn[q]
             P == Passed(q, since, n)
             O == Older(turn, n)
             PP == Passed(q, later, n)'
             OO == Older(turn, n)'
             p == Cardinality(P)
             o == Cardinality(O)
             pp == Cardinality(PP)
             oo == Cardinality(OO)
  <2>1. q \in Booting /\ q # r /\ q \in Requests /\ todo'[q] = todo[q] /\ n # m
    BY <1>2, <1>3, <1>4, <1>8 DEF Booting
  <2>2. IsFiniteSet(P) /\ IsFiniteSet(O)
    BY SetsAreFinite
  <2>3. PP \subseteq P \cup {b} /\ (m > n => PP \subseteq P)
    BY <1>5, <1>9, <2>1 DEF Passed
  <2>4. OO \subseteq O /\ (m < n => r \in O /\ OO \subseteq O \ {r})
    BY <1>2, <1>4 DEF Older
  <2>5. p \in Nat /\ pp \in Nat /\ pp <= p + 1 /\ (m > n => pp <= p)
    <3> HIDE DEF P, PP
    <3>1. p \in Nat /\ pp \in Nat /\ pp <= p + 1
      BY <2>2, <2>3, OneMore
    <3>2. m > n => pp <= p
      BY <2>2, <2>3, SmallerSet
    <3>3. QED
      BY <3>1, <3>2
  <2>6. o \in Nat /\ oo \in Nat /\ oo <= o /\ (m < n => oo + 1 <= o)
    <3> HIDE DEF O, OO
    <3>1. o \in Nat /\ oo \in Nat /\ oo <= o
      BY <2>2, <2>4, SmallerSet
    <3>2. m < n => oo + 1 <= o
      BY <2>2, <2>4, OneLess
    <3>3. QED
      BY <3>1, <3>2
  <2>7. m < n \/ m > n
    BY <1>9, <2>1
  <2>8. pp + oo <= p + o
    BY <2>5, <2>6, <2>7
  <2>9. count[q] \in Nat /\ count'[q] = count[q]
    BY <2>1 DEF TypeOK
  <2>10. IF Has(todo[q], {"admit"}) THEN p + o <= count[q] + Slack
                                    ELSE p + o + 1 <= MaxAgents + Slack
    BY <1>1, <2>1 DEF Accounted, HasRoom
  <2>11. IF Has(todo[q], {"admit"}) THEN pp + oo <= count[q] + Slack
                                    ELSE pp + oo + 1 <= MaxAgents + Slack
    BY <1>6, <2>5, <2>6, <2>8, <2>9, <2>10
  <2>12. QED
    BY <1>6, <2>1, <2>9, <2>11 DEF HasRoom
<1>13. TopHasRoom(turn, last)'
  <2> DEFINE U == Up \cup Crashed
             UU == (Up \cup Crashed)'
             OO == Older(turn, last)'
             uu == Cardinality(UU)
             oo == Cardinality(OO)
  <2>1. UU \subseteq U \cup {b} /\ IsFiniteSet(U)
    BY <1>5, SetsAreFinite
  <2>2. CASE top > m
    <3> DEFINE O == Older(turn, top)
               u == Cardinality(U)
               o == Cardinality(O)
    <3>1. last = top /\ top # 0
      BY <1>9, <2>2
    <3>2. r \in O /\ OO \subseteq O \ {r} /\ IsFiniteSet(O)
      BY <1>2, <1>4, <1>9, <2>2, <3>1, SetsAreFinite DEF Older
    <3>3. u + o <= MaxAgents + Slack
      BY <1>1, <3>1 DEF Accounted, TopHasRoom
    <3>4. u \in Nat /\ uu \in Nat /\ uu <= u + 1
      <4> HIDE DEF U, UU
      <4>1. QED
        BY <2>1, OneMore
    <3>5. o \in Nat /\ oo \in Nat /\ oo + 1 <= o
      <4> HIDE DEF O, OO
      <4>1. QED
        BY <3>2, OneLess
    <3>6. uu + oo <= MaxAgents + Slack
      BY <1>6, <3>3, <3>4, <3>5
    <3>7. QED
      BY <1>6, <1>10, <3>6 DEF TopHasRoom
  <2>3. CASE ~(top > m)
    <3> DEFINE P == Passed(r, since, m)
               O == Older(turn, m)
               p == Cardinality(P)
               o == Cardinality(O)
    <3>1. last = m /\ \A a \in Agents : since[a] < m
      BY <1>8, <1>9, <2>3
    <3>2. U \subseteq P
      BY <1>2, <3>1 DEF Up, Crashed, Passed
    <3>3. UU \subseteq P \cup {b} /\ OO \subseteq O
      BY <1>4, <2>1, <3>1, <3>2 DEF Older
    <3>4. IsFiniteSet(P) /\ IsFiniteSet(O)
      BY SetsAreFinite
    <3>5. p \in Nat /\ uu \in Nat /\ uu <= p + 1
      <4> HIDE DEF P, UU
      <4>1. QED
        BY <3>3, <3>4, OneMore
    <3>6. o \in Nat /\ oo \in Nat /\ oo <= o
      <4> HIDE DEF O, OO
      <4>1. QED
        BY <3>3, <3>4, SmallerSet
    <3>7. uu + oo <= MaxAgents + Slack
      BY <1>2, <1>6, <3>5, <3>6
    <3>8. QED
      BY <1>6, <1>10, <3>7 DEF TopHasRoom
  <2>4. QED
    BY <2>2, <2>3
<1>14. CrashesCounted'
  <2>1. Crashed' \subseteq Crashed /\ faults' >= faults
    BY <1>5, LifecycleAssumption DEF TypeOK
  <2>2. QED
    BY <2>1, CrashesKept DEF Counted
<1>15. Accounted(turn, later, last)'
  <2> HIDE DEF later, last, m
  <2>1. QED
    BY <1>11, <1>12, <1>13 DEF Accounted
<1>16. later \in [Agents -> 0..begun'] /\ last \in 0..begun' /\ turn \in [Requests -> 0..begun']
  BY <1>7, <1>8, <1>10
<1>17. QED
  <2> HIDE DEF later, last, m
  <2>1. QED
    BY <1>14, <1>15, <1>16 DEF Counted

-----------------------------------------------------------------------------
(* Requests begin, bodies end *)

LEMMA BootingIsStarting ==
    ASSUME TypeOK, ScriptsHold, NEW q \in Booting
    PROVE  q \in Requests /\ todo[q] # <<>> /\ op[q] \in StartOps
<1>1. q \in Requests /\ Has(todo[q], {"boot"})
  BY DEF Booting
<1>2. ~Has(<<>>, {"boot"})
  BY DEF Has, Later
<1>3. todo[q] # <<>>
  BY <1>1, <1>2
<1>4. PICK a \in Agents : Works(q, a)
  BY <1>1, <1>3, OwnerOf
<1>5. QED
  BY <1>1, <1>3, <1>4 DEF ScriptsHold, OfOp

LEMMA BeginMoves ==
    ASSUME TypeOK, ScriptsHold, NEW r \in Requests, NEW o \in Ops, NEW a \in Agents,
           Begin(r, o, a)
    PROVE  /\ \A q \in Requests \ {r} : todo'[q] = todo[q] /\ op'[q] = op[q] /\ count'[q] = count[q]
           /\ todo'[r] = Program(o, a) /\ op'[r] = o /\ count'[r] = 0
           /\ body' = body /\ faults' = faults /\ begun' = begun + 1
           /\ r \notin Booting /\ Booting' \subseteq Booting \cup {r}
           /\ Booting' \subseteq Starting'
<1>1. /\ \A q \in Requests \ {r} : todo'[q] = todo[q] /\ op'[q] = op[q] /\ count'[q] = count[q]
      /\ todo'[r] = Program(o, a) /\ op'[r] = o /\ count'[r] = 0
      /\ body' = body /\ faults' = faults /\ begun' = begun + 1
  BY DEF Begin, TypeOK, agentVars
<1>2. r \notin Booting
  BY BootingIsStarting DEF Begin
<1>3. ASSUME NEW q \in Booting'
      PROVE  (q = r \/ q \in Booting) /\ q \in Starting'
  <2>1. q \in Requests /\ Has(todo'[q], {"boot"})
    BY DEF Booting
  <2>2. CASE q = r
    <3>1. OfOp(o, Program(o, a)) /\ Program(o, a) # <<>>
      BY ProgramsAreScripts
    <3>2. QED
      BY <1>1, <2>1, <2>2, <3>1 DEF OfOp, StartOps, Starting
  <2>3. CASE q # r
    <3>1. q \in Booting
      BY <1>1, <2>1, <2>3 DEF Booting
    <3>2. QED
      BY <1>1, <2>1, <2>3, <3>1, BootingIsStarting DEF StartOps, Starting
  <2>4. QED
    BY <2>2, <2>3
<1>4. QED
  BY <1>1, <1>2, <1>3

LEMMA BeginCounted ==
    ASSUME TypeOK, TypeOK', ScriptsHold, Counted,
           NEW r \in Requests, NEW o \in Ops, NEW a \in Agents, Begin(r, o, a)
    PROVE  Counted'
<1>1. PICK turn \in [Requests -> 0..begun], since \in [Agents -> 0..begun], top \in 0..begun :
         Accounted(turn, since, top)
  BY DEF Counted
<1>k. PICK k \in Int : k = begun + 1
  BY LifecycleAssumption DEF TypeOK
<1> DEFINE turns == [turn EXCEPT ![r] = k]
<1>2. /\ \A q \in Requests \ {r} : todo'[q] = todo[q] /\ op'[q] = op[q] /\ count'[q] = count[q]
      /\ todo'[r] = Program(o, a) /\ op'[r] = o /\ count'[r] = 0
      /\ body' = body /\ faults' = faults /\ begun' = begun + 1
      /\ r \notin Booting /\ Booting' \subseteq Booting \cup {r}
      /\ Booting' \subseteq Starting'
  BY BeginMoves
<1>3. /\ crowd' >= crowd /\ crowd' >= Cardinality(Starting') /\ Cardinality(Starting') \in Nat
      /\ crowd \in Nat /\ crowd' \in Nat
  <2>1. IsFiniteSet(Starting')
    BY LifecycleAssumption, FS_Subset DEF Starting
  <2>2. Cardinality(Starting') \in Nat
    BY <2>1, FS_CardinalityType
  <2>3. crowd' = IF Cardinality(Starting') > crowd THEN Cardinality(Starting') ELSE crowd
    BY DEF Begin
  <2>4. crowd \in Nat /\ crowd' \in Nat
    BY DEF TypeOK
  <2>5. QED
    BY <2>2, <2>3, <2>4
<1>4. Crashed' = Crashed /\ Up' = Up
  BY <1>2 DEF Crashed, Up
<1>5. begun \in Nat /\ begun' = begun + 1 /\ faults \in Nat /\ faults' = faults
  BY <1>2, LifecycleAssumption DEF TypeOK
<1>6. Slack' >= Slack /\ Slack \in Int /\ Slack' \in Int /\ MaxAgents \in Nat
  BY <1>3, <1>5, SlackKept, LifecycleAssumption
<1>7. /\ turn \in [Requests -> 0..begun] /\ since \in [Agents -> 0..begun] /\ top \in 0..begun
      /\ \A c \in Agents : since[c] <= top
      /\ \A q \in Booting : /\ \A p \in Booting : turn[p] = turn[q] => p = q
                            /\ turn[q] # top /\ \A c \in Agents : since[c] # turn[q]
  BY <1>1 DEF Accounted, InTurn
<1>8. /\ turns \in [Requests -> 0..begun'] /\ since \in [Agents -> 0..begun'] /\ top \in 0..begun'
      /\ turns[r] = k /\ \A q \in Requests \ {r} : turns[q] = turn[q]
      /\ \A q \in Requests : turn[q] \in Int /\ turn[q] < k
      /\ top \in Int /\ top < k
      /\ \A c \in Agents : since[c] \in Int /\ since[c] < k
  BY <1>k, <1>5, <1>7
<1>9. \A n \in Int : n < k => Older(turns, n)' \subseteq Older(turn, n)
  BY <1>k, <1>2, <1>5, <1>8 DEF Older, Booting
<1>10. InTurn(turns, since, top)'
  <2>1. ASSUME NEW q \in Booting'
        PROVE  /\ \A p \in Booting' : turns[p] = turns[q] => p = q
               /\ turns[q] # top /\ \A c \in Agents : since[c] # turns[q]
    <3>1. Booting' \subseteq Requests
      BY DEF Booting
    <3> HIDE DEF turns
    <3>2. CASE q = r
      BY <1>2, <1>5, <1>8, <3>1, <3>2
    <3>3. CASE q # r
      BY <1>2, <1>5, <1>7, <1>8, <3>1, <3>3
    <3>4. QED
      BY <3>2, <3>3
  <2> HIDE DEF turns
  <2>2. QED
    BY <1>7, <1>8, <2>1 DEF InTurn
<1>11. ASSUME NEW q \in Booting', q # r PROVE HasRoom(q, turns, since)'
  <2> DEFINE n == turn[q]
             P == Passed(q, since, n)
             O == Older(turn, n)
             PP == Passed(q, since, n)'
             OO == Older(turns, n)'
             p == Cardinality(P)
             ol == Cardinality(O)
             pp == Cardinality(PP)
             oo == Cardinality(OO)
  <2>1. q \in Booting /\ q \in Requests /\ todo'[q] = todo[q] /\ count'[q] = count[q]
        /\ turns[q] = n
    BY <1>2, <1>8, <1>11 DEF Booting
  <2>2. IsFiniteSet(P) /\ IsFiniteSet(O)
    BY SetsAreFinite
  <2>3. PP \subseteq P
    BY <1>4, <2>1 DEF Passed
  <2>4. OO \subseteq O
    BY <1>8, <1>9, <2>1
  <2>5. p \in Nat /\ pp \in Nat /\ pp <= p /\ ol \in Nat /\ oo \in Nat /\ oo <= ol
    <3> HIDE DEF P, O, PP, OO
    <3>1. QED
      BY <2>2, <2>3, <2>4, SmallerSet
  <2>6. count[q] \in Nat
    BY <2>1 DEF TypeOK
  <2>7. IF Has(todo[q], {"admit"}) THEN p + ol <= count[q] + Slack
                                   ELSE p + ol + 1 <= MaxAgents + Slack
    BY <1>1, <2>1 DEF Accounted, HasRoom
  <2>8. IF Has(todo[q], {"admit"}) THEN pp + oo <= count[q] + Slack'
                                   ELSE pp + oo + 1 <= MaxAgents + Slack'
    BY <1>6, <2>5, <2>6, <2>7
  <2> HIDE DEF turns
  <2>9. QED
    BY <2>1, <2>8 DEF HasRoom
<1>12. ASSUME r \in Booting' PROVE HasRoom(r, turns, since)'
  <2> DEFINE n == k
             PP == Passed(r, since, n)'
             OO == Older(turns, n)'
             S == Starting'
             pp == Cardinality(PP)
             oo == Cardinality(OO)
  <2>1. Has(todo'[r], {"admit"}) /\ \A c \in Agents : Tallies(todo'[r], c)
    BY <1>2, <1>12, ProgramsAreScripts DEF Booting
  <2>2. PP \subseteq Crashed
    BY <1>4, <2>1 DEF Passed
  <2>3. pp \in Nat /\ pp <= Cardinality(Crashed) /\ Cardinality(Crashed) \in Nat
    <3> HIDE DEF PP
    <3>1. QED
      BY <2>2, SetsAreFinite, SmallerSet
  <2>4. r \in S /\ OO \subseteq S \ {r} /\ IsFiniteSet(S)
    <3>1. IsFiniteSet(S)
      BY LifecycleAssumption, FS_Subset DEF Starting
    <3>2. ~(n < n)
      BY <1>5
    <3>3. QED
      BY <1>2, <1>8, <1>12, <3>1, <3>2 DEF Older
  <2>5. oo \in Nat /\ oo + 1 <= Cardinality(S)
    <3> HIDE DEF OO, S
    <3>1. QED
      BY <2>4, OneLess
  <2>6. Cardinality(Crashed) <= faults
    BY DEF Counted, CrashesCounted
  <2>7. Slack' = (crowd' - 1) + faults
    BY <1>5 DEF Slack
  <2>8. pp + oo <= 0 + Slack'
    BY <1>3, <1>5, <2>3, <2>5, <2>6, <2>7
  <2> HIDE DEF turns
  <2>9. QED
    BY <1>2, <1>8, <2>1, <2>8 DEF HasRoom
<1>13. TopHasRoom(turns, top)'
  <2> DEFINE U == Up \cup Crashed
             O == Older(turn, top)
             OO == Older(turns, top)'
             u == Cardinality(U)
             ol == Cardinality(O)
             oo == Cardinality(OO)
  <2>1. OO \subseteq O /\ (Up \cup Crashed)' = U
    BY <1>4, <1>8, <1>9
  <2>2. IsFiniteSet(U) /\ IsFiniteSet(O)
    BY SetsAreFinite
  <2>3. u \in Nat /\ ol \in Nat /\ oo \in Nat /\ oo <= ol
    <3> HIDE DEF U, O, OO
    <3>1. QED
      BY <2>1, <2>2, SmallerSet
  <2>4. top # 0 => u + ol <= MaxAgents + Slack
    BY <1>1 DEF Accounted, TopHasRoom
  <2>5. top # 0 => u + oo <= MaxAgents + Slack'
    BY <1>6, <2>3, <2>4
  <2>6. top = 0 => U = {}
    BY <1>1 DEF Accounted, TopHasRoom
  <2> HIDE DEF turns
  <2>7. QED
    BY <2>1, <2>5, <2>6 DEF TopHasRoom
<1>14. CrashesCounted'
  <2>1. Crashed' \subseteq Crashed /\ faults' >= faults
    BY <1>4, <1>5
  <2>2. QED
    BY <2>1, CrashesKept DEF Counted
<1>15. QED
  <2> HIDE DEF turns
  <2>1. Accounted(turns, since, top)'
    BY <1>10, <1>11, <1>12, <1>13 DEF Accounted
  <2>2. QED
    BY <1>8, <1>14, <2>1 DEF Counted

\* A crash gives the capacity back what it keeps from the count.
LEMMA CrashCounted ==
    ASSUME TypeOK, TypeOK', Counted, NEW b \in Agents, body[b] = "running",
           BodyEnds(b), UNCHANGED crowd
    PROVE  Counted'
<1>1. PICK turn \in [Requests -> 0..begun], since \in [Agents -> 0..begun], top \in 0..begun :
         Accounted(turn, since, top)
  BY DEF Counted
<1>2. /\ faults' = faults + 1 /\ body' = [body EXCEPT ![b] = "crashed"]
      /\ UNCHANGED <<todo, count, begun>>
  BY DEF BodyEnds, TypeOK, requestVars
<1>3. Up' = Up \ {b} /\ Crashed' = Crashed \cup {b} /\ b \in Up
  BY <1>2 DEF Up, Crashed, TypeOK
<1>4. (Up \cup Crashed)' = Up \cup Crashed
  BY <1>3
<1>5. Booting' = Booting /\ \A n : Older(turn, n)' = Older(turn, n)
  BY <1>2 DEF Booting, Older
<1>6. Slack \in Int /\ Slack' = Slack + 1 /\ MaxAgents \in Nat
  BY <1>2, LifecycleAssumption DEF TypeOK, Slack
<1>7. ASSUME NEW q \in Booting' PROVE HasRoom(q, turn, since)'
  <2> DEFINE n == turn[q]
             P == Passed(q, since, n)
             PP == Passed(q, since, n)'
             p == Cardinality(P)
             pp == Cardinality(PP)
             o == Cardinality(Older(turn, n))
  <2>1. q \in Booting /\ q \in Requests /\ todo'[q] = todo[q] /\ count'[q] = count[q]
    BY <1>2, <1>5 DEF Booting
  <2>2. PP \subseteq P \cup {b} /\ IsFiniteSet(P)
    BY <1>3, <2>1, SetsAreFinite DEF Passed
  <2>3. p \in Nat /\ pp \in Nat /\ pp <= p + 1
    <3> HIDE DEF P, PP
    <3>1. QED
      BY <2>2, OneMore
  <2>4. o \in Nat /\ count[q] \in Nat
    BY <2>1, SetsAreFinite, FS_CardinalityType DEF TypeOK
  <2>5. IF Has(todo[q], {"admit"}) THEN p + o <= count[q] + Slack
                                   ELSE p + o + 1 <= MaxAgents + Slack
    BY <1>1, <2>1 DEF Accounted, HasRoom
  <2>6. IF Has(todo[q], {"admit"}) THEN pp + o <= count[q] + Slack'
                                   ELSE pp + o + 1 <= MaxAgents + Slack'
    BY <1>6, <2>3, <2>4, <2>5
  <2>7. QED
    BY <1>5, <2>1, <2>6 DEF HasRoom
<1>8. TopHasRoom(turn, top)'
  <2>1. Booting' \subseteq Booting /\ Slack' >= Slack /\ (Up \cup Crashed)' \subseteq Up \cup Crashed
    BY <1>4, <1>5, <1>6
  <2>2. TopHasRoom(turn, top)
    BY <1>1 DEF Accounted
  <2>3. QED
    BY <2>1, <2>2, TopKept
<1>9. InTurn(turn, since, top)'
  <2>1. begun' = begun
    BY <1>2
  <2>2. QED
    BY <1>1, <1>5, <2>1 DEF Accounted, InTurn
<1>10. CrashesCounted'
  <2>1. Cardinality(Crashed') \in Nat /\ Cardinality(Crashed) \in Nat
        /\ Cardinality(Crashed') <= Cardinality(Crashed) + 1
    BY <1>3, SetsAreFinite, OneMore
  <2>2. Cardinality(Crashed) <= faults /\ faults \in Nat
    BY LifecycleAssumption DEF Counted, CrashesCounted, TypeOK
  <2>3. QED
    BY <1>2, <2>1, <2>2 DEF CrashesCounted
<1>11. Accounted(turn, since, top)'
  BY <1>7, <1>8, <1>9 DEF Accounted
<1>12. QED
  BY <1>1, <1>2, <1>10, <1>11 DEF Counted

-----------------------------------------------------------------------------
(* The capacity, step by step *)

\* The other steps bring nothing up and leave the counts alone.
OtherStep(r, b) ==
    /\ Step(r, b)
    /\ Head(todo[r])[1] \notin {"tally", "admit"}
    /\ Up' \subseteq Up \cup Crashed /\ Crashed' \subseteq Crashed
    /\ \A q \in Requests : count'[q] = count[q]

LEMMA OtherStepCounted ==
    ASSUME TypeOK, TypeOK', ScriptsHold, Counted,
           NEW r \in Requests, NEW b \in Agents, OtherStep(r, b), UNCHANGED crowd
    PROVE  Counted'
<1>1. /\ begun' = begun /\ faults' = faults
      /\ \E a \in Agents, t \in Seq(Steps) :
            /\ Works(r, a) /\ Script(todo[r], a)
            /\ todo' = [todo EXCEPT ![r] = t]
            /\ \/ t = Tail(todo[r])
               \/ t = <<>>
               \/ t \in Teardown(b) /\ b = a /\ Head(todo[r])[1] \in LaunchSteps
  <2>1. Step(r, b)
    BY DEF OtherStep
  <2>2. QED
    BY <2>1, StepMoves
<1>2. PICK a \in Agents, t \in Seq(Steps) :
            /\ Works(r, a) /\ Script(todo[r], a)
            /\ todo' = [todo EXCEPT ![r] = t]
            /\ \/ t = Tail(todo[r])
               \/ t = <<>>
               \/ t \in Teardown(b) /\ b = a /\ Head(todo[r])[1] \in LaunchSteps
  BY <1>1
<1>3. todo'[r] = t /\ \A q \in Requests \ {r} : todo'[q] = todo[q]
  BY <1>2 DEF TypeOK
<1>4. \A q \in Requests : count'[q] = count[q] /\ count[q] \in Nat
  BY DEF OtherStep, TypeOK
<1>5. ASSUME NEW q \in Booting' PROVE GoesOn(q)
  <2>1. q \in Requests /\ Has(todo'[q], {"boot"}) /\ count'[q] >= count[q]
    BY <1>4 DEF Booting
  <2>2. CASE q # r
    BY <1>3, <2>1, <2>2 DEF GoesOn, Booting
  <2>3. CASE q = r
    <3>1. ~Has(<<>>, {"boot"})
      BY DEF Has, Later
    <3>2. ASSUME t \in Teardown(b) PROVE ~Has(t, {"boot"})
      <4>1. \A s \in Teardown(b) : ~Has(s, {"boot"})
        BY TeardownsAreScripts
      <4>2. QED
        BY <3>2, <4>1
    <3>3. todo'[r] = Tail(todo[r])
      BY <1>2, <1>3, <2>1, <2>3, <3>1, <3>2
    <3>4. Head(todo[r])[1] \notin {"tally", "admit"}
      BY DEF OtherStep
    <3>5. QED
      BY <1>2, <2>1, <2>3, <3>3, <3>4, NextStepGoesOn
  <2>4. QED
    BY <2>2, <2>3
<1>6. faults' >= faults
  BY <1>1, LifecycleAssumption DEF TypeOK
<1>7. Crashed' \subseteq Crashed /\ Up' \subseteq Up \cup Crashed
  BY DEF OtherStep
<1>8. crowd' = crowd /\ begun' = begun
  BY <1>1
<1>9. QED
  BY <1>5, <1>6, <1>7, <1>8, CountedKept

LEMMA EveryStepCounted ==
    ASSUME TypeOK, TypeOK', ScriptsHold, ManifestsStay, Counted,
           NEW r \in Requests, NEW b \in Agents, Step(r, b), UNCHANGED crowd
    PROVE  Counted'
<1>1. CASE CountAgent(r, b)
  BY <1>1, CountStep
<1>2. CASE Admit(r, b)
  BY <1>2, AdmitStep
<1>3. CASE Boot(r, b)
  <2>1. /\ At(r, "boot", b) /\ UNCHANGED <<count, begun, faults>>
        /\ \/ ~Alive(b) /\ body' = [body EXCEPT ![b] = "running"] /\ Advance(r)
           \/ \E s \in {body[b], Ended(b)} : body' = [body EXCEPT ![b] = s]
    BY <1>3 DEF Boot
  <2>2. CASE ~Alive(b) /\ body' = [body EXCEPT ![b] = "running"] /\ Advance(r)
    BY <2>1, <2>2, BootUpStep
  <2>3. CASE \E s \in {body[b], Ended(b)} : body' = [body EXCEPT ![b] = s]
    <3>1. Up' \subseteq Up \cup Crashed /\ Crashed' \subseteq Crashed
      BY <2>3 DEF TypeOK, Up, Crashed, Ended
    <3>2. OtherStep(r, b)
      BY <2>1, <3>1 DEF At, OtherStep
    <3>3. QED
      BY <3>2, OtherStepCounted
  <2>4. QED
    BY <2>1, <2>2, <2>3
<1>4. CASE Inspect(r, b)
  <2>1. Head(todo[r])[1] = "inspect" /\ body' = body
    BY <1>4 DEF Inspect, At
  <2>2. PICK s \in Seen(b) :
          count' = [count EXCEPT ![r] = IF s \in {"running", "degraded", "reconciled"}
                                        THEN @ + 0 ELSE @]
    BY <1>4 DEF Inspect, GetStatus
  <2>3. \A q \in Requests : count'[q] = count[q]
    BY <2>2 DEF TypeOK
  <2>4. QED
    BY <2>1, <2>3, OtherStepCounted DEF OtherStep, Up, Crashed
<1>5. CASE Keep(r, b) \/ Adopt(r, b) \/ EnsureEnforcer(r, b) \/ Fail(r, b) \/ Reconcile(r, b)
           \/ Session(r, b) \/ StopEnforcer(r, b) \/ Stopped(r, b) \/ Record(r, b)
           \/ Guard(r, b) \/ ClearActiveHalt(r, b)
  <2>1. Head(todo[r])[1] \notin {"tally", "admit"}
    BY <1>5 DEF Keep, Adopt, EnsureEnforcer, Fail, Reconcile, Session, StopEnforcer, Stopped,
                Record, Guard, ClearActiveHalt, At
  <2>2. body' = body /\ count' = count
    BY <1>5 DEF Keep, Adopt, EnsureEnforcer, Fail, Reconcile, Session, StopEnforcer, Stopped,
                Record, Guard, ClearActiveHalt, agentVars
  <2>3. QED
    BY <2>1, <2>2, OtherStepCounted DEF OtherStep, Up, Crashed
<1>6. CASE StopBody(r, b)
  <2>1. Head(todo[r])[1] = "stopBody" /\ count' = count
    BY <1>6 DEF StopBody, At
  <2>2. Up' \subseteq Up \cup Crashed /\ Crashed' \subseteq Crashed
    BY <1>6 DEF StopBody, TypeOK, Up, Crashed, Ended
  <2>3. QED
    BY <2>1, <2>2, OtherStepCounted DEF OtherStep
<1>7. QED
  BY <1>1, <1>2, <1>3, <1>4, <1>5, <1>6 DEF Step

LEMMA CountedInit == Init => Counted
<1> SUFFICES ASSUME Init PROVE Counted
  OBVIOUS
<1>1. Up = {} /\ Crashed = {} /\ Booting = {} /\ faults = 0 /\ begun = 0
  BY DEF Init, Up, Crashed, Booting, Has, Later
<1>2. CrashesCounted
  BY <1>1, FS_EmptySet DEF CrashesCounted
<1> DEFINE turn == [r \in Requests |-> 0]
           since == [a \in Agents |-> 0]
<1>3. turn \in [Requests -> 0..begun] /\ since \in [Agents -> 0..begun] /\ 0 \in 0..begun
  BY <1>1
<1>4. InTurn(turn, since, 0)
  BY <1>1, <1>3 DEF InTurn
<1>5. Accounted(turn, since, 0)
  BY <1>1, <1>4 DEF Accounted, TopHasRoom
<1> HIDE DEF turn, since
<1>6. QED
  BY <1>2, <1>3, <1>5 DEF Counted

LEMMA CountedNext ==
    ASSUME TypeOK, TypeOK', ScriptsHold, ManifestsStay, Counted, [Next]_vars
    PROVE  Counted'
<1>1. ASSUME NEW r \in Requests, NEW o \in Ops, NEW a \in Agents, Begin(r, o, a)
      PROVE  Counted'
  BY <1>1, BeginCounted
<1>2. ASSUME UNCHANGED crowd, NEW r \in Requests, NEW a \in Agents, Step(r, a)
      PROVE  Counted'
  BY <1>2, EveryStepCounted
<1>3. ASSUME UNCHANGED <<begun, crowd, todo, count>>, faults' >= faults,
             Up' \subseteq Up \cup Crashed, Crashed' \subseteq Crashed
      PROVE  Counted'
  <2>1. ASSUME NEW q \in Booting' PROVE GoesOn(q)
    BY <1>3 DEF GoesOn, Booting, TypeOK
  <2>2. QED
    BY <1>3, <2>1, CountedKept
<1>4. ASSUME UNCHANGED crowd, NEW b \in Agents, BodyEnds(b) PROVE Counted'
  <2>1. CASE body[b] = "running"
    BY <1>4, <2>1, CrashCounted
  <2>2. CASE body[b] = "adopted"
    <3>1. UNCHANGED <<begun, crowd, todo, count>> /\ faults' >= faults
      BY <1>4, LifecycleAssumption DEF BodyEnds, requestVars, TypeOK
    <3>2. Up' \subseteq Up \cup Crashed /\ Crashed' \subseteq Crashed
      BY <1>4, <2>2 DEF BodyEnds, Up, Crashed, TypeOK
    <3>3. QED
      BY <1>3, <3>1, <3>2
  <2>3. QED
    BY <1>4, <2>1, <2>2 DEF BodyEnds
<1>5. ASSUME UNCHANGED crowd, NEW b \in Agents, BodyDies(b) \/ BodyRestarts(b) \/ EnforcerEnds(b)
      PROVE  Counted'
  <2>1. UNCHANGED <<begun, crowd, todo, count>> /\ faults' >= faults
    BY <1>5, LifecycleAssumption DEF BodyDies, BodyRestarts, EnforcerEnds, requestVars, TypeOK
  <2>2. Up' \subseteq Up \cup Crashed /\ Crashed' \subseteq Crashed
    BY <1>5 DEF BodyDies, BodyRestarts, EnforcerEnds, Up, Crashed, TypeOK
  <2>3. QED
    BY <1>3, <2>1, <2>2
<1>6. ASSUME UNCHANGED crowd, GatewayRestarts PROVE Counted'
  <2>1. Booting' = {}
    BY <1>6 DEF GatewayRestarts, Booting, Has, Later
  <2>2. Up' \subseteq Up \cup Crashed /\ Crashed' \subseteq Crashed
    BY <1>6 DEF GatewayRestarts, Up, Crashed, TypeOK
  <2>3. begun' = begun /\ crowd' = crowd /\ faults' >= faults
    BY <1>6, LifecycleAssumption DEF GatewayRestarts, TypeOK
  <2>4. QED
    BY <2>1, <2>2, <2>3, CountedKept
<1>7. ASSUME UNCHANGED vars PROVE Counted'
  <2>1. UNCHANGED <<begun, crowd, todo, count, body>> /\ faults' = faults
    BY <1>7 DEF vars, requestVars, agentVars
  <2>2. faults' >= faults
    BY <2>1, LifecycleAssumption DEF TypeOK
  <2>3. Up' = Up /\ Crashed' = Crashed
    BY <2>1 DEF Up, Crashed
  <2>4. QED
    BY <1>3, <2>1, <2>2, <2>3
<1>8. QED
  BY <1>1, <1>2, <1>4, <1>5, <1>6, <1>7 DEF Next

-----------------------------------------------------------------------------
(* Theorems that hold however requests overlap *)

\* Every start that is still to boot has room for the agents it has passed and
\* the starts before it, and the last one that booted had room for all that are
\* up: the argument behind the bound on the capacity.
THEOREM CapacityInvInductive == Spec => []CapacityInv
<1>1. Init => CapacityInv
  BY TypeOKInit, ScriptsHoldInit, ManifestsStayInit, CountedInit DEF CapacityInv
<1>2. CapacityInv /\ [Next]_vars => CapacityInv'
  <2>1. SUFFICES ASSUME CapacityInv, [Next]_vars PROVE CapacityInv'
    OBVIOUS
  <2>2. TypeOK /\ ScriptsHold /\ ManifestsStay /\ Counted
    BY <2>1 DEF CapacityInv
  <2>3. TypeOK'
    BY <2>1, <2>2, TypeOKNext
  <2>4. ScriptsHold'
    BY <2>1, <2>2, ScriptsHoldNext
  <2>5. ManifestsStay'
    BY <2>1, <2>2, ManifestsStayNext
  <2>6. Counted'
    BY <2>1, <2>2, <2>3, CountedNext
  <2>7. QED
    BY <2>3, <2>4, <2>5, <2>6 DEF CapacityInv
<1>3. QED
  BY <1>1, <1>2, PTL DEF Spec

\* Every variable keeps its type: in particular no step leaves a request with
\* something that is not a step of the code of start.go or halt.go.
THEOREM TypesHold == Spec => []TypeOK
<1>1. CapacityInv => TypeOK
  BY DEF CapacityInv
<1>2. QED
  BY <1>1, CapacityInvInductive, PTL

\* What a request has left is the end of one of the programs, or the teardown
\* of a start: a start counts before it is admitted, is admitted before it
\* launches, boots right after its enforcer was ensured, at most once, and
\* nothing but a session ends it (Run, Runtime.Stop, HaltController).
THEOREM RequestsFollowTheirScripts == Spec => []ScriptsHold
<1>1. CapacityInv => ScriptsHold
  BY DEF CapacityInv
<1>2. QED
  BY <1>1, CapacityInvInductive, PTL

\* More agents than capacity.yaml's max_agents are up only by starts that were
\* in flight together, by crashes and by restarts of the gateway, and each
\* accounts for one: however many agents, requests and failing steps there are
\* (checkCapacity, start.go:530-560).
THEOREM CapacityIsBounded == Spec => []CapacityBound
<1>1. ASSUME CapacityInv PROVE CapacityBound
  <2>1. TypeOK /\ Counted
    BY <1>1 DEF CapacityInv
  <2>2. PICK turn \in [Requests -> 0..begun], since \in [Agents -> 0..begun], top \in 0..begun :
           Accounted(turn, since, top)
    BY <2>1 DEF Counted
  <2> DEFINE U == Up \cup Crashed
             O == Older(turn, top)
             u == Cardinality(U)
             o == Cardinality(O)
             up == Cardinality(Up)
  <2>3. up \in Nat /\ u \in Nat /\ o \in Nat /\ up <= u
    <3>1. IsFiniteSet(U) /\ IsFiniteSet(O) /\ Up \subseteq U
      BY SetsAreFinite
    <3>2. o \in Nat
      <4> HIDE DEF O
      <4>1. QED
        BY <3>1, FS_CardinalityType
    <3>3. up \in Nat /\ u \in Nat /\ up <= u
      <4> HIDE DEF U
      <4>1. QED
        BY <3>1, SmallerSet
    <3>4. QED
      BY <3>2, <3>3
  <2>4. crowd \in Nat /\ faults \in Nat /\ MaxAgents \in Nat
    BY <2>1, LifecycleAssumption DEF TypeOK
  <2>5. top # 0 => u + o <= MaxAgents + ((crowd - 1) + faults)
    BY <2>2 DEF Accounted, TopHasRoom, Slack
  <2>6. top = 0 => up = 0
    BY <2>2, FS_EmptySet DEF Accounted, TopHasRoom
  <2>7. crowd > 0 => up <= MaxAgents + (crowd - 1) + faults
    BY <2>3, <2>4, <2>5, <2>6
  <2>8. QED
    BY <2>7 DEF CapacityBound
<1>2. QED
  BY <1>1, CapacityInvInductive, PTL

-----------------------------------------------------------------------------
(* One request at a time *)

TakeTurns ==
    \A a \in Agents, q, r \in Requests :
        Works(q, a) /\ Works(r, a) /\ op[q] # "show" /\ op[r] # "show" => q = r

\* How far a request has come shows in its agent.
Due(r, a) ==
    Works(r, a) /\ op[r] # "show" =>
       /\ Launching(todo[r]) => fate[a] = "starting"
       /\ At(r, "boot", a) => Enforced(a) \/ lost[a]
       /\ At(r, "stopEnforcer", a) \/ At(r, "stopped", a) =>
             /\ body[a] \notin {"running", "crashed"}
             /\ ~bad[r] => ~Alive(a)
       /\ At(r, "stopped", a) => ~Enforced(a)
       /\ At(r, "clear", a) => ~halted[a]

\* What an agent that was stopped, or boots by itself, is.
Sound(a) ==
    /\ fate[a] = "down" => body[a] \in {"untracked", "stopped"} /\ ~Enforced(a)
    /\ body[a] \in {"running", "crashed"} => Enforced(a) \/ lost[a]

\* Who is being started is somebody's work, or torn down by it.
Watches(r, a) ==
    Works(r, a) /\ op[r] # "show" /\ (Launching(todo[r]) \/ TearingDown(todo[r]))
Watched(a) == fate[a] = "starting" => \E r \in Requests : Watches(r, a)

Remembered(a) == halted[a] => marker[a]

TurnsInv ==
    /\ TypeOK /\ ScriptsHold /\ TakeTurns
    /\ \A r \in Requests, a \in Agents : Due(r, a)
    /\ \A a \in Agents : Sound(a) /\ Watched(a) /\ Remembered(a)

SameAgent(c) ==
    /\ body'[c] = body[c] /\ fate'[c] = fate[c] /\ halted'[c] = halted[c]
    /\ lost'[c] = lost[c] /\ marker'[c] = marker[c]
    /\ Enforced(c)' <=> Enforced(c)

\* The steps that read and save, or only record in the manifest.
PassiveSteps == {"tally", "inspect", "keep", "refresh", "adopt", "reconcile", "fail", "guard"}

\* A request's step is about its own agent, and some of them leave that alone.
LEMMA StepTouches ==
    ASSUME TypeOK, TypeOK', ScriptsHold, NEW r \in Requests, NEW b \in Agents, Step(r, b),
           NEW a \in Agents, Works(r, a)
    PROVE  /\ \A c \in Agents : c # a => SameAgent(c)
           /\ \A q \in Requests : q # r => bad'[q] = bad[q]
           /\ Head(todo[r])[1] \in PassiveSteps =>
                 bad'[r] = bad[r] /\ \A c \in Agents : SameAgent(c)
           /\ Head(todo[r])[1] \notin {"tally", "keep"} => b = a
           /\ op[r] = "show" => Head(todo[r])[1] \in PassiveSteps
           /\ todo[r] # <<>> /\ Head(todo[r])[2] = b
<1> DEFINE s == todo[r]
           h == Head(s)[1]
<1>1. Script(s, a) /\ OfOp(op[r], s) /\ s # <<>> /\ s \in Seq(Steps)
  BY DEF ScriptsHold, Works, Script
<1>2. Head(s)[2] = b
  BY DEF Step, Inspect, CountAgent, Keep, Admit, Adopt, EnsureEnforcer, Fail, Reconcile, Boot,
         Session, StopBody, StopEnforcer, Stopped, Record, Guard, ClearActiveHalt, At
<1>3. h \notin {"tally", "keep"} => b = a
  BY <1>1, <1>2, HeadOfScript
<1>4. op[r] = "show" => h \in PassiveSteps
  <2>1. op[r] = "show" => h \notin BeforeLaunch \cup LaunchSteps \cup {"clear"}
    <3>1. op[r] = "show" => ~Has(s, BeforeLaunch \cup LaunchSteps \cup {"clear"})
      BY <1>1 DEF OfOp
    <3>2. QED
      BY <1>1, <3>1, HasTail
  <2>2. Head(s) \in Steps
    BY <1>1, HeadOfScript
  <2>3. QED
    BY <2>1, <2>2 DEF PassiveSteps, BeforeLaunch, LaunchSteps, TeardownSteps, Steps
<1>5. CASE Inspect(r, b) \/ CountAgent(r, b)
  <2>1. UNCHANGED <<body, marker, bad, fate, halted, lost>> /\ h \in {"inspect", "tally"}
    BY <1>5 DEF Inspect, CountAgent, ghostVars, At
  <2>2. \A c \in Agents : Enforced(c)' <=> Enforced(c)
    BY <1>5 DEF Inspect, CountAgent, Found, Enforced, TypeOK
  <2>3. QED
    BY <1>1, <1>2, <1>3, <1>4, <2>1, <2>2 DEF SameAgent, PassiveSteps
<1>6. CASE Keep(r, b) \/ Adopt(r, b) \/ Fail(r, b) \/ Reconcile(r, b) \/ Guard(r, b)
  <2>1. UNCHANGED <<body, marker, bad, fate, halted, lost, enforcer>>
    BY <1>6 DEF Keep, Adopt, Fail, Reconcile, Guard, ghostVars, agentVars
  <2>2. h \in PassiveSteps
    BY <1>6 DEF Keep, Adopt, Fail, Reconcile, Guard, At, PassiveSteps
  <2>3. QED
    BY <1>1, <1>2, <1>3, <1>4, <2>1, <2>2 DEF SameAgent, Enforced
<1>7. CASE Admit(r, b) \/ Session(r, b) \/ Stopped(r, b)
  <2>1. UNCHANGED <<body, marker, lost, enforcer>> /\ h \notin PassiveSteps \cup {"tally", "keep"}
    BY <1>7 DEF Admit, Session, Stopped, At, agentVars, PassiveSteps
  <2>2. \A c \in Agents : c # b => fate'[c] = fate[c] /\ halted'[c] = halted[c]
    BY <1>7 DEF Admit, Session, Stopped, TypeOK
  <2>3. \A q \in Requests : q # r => bad'[q] = bad[q]
    BY <1>7 DEF Admit, Session, Stopped, TypeOK
  <2>4. QED
    BY <1>1, <1>2, <1>3, <1>4, <2>1, <2>2, <2>3 DEF SameAgent, Enforced
<1>8. CASE EnsureEnforcer(r, b) \/ StopEnforcer(r, b)
  <2>1. UNCHANGED <<body, marker, fate, halted>> /\ h \notin PassiveSteps \cup {"tally", "keep"}
    BY <1>8 DEF EnsureEnforcer, StopEnforcer, At, ghostVars, PassiveSteps
  <2>2. \A c \in Agents : c # b => lost'[c] = lost[c] /\ enforcer'[c] = enforcer[c]
    BY <1>8 DEF EnsureEnforcer, Enforce, StopEnforcer, ghostVars, TypeOK
  <2>3. \A q \in Requests : q # r => bad'[q] = bad[q]
    BY <1>8 DEF EnsureEnforcer, StopEnforcer, TypeOK
  <2>4. QED
    BY <1>1, <1>2, <1>3, <1>4, <2>1, <2>2, <2>3 DEF SameAgent, Enforced
<1>9. CASE Boot(r, b) \/ StopBody(r, b)
  <2>1. UNCHANGED <<enforcer, marker, fate, halted, lost>>
        /\ h \notin PassiveSteps \cup {"tally", "keep"}
    BY <1>9 DEF Boot, StopBody, At, ghostVars, PassiveSteps
  <2>2. \A c \in Agents : c # b => body'[c] = body[c]
    BY <1>9 DEF Boot, StopBody, TypeOK
  <2>3. \A q \in Requests : q # r => bad'[q] = bad[q]
    BY <1>9 DEF Boot, StopBody, TypeOK
  <2>4. QED
    BY <1>1, <1>2, <1>3, <1>4, <2>1, <2>2, <2>3 DEF SameAgent, Enforced
<1>10. CASE Record(r, b) \/ ClearActiveHalt(r, b)
  <2>1. UNCHANGED <<body, enforcer, fate, lost, bad>>
        /\ h \notin PassiveSteps \cup {"tally", "keep"}
    BY <1>10 DEF Record, ClearActiveHalt, At, ghostVars, PassiveSteps
  <2>2. \A c \in Agents : c # b => halted'[c] = halted[c] /\ marker'[c] = marker[c]
    BY <1>10 DEF Record, ClearActiveHalt, ghostVars, TypeOK
  <2>3. QED
    BY <1>1, <1>2, <1>3, <1>4, <2>1, <2>2 DEF SameAgent, Enforced
<1>11. QED
  BY <1>5, <1>6, <1>7, <1>8, <1>9, <1>10 DEF Step

LEMMA TearingDownTail ==
    ASSUME NEW s \in Seq(Steps), TearingDown(s), Head(s)[1] # "stopped"
    PROVE  /\ Tail(s) # <<>> /\ TearingDown(Tail(s))
           /\ Head(s)[1] \in TeardownSteps
<1>1. /\ s # <<>> /\ Len(s) \in Nat /\ Len(s) > 0 /\ Head(s) = s[1] /\ s[Len(s)][1] = "stopped"
      /\ \A k \in 1..Len(s) : s[k][1] \in TeardownSteps
  BY LenProperties, EmptySeq DEF TearingDown
<1>2. /\ Tail(s) \in Seq(Steps) /\ Len(Tail(s)) = Len(s) - 1
      /\ \A i \in 1..Len(Tail(s)) : Tail(s)[i] = s[i + 1]
  BY <1>1, HeadTailProperties
<1>3. Len(s) # 1
  BY <1>1
<1>4. Len(Tail(s)) > 0 /\ Len(Tail(s)) \in Nat
  BY <1>1, <1>2, <1>3
<1>5. Tail(s) # <<>>
  <2>1. Len(Tail(s)) # 0
    BY <1>1, <1>2, <1>3
  <2>2. QED
    BY <1>2, <2>1, EmptySeq, Zenon
<1>6. Tail(s)[Len(Tail(s))] = s[Len(s)]
  BY <1>1, <1>2, <1>4
<1>7. \A k \in 1..Len(Tail(s)) : Tail(s)[k][1] \in TeardownSteps
  BY <1>1, <1>2
<1>8. Head(s)[1] \in TeardownSteps
  BY <1>1
<1>9. QED
  BY <1>1, <1>5, <1>6, <1>7, <1>8 DEF TearingDown

\* What a request's step says of the one that comes next.
LEMMA ProgressOf ==
    ASSUME TypeOK, TypeOK', ScriptsHold, ScriptsHold', NEW r \in Requests, NEW b \in Agents,
           Step(r, b), NEW a \in Agents, Works(r, a)
    PROVE  LET s == todo[r]
               t == todo'[r]
               h == Head(s)[1]
           IN  /\ op' = op /\ \A q \in Requests : q # r => todo'[q] = todo[q]
               /\ t # <<>> => Works(r, a)'
               /\ h \in LaunchSteps => Launching(s)
               /\ Launching(t) => (Launching(s) \/ h = "admit") /\ h # "session"
               /\ Launching(s) => h \in LaunchSteps \cup {"inspect", "keep"}
               /\ At(r, "boot", a)' => h = "enforce" /\ t = Tail(s)
               /\ At(r, "stopEnforcer", a)' => h = "stopBody"
               /\ At(r, "stopped", a)' => h = "stopEnforcer"
               /\ At(r, "clear", a)' => h = "session"
               /\ Watches(r, a) /\ h \notin {"session", "stopped"} => Watches(r, a)'
               /\ h = "admit" /\ t = Tail(s) => Watches(r, a)'
<1> DEFINE s == todo[r]
           t == todo'[r]
           h == Head(s)[1]
<1>1. /\ Script(s, a) /\ OfOp(op[r], s) /\ s # <<>> /\ s \in Seq(Steps)
      /\ op' = op /\ \A q \in Requests : q # r => todo'[q] = todo[q]
  <2>1. Script(s, a) /\ OfOp(op[r], s) /\ s # <<>> /\ s \in Seq(Steps)
    BY DEF ScriptsHold, Works, Script
  <2>2. op' = op /\ \E c \in Agents, u \in Seq(Steps) : todo' = [todo EXCEPT ![r] = u]
    BY StepMoves
  <2>3. \A q \in Requests : q # r => todo'[q] = todo[q]
    BY <2>2 DEF TypeOK
  <2>4. QED
    BY <2>1, <2>2, <2>3
<1>2. PICK c \in Agents, u \in Seq(Steps) :
        /\ Works(r, c) /\ todo' = [todo EXCEPT ![r] = u]
        /\ u = <<>> \/ Last(u)[2] = c
        /\ \/ u = Tail(s)
           \/ u = <<>>
           \/ u \in Teardown(b) /\ b = c /\ h \in LaunchSteps
  BY StepMoves
<1>3. c = a /\ t = u
  BY <1>2 DEF Works, TypeOK
<1>4. t # <<>> => Works(r, a)'
  BY <1>2, <1>3 DEF Works
<1>5. \/ t = Tail(s)
      \/ t = <<>> /\ h \in {"admit", "guard", "stopped"}
      \/ t \in Teardown(a) /\ h \in LaunchSteps
  <2>1. \/ todo' = [todo EXCEPT ![r] = Tail(@)]
        \/ h \in {"admit", "guard", "stopped"}
        \/ \E first \in {<<>>, <<"fail">>} : todo' = [todo EXCEPT ![r] = For(b, first) \o Stop(b)]
    <3>1. CASE EnsureEnforcer(r, b) \/ Reconcile(r, b) \/ Boot(r, b) \/ Session(r, b)
      <4>1. Advance(r) \/ failClosed(r, b, <<>>) \/ failClosed(r, b, <<"fail">>)
        BY <3>1 DEF EnsureEnforcer, Reconcile, Boot, Session
      <4>2. QED
        BY <4>1 DEF Advance, failClosed
    <3>2. CASE Admit(r, b) \/ Guard(r, b) \/ Stopped(r, b)
      BY <3>2 DEF Admit, Guard, Stopped, At
    <3>3. CASE \/ Inspect(r, b) \/ CountAgent(r, b) \/ Keep(r, b) \/ Adopt(r, b) \/ Fail(r, b)
               \/ StopBody(r, b) \/ StopEnforcer(r, b) \/ Record(r, b) \/ ClearActiveHalt(r, b)
      <4>1. Advance(r)
        BY <3>3 DEF Inspect, CountAgent, Keep, Adopt, Fail, StopBody, StopEnforcer, Record,
                    ClearActiveHalt
      <4>2. QED
        BY <4>1 DEF Advance
    <3>4. QED
      BY <3>1, <3>2, <3>3 DEF Step
  <2>2. todo' = [todo EXCEPT ![r] = Tail(@)] => t = Tail(s)
    BY DEF TypeOK
  <2>3. ASSUME NEW first \in {<<>>, <<"fail">>}, todo' = [todo EXCEPT ![r] = For(b, first) \o Stop(b)]
        PROVE  t # <<>>
    <3>1. t \in Teardown(b)
      BY <2>3 DEF TypeOK, Teardown
    <3>2. \A v \in Teardown(b) : v # <<>>
      <4>1. "start" # "show"
        OBVIOUS
      <4>2. QED
        BY <4>1, TeardownsAreScripts
    <3>3. QED
      BY <3>1, <3>2
  <2>4. QED
    BY <1>2, <1>3, <2>1, <2>2, <2>3
<1>6. t \in Teardown(a) => /\ t # <<>> /\ TearingDown(t) /\ ~Launching(t)
                           /\ Head(t)[1] \in {"fail", "stopBody"}
  <2>1. "start" # "show"
    OBVIOUS
  <2>2. \A v \in Teardown(a) : v \in Seq(Steps) =>
            /\ v # <<>> /\ TearingDown(v) /\ ~Launching(v)
            /\ Head(v)[1] \in {"fail", "stopBody"}
    BY <2>1, TeardownsAreScripts
  <2>3. QED
    BY <1>3, <2>2
<1>7. ~Launching(<<>>)
  BY DEF Launching, Has, Later
<1>8. /\ h \in LaunchSteps => Launching(s)
      /\ h = "admit" => Launching(Tail(s))
      /\ Launching(Tail(s)) => Launching(s) \/ h = "admit"
      /\ Launching(s) => h \in LaunchSteps \cup {"inspect", "keep"}
      /\ Launching(s) /\ h # "session" => Launching(Tail(s))
  BY <1>1, LaunchingTail DEF LaunchSteps
<1>9. h = "session" => ~Launching(Tail(s))
  <2>1. h = "session" => ~Has(Tail(s), LaunchSteps \cup {"inspect", "keep"})
    BY <1>1, HeadOfScript
  <2>2. QED
    BY <2>1 DEF Has, Later, Launching, LaunchSteps
<1>10. Launching(t) => (Launching(s) \/ h = "admit") /\ h # "session"
  BY <1>5, <1>6, <1>7, <1>8, <1>9
<1>11. ASSUME NEW x \in {"boot", "stopEnforcer", "stopped", "clear"}, At(r, x, a)'
       PROVE  t = Tail(s) /\ t # <<>> /\ Head(Tail(s))[1] = x
  <2>1. t # <<>> /\ Head(t)[1] = x
    BY <1>11 DEF At
  <2>2. QED
    BY <1>5, <1>6, <2>1
<1>12. /\ At(r, "boot", a)' => h = "enforce" /\ t = Tail(s)
       /\ At(r, "stopEnforcer", a)' => h = "stopBody"
       /\ At(r, "stopped", a)' => h = "stopEnforcer"
       /\ At(r, "clear", a)' => h = "session"
  BY <1>1, <1>11, NextOfScript
<1>13. Launching(t) => t # <<>>
  BY <1>7
<1>14. ASSUME Watches(r, a), h \notin {"session", "stopped"} PROVE Watches(r, a)'
  <2>1. op'[r] # "show" /\ (Launching(s) \/ TearingDown(s))
    BY <1>1, <1>14 DEF Watches
  <2>2. CASE t = Tail(s)
    <3>1. CASE Launching(s)
      BY <1>4, <1>8, <1>13, <1>14, <2>1, <2>2, <3>1 DEF Watches
    <3>2. CASE TearingDown(s)
      <4>1. Tail(s) # <<>> /\ TearingDown(Tail(s))
        BY <1>1, <1>14, <3>2, TearingDownTail
      <4>2. QED
        BY <1>4, <2>1, <2>2, <4>1 DEF Watches
    <3>3. QED
      BY <2>1, <3>1, <3>2
  <2>3. CASE t = <<>> /\ h \in {"admit", "guard", "stopped"}
    <3>1. ~Launching(s)
      BY <1>8, <2>3 DEF LaunchSteps
    <3>2. TearingDown(s) => h \in TeardownSteps
      BY <1>1, <1>14, TearingDownTail
    <3>3. QED
      BY <1>14, <2>1, <2>3, <3>1, <3>2 DEF TeardownSteps
  <2>4. CASE t \in Teardown(a)
    BY <1>4, <1>6, <2>1, <2>4 DEF Watches
  <2>5. QED
    BY <1>5, <2>2, <2>3, <2>4
<1>15. ASSUME h = "admit", t = Tail(s) PROVE Watches(r, a)'
  <2>1. op[r] # "show"
    <3>1. Has(s, BeforeLaunch \cup LaunchSteps \cup {"clear"})
      BY <1>1, <1>15, HasTail DEF BeforeLaunch
    <3>2. QED
      BY <1>1, <3>1 DEF OfOp
  <2>2. QED
    BY <1>1, <1>4, <1>8, <1>13, <1>15, <2>1 DEF Watches
<1>16. QED
  BY <1>1, <1>4, <1>8, <1>10, <1>12, <1>14, <1>15

\* A request that starts or stops an agent comes to its next step.
LEMMA OwnStep ==
    ASSUME TurnsInv, TypeOK', ScriptsHold', NEW r \in Requests, NEW b \in Agents, Step(r, b),
           NEW a \in Agents, Works(r, a), op[r] # "show"
    PROVE  Due(r, a)' /\ Sound(a)' /\ Watched(a)' /\ Remembered(a)'
<1> DEFINE s == todo[r]
           t == todo'[r]
           h == Head(s)[1]
<1>1. /\ TypeOK /\ ScriptsHold /\ TakeTurns
      /\ Due(r, a) /\ Sound(a) /\ Watched(a) /\ Remembered(a)
  BY DEF TurnsInv
<1>2. /\ op' = op /\ \A q \in Requests : q # r => todo'[q] = todo[q]
      /\ t # <<>> => Works(r, a)'
      /\ h \in LaunchSteps => Launching(s)
      /\ Launching(t) => (Launching(s) \/ h = "admit") /\ h # "session"
      /\ Launching(s) => h \in LaunchSteps \cup {"inspect", "keep"}
      /\ At(r, "boot", a)' => h = "enforce" /\ t = Tail(s)
      /\ At(r, "stopEnforcer", a)' => h = "stopBody"
      /\ At(r, "stopped", a)' => h = "stopEnforcer"
      /\ At(r, "clear", a)' => h = "session"
      /\ Watches(r, a) /\ h \notin {"session", "stopped"} => Watches(r, a)'
      /\ h = "admit" /\ t = Tail(s) => Watches(r, a)'
  BY <1>1, ProgressOf
<1>3. /\ h \in PassiveSteps => bad'[r] = bad[r] /\ SameAgent(a)
      /\ h \notin {"tally", "keep"} => b = a
  BY <1>1, StepTouches
<1>4. fate[a] = "starting" => Watches(r, a)
  BY <1>1 DEF Watched, Watches, TakeTurns
<1>5. /\ Launching(s) => fate[a] = "starting"
      /\ At(r, "boot", a) => Enforced(a) \/ lost[a]
      /\ At(r, "stopEnforcer", a) \/ At(r, "stopped", a) =>
            /\ body[a] \notin {"running", "crashed"}
            /\ ~bad[r] => ~Alive(a)
      /\ At(r, "stopped", a) => ~Enforced(a)
      /\ At(r, "clear", a) => ~halted[a]
  BY <1>1 DEF Due
<1>6. /\ fate[a] = "down" => body[a] \in {"untracked", "stopped"} /\ ~Enforced(a)
      /\ body[a] \in {"running", "crashed"} => Enforced(a) \/ lost[a]
      /\ halted[a] => marker[a]
  BY <1>1 DEF Sound, Remembered
<1>7. body[a] \in Bodies /\ fate[a] \in Fates /\ bad[r] \in BOOLEAN
  BY <1>1 DEF TypeOK
<1>8. CASE h \in PassiveSteps
  <2>1. bad'[r] = bad[r] /\ SameAgent(a)
    BY <1>3, <1>8
  <2>2. Due(r, a)'
    <3>1. Launching(t) => fate'[a] = "starting"
      BY <1>2, <1>5, <1>8, <2>1 DEF SameAgent, PassiveSteps
    <3>2. ~At(r, "boot", a)' /\ ~At(r, "stopEnforcer", a)' /\ ~At(r, "stopped", a)'
          /\ ~At(r, "clear", a)'
      BY <1>2, <1>8 DEF PassiveSteps
    <3>3. QED
      BY <3>1, <3>2 DEF Due
  <2>3. Sound(a)' /\ Remembered(a)'
    BY <1>6, <2>1 DEF Sound, Remembered, SameAgent
  <2>4. Watched(a)'
    <3>1. fate'[a] = "starting" => Watches(r, a)'
      BY <1>2, <1>4, <1>8, <2>1 DEF SameAgent, PassiveSteps
    <3>2. QED
      BY <3>1 DEF Watched
  <2>5. QED
    BY <2>2, <2>3, <2>4
<1>9. CASE Admit(r, b)
  <2>1. /\ h = "admit" /\ UNCHANGED <<body, enforcer, marker, halted, lost>> /\ b = a
        /\ \/ t = Tail(s) /\ fate'[a] = "starting"
           \/ t = <<>> /\ fate' = fate
    BY <1>1, <1>3, <1>9 DEF Admit, At, Advance, GiveUp, agentVars, TypeOK
  <2>2. ~Launching(<<>>)
    BY DEF Launching, Has, Later
  <2>3. fate[a] # "starting"
    <3>1. ~Launching(s)
      BY <1>2, <2>1 DEF LaunchSteps
    <3>2. s \in Seq(Steps) /\ (TearingDown(s) => h \in TeardownSteps)
      <4>1. s \in Seq(Steps)
        BY <1>1 DEF TypeOK
      <4>2. QED
        BY <2>1, <4>1, TearingDownTail
    <3>3. QED
      BY <1>4, <2>1, <3>1, <3>2 DEF Watches, TeardownSteps
  <2>4. Due(r, a)'
    <3>1. Launching(t) => fate'[a] = "starting"
      BY <2>1, <2>2
    <3>2. ~At(r, "boot", a)' /\ ~At(r, "stopEnforcer", a)' /\ ~At(r, "stopped", a)'
          /\ ~At(r, "clear", a)'
      BY <1>2, <2>1
    <3>3. QED
      BY <3>1, <3>2 DEF Due
  <2>5. Sound(a)' /\ Remembered(a)'
    BY <1>6, <2>1 DEF Sound, Remembered, Enforced
  <2>6. Watched(a)'
    <3>1. fate'[a] = "starting" => Watches(r, a)'
      BY <1>2, <2>1, <2>3
    <3>2. QED
      BY <3>1 DEF Watched
  <2>7. QED
    BY <2>4, <2>5, <2>6
<1>10. CASE EnsureEnforcer(r, b)
  <2>1. /\ h = "enforce" /\ UNCHANGED <<body, marker, halted, fate>> /\ b = a
        /\ \/ t = Tail(s) /\ Enforced(a)'
           \/ t \in Teardown(a) /\ lost' = lost /\ (Enforced(a) => Enforced(a)')
    <3>1. h = "enforce" /\ UNCHANGED <<body, marker, halted, fate>> /\ b = a
      BY <1>3, <1>10 DEF EnsureEnforcer, At
    <3>2. Enforce(a) => Enforced(a)'
      BY <1>1 DEF Enforce, Enforced, TypeOK
    <3>3. failClosed(r, a, <<"fail">>) => t \in Teardown(a)
      BY <1>1 DEF failClosed, Teardown, TypeOK
    <3>4. Advance(r) => t = Tail(s)
      BY <1>1 DEF Advance, TypeOK
    <3>5. QED
      BY <1>10, <3>1, <3>2, <3>3, <3>4 DEF EnsureEnforcer, Enforced
  <2>2. fate[a] = "starting"
    BY <1>2, <1>5, <2>1 DEF LaunchSteps
  <2>3. ~At(r, "stopEnforcer", a)' /\ ~At(r, "stopped", a)' /\ ~At(r, "clear", a)'
    BY <1>2, <2>1
  <2>4. At(r, "boot", a)' => Enforced(a)'
    <3>1. t \in Teardown(a) => ~At(r, "boot", a)'
      <4>1. "start" # "show"
        OBVIOUS
      <4>2. \A v \in Teardown(a) : Head(v)[1] \in {"fail", "stopBody"}
        BY <4>1, TeardownsAreScripts
      <4>3. QED
        BY <4>2 DEF At
    <3>2. QED
      BY <2>1, <3>1
  <2>5. Due(r, a)'
    BY <2>1, <2>2, <2>3, <2>4 DEF Due
  <2>6. Sound(a)' /\ Remembered(a)'
    BY <1>6, <2>1, <2>2 DEF Sound, Remembered
  <2>7. Watched(a)'
    BY <1>2, <1>4, <2>1, <2>2 DEF Watched
  <2>8. QED
    BY <2>5, <2>6, <2>7
<1>11. CASE Boot(r, b)
  <2>1. /\ h = "boot" /\ UNCHANGED <<enforcer, marker, halted, fate, lost>> /\ b = a
        /\ At(r, "boot", a)
    BY <1>3, <1>11 DEF Boot, At, ghostVars
  <2>2. fate[a] = "starting"
    BY <1>2, <1>5, <2>1 DEF LaunchSteps
  <2>3. ~At(r, "boot", a)' /\ ~At(r, "stopEnforcer", a)' /\ ~At(r, "stopped", a)'
        /\ ~At(r, "clear", a)'
    BY <1>2, <2>1
  <2>4. Due(r, a)'
    BY <2>1, <2>2, <2>3 DEF Due
  <2>5. Enforced(a) \/ lost[a]
    BY <1>5, <2>1
  <2>6. Sound(a)' /\ Remembered(a)'
    BY <1>6, <2>1, <2>2, <2>5 DEF Sound, Remembered, Enforced
  <2>7. Watched(a)'
    BY <1>2, <1>4, <2>1, <2>2 DEF Watched
  <2>8. QED
    BY <2>4, <2>6, <2>7
<1>12. CASE Session(r, b)
  <2>1. /\ h = "session" /\ UNCHANGED <<body, enforcer, marker, lost>> /\ b = a
        /\ \/ fate'[a] = "up" /\ halted'[a] = FALSE
           \/ t \in Teardown(a) /\ UNCHANGED <<fate, halted>>
    <3>1. b = a /\ h = "session"
      BY <1>3, <1>12 DEF Session, At
    <3>2. failClosed(r, a, <<>>) => t \in Teardown(a)
      BY <1>1 DEF failClosed, Teardown, TypeOK
    <3>3. QED
      BY <1>1, <1>12, <3>1, <3>2 DEF Session, agentVars, TypeOK
  <2>2. fate[a] = "starting"
    BY <1>2, <1>5, <2>1 DEF LaunchSteps
  <2>3. /\ ~Launching(t) /\ ~At(r, "boot", a)' /\ ~At(r, "stopEnforcer", a)'
        /\ ~At(r, "stopped", a)'
    BY <1>2, <2>1
  <2>4. t \in Teardown(a) => /\ t # <<>> /\ TearingDown(t) /\ ~At(r, "clear", a)'
    <3>1. "start" # "show"
      OBVIOUS
    <3>2. \A v \in Teardown(a) : v # <<>> /\ TearingDown(v) /\ Head(v)[1] \in {"fail", "stopBody"}
      BY <3>1, TeardownsAreScripts
    <3>3. QED
      BY <3>2 DEF At
  <2>5. At(r, "clear", a)' => ~halted'[a]
    BY <2>1, <2>4
  <2>6. Due(r, a)'
    BY <2>3, <2>5 DEF Due
  <2>7. Sound(a)' /\ Remembered(a)'
    BY <1>6, <2>1, <2>2 DEF Sound, Remembered, Enforced
  <2>8. Watched(a)'
    BY <1>2, <2>1, <2>4 DEF Watched, Watches
  <2>9. QED
    BY <2>6, <2>7, <2>8
<1>13. CASE StopBody(r, b)
  <2>1. /\ h = "stopBody" /\ UNCHANGED <<enforcer, marker, halted, fate, lost>> /\ b = a
        /\ \/ body'[a] = IF body[a] = "untracked" THEN "untracked" ELSE Ended(a)
           \/ Alive(a) /\ bad'[r] = TRUE
              /\ body'[a] = IF body[a] = "adopted" THEN "adopted" ELSE "stopping"
    BY <1>1, <1>3, <1>13 DEF StopBody, At, ghostVars, TypeOK
  <2>2. \/ body'[a] \in {"untracked", "stopped"}
        \/ Alive(a) /\ bad'[r] = TRUE /\ body'[a] \in {"adopted", "stopping"}
    BY <2>1 DEF Ended
  <2>3. ~Launching(t) /\ ~At(r, "boot", a)' /\ ~At(r, "stopped", a)' /\ ~At(r, "clear", a)'
    BY <1>2, <2>1 DEF LaunchSteps
  <2>4. body'[a] \notin {"running", "crashed"} /\ (~bad'[r] => ~Alive(a)')
    BY <2>2 DEF Alive
  <2>5. Due(r, a)'
    BY <2>3, <2>4 DEF Due
  <2>6. Sound(a)' /\ Remembered(a)'
    BY <1>6, <2>1, <2>2 DEF Sound, Remembered, Enforced, Alive
  <2>7. Watched(a)'
    BY <1>2, <1>4, <2>1 DEF Watched
  <2>8. QED
    BY <2>5, <2>6, <2>7
<1>14. CASE StopEnforcer(r, b)
  <2>1. /\ h = "stopEnforcer" /\ UNCHANGED <<body, marker, halted, fate, lost>> /\ b = a
        /\ At(r, "stopEnforcer", a) /\ ~Enforced(a)' /\ (~bad'[r] => ~bad[r])
    BY <1>1, <1>3, <1>14 DEF StopEnforcer, At, ghostVars, TypeOK, Enforced
  <2>2. /\ ~Launching(t) /\ ~At(r, "boot", a)' /\ ~At(r, "stopEnforcer", a)'
        /\ ~At(r, "clear", a)'
    BY <1>2, <2>1 DEF LaunchSteps
  <2>3. body'[a] \notin {"running", "crashed"} /\ (~bad'[r] => ~Alive(a)')
    BY <1>5, <2>1 DEF Alive
  <2>4. Due(r, a)'
    BY <2>1, <2>2, <2>3 DEF Due
  <2>5. Sound(a)' /\ Remembered(a)'
    BY <1>6, <2>1, <2>3 DEF Sound, Remembered
  <2>6. Watched(a)'
    BY <1>2, <1>4, <2>1 DEF Watched
  <2>7. QED
    BY <2>4, <2>5, <2>6
<1>15. CASE Stopped(r, b)
  <2>1. /\ h = "stopped" /\ UNCHANGED <<body, enforcer, marker, halted, lost>> /\ b = a
        /\ At(r, "stopped", a) /\ fate'[a] = IF bad[r] THEN "loose" ELSE "down"
    BY <1>1, <1>3, <1>15 DEF Stopped, At, TypeOK
  <2>2. /\ ~Launching(t) /\ ~At(r, "boot", a)' /\ ~At(r, "stopEnforcer", a)'
        /\ ~At(r, "stopped", a)' /\ ~At(r, "clear", a)'
    BY <1>2, <2>1 DEF LaunchSteps
  <2>3. Due(r, a)'
    BY <2>2 DEF Due
  <2>4. fate'[a] = "down" => body[a] \in {"untracked", "stopped"} /\ ~Enforced(a)
    BY <1>5, <1>7, <2>1 DEF Alive, Bodies
  <2>5. Sound(a)' /\ Remembered(a)'
    BY <1>6, <2>1, <2>4 DEF Sound, Remembered, Enforced
  <2>6. Watched(a)'
    BY <2>1 DEF Watched
  <2>7. QED
    BY <2>3, <2>5, <2>6
<1>16. CASE Record(r, b) \/ ClearActiveHalt(r, b)
  <2>1. /\ h \in {"record", "clear"} /\ UNCHANGED <<body, enforcer, fate, lost>> /\ b = a
        /\ halted'[a] => marker'[a]
    BY <1>1, <1>3, <1>5, <1>16 DEF Record, ClearActiveHalt, At, ghostVars, TypeOK
  <2>2. /\ ~Launching(t) /\ ~At(r, "boot", a)' /\ ~At(r, "stopEnforcer", a)'
        /\ ~At(r, "stopped", a)' /\ ~At(r, "clear", a)'
    BY <1>2, <2>1 DEF LaunchSteps
  <2>3. Due(r, a)'
    BY <2>2 DEF Due
  <2>4. Sound(a)' /\ Remembered(a)'
    BY <1>6, <2>1 DEF Sound, Remembered, Enforced
  <2>5. Watched(a)'
    BY <1>2, <1>4, <2>1 DEF Watched
  <2>6. QED
    BY <2>3, <2>4, <2>5
<1>17. \/ h \in PassiveSteps
       \/ Admit(r, b) \/ EnsureEnforcer(r, b) \/ Boot(r, b) \/ Session(r, b) \/ StopBody(r, b)
       \/ StopEnforcer(r, b) \/ Stopped(r, b) \/ Record(r, b) \/ ClearActiveHalt(r, b)
  BY DEF Step, Inspect, CountAgent, Keep, Adopt, Fail, Reconcile, Guard, At, PassiveSteps
<1>18. QED
  BY <1>8, <1>9, <1>10, <1>11, <1>12, <1>13, <1>14, <1>15, <1>16, <1>17

\* The step of a request leaves the other agents and requests as they were due.
LEMMA StepTurns ==
    ASSUME TurnsInv, TypeOK', ScriptsHold', NEW r \in Requests, NEW b \in Agents, Step(r, b)
    PROVE  TurnsInv'
<1>1. /\ TypeOK /\ ScriptsHold /\ TakeTurns
      /\ \A q \in Requests, c \in Agents : Due(q, c)
      /\ \A c \in Agents : Sound(c) /\ Watched(c) /\ Remembered(c)
  BY DEF TurnsInv
<1>2. PICK a \in Agents : Works(r, a)
  BY <1>1, StepTouches, StepMoves
<1>3. /\ op' = op /\ \A q \in Requests : q # r => todo'[q] = todo[q]
      /\ todo'[r] # <<>> => Works(r, a)'
      /\ Watches(r, a) /\ Head(todo[r])[1] \notin {"session", "stopped"} => Watches(r, a)'
  BY <1>1, <1>2, ProgressOf
<1>4. /\ \A c \in Agents : c # a => SameAgent(c)
      /\ \A q \in Requests : q # r => bad'[q] = bad[q]
      /\ op[r] = "show" => Head(todo[r])[1] \in PassiveSteps /\ \A c \in Agents : SameAgent(c)
  BY <1>1, <1>2, StepTouches
<1>5. \A q \in Requests, c \in Agents : Works(q, c)' => Works(q, c)
  BY <1>2, <1>3 DEF Works
<1>6. TakeTurns'
  BY <1>1, <1>3, <1>5 DEF TakeTurns
<1>7. \A q \in Requests, c \in Agents : q # r => (Works(q, c)' <=> Works(q, c))
  BY <1>3 DEF Works
<1>8. ASSUME NEW q \in Requests, NEW c \in Agents, q # r, SameAgent(c)
      PROVE  Due(q, c)' /\ (Watches(q, c) => Watches(q, c)')
  <2>1. /\ todo'[q] = todo[q] /\ op'[q] = op[q] /\ bad'[q] = bad[q]
        /\ Works(q, c)' <=> Works(q, c)
        /\ Alive(c)' <=> Alive(c)
        /\ \A x : At(q, x, c)' <=> At(q, x, c)
    BY <1>3, <1>4, <1>7, <1>8 DEF SameAgent, Alive, At
  <2>2. Due(q, c)
    BY <1>1
  <2>3. QED
    BY <1>8, <2>1, <2>2 DEF Due, SameAgent, Watches
<1>9. ASSUME NEW c \in Agents, SameAgent(c), c # a \/ op[r] = "show"
      PROVE  Sound(c)' /\ Watched(c)' /\ Remembered(c)'
  <2>1. Sound(c) /\ Watched(c) /\ Remembered(c)
    BY <1>1
  <2>2. Sound(c)' /\ Remembered(c)'
    BY <1>9, <2>1 DEF Sound, Remembered, SameAgent
  <2>3. ASSUME fate'[c] = "starting" PROVE \E q \in Requests : Watches(q, c)'
    <3>1. PICK q \in Requests : Watches(q, c)
      BY <1>9, <2>1, <2>3 DEF Watched, SameAgent
    <3>2. q # r
      BY <1>2, <1>9, <3>1 DEF Watches, Works
    <3>3. QED
      BY <1>8, <1>9, <3>1, <3>2
  <2>4. QED
    BY <2>2, <2>3 DEF Watched
<1>10. CASE op[r] = "show"
  <2>1. \A c \in Agents : SameAgent(c)
    BY <1>4, <1>10
  <2>2. \A c \in Agents : Sound(c)' /\ Watched(c)' /\ Remembered(c)'
    BY <1>9, <1>10, <2>1
  <2>3. ASSUME NEW q \in Requests, NEW c \in Agents PROVE Due(q, c)'
    <3>1. CASE q = r
      BY <1>3, <1>10, <3>1 DEF Due
    <3>2. CASE q # r
      BY <1>8, <2>1, <3>2
    <3>3. QED
      BY <3>1, <3>2
  <2>4. QED
    BY <1>6, <2>2, <2>3 DEF TurnsInv
<1>11. CASE op[r] # "show"
  <2>1. Due(r, a)' /\ Sound(a)' /\ Watched(a)' /\ Remembered(a)'
    BY <1>2, <1>11, OwnStep
  <2>2. ASSUME NEW c \in Agents PROVE Sound(c)' /\ Watched(c)' /\ Remembered(c)'
    <3>1. CASE c = a
      BY <2>1, <3>1
    <3>2. CASE c # a
      BY <1>4, <1>9, <3>2
    <3>3. QED
      BY <3>1, <3>2
  <2>3. ASSUME NEW q \in Requests, NEW c \in Agents PROVE Due(q, c)'
    <3>1. CASE q = r /\ c = a
      BY <2>1, <3>1
    <3>2. CASE q = r /\ c # a
      <4>1. ~Works(r, c)'
        BY <1>2, <1>5, <3>2 DEF Works
      <4>2. QED
        BY <3>2, <4>1 DEF Due
    <3>3. CASE q # r /\ c = a
      <4>1. op'[q] # "show" => ~Works(q, c)'
        BY <1>1, <1>2, <1>3, <1>5, <1>11, <3>3 DEF TakeTurns
      <4>2. QED
        BY <4>1 DEF Due
    <3>4. CASE q # r /\ c # a
      BY <1>4, <1>8, <3>4
    <3>5. QED
      BY <3>1, <3>2, <3>3, <3>4
  <2>4. QED
    BY <1>6, <2>2, <2>3 DEF TurnsInv
<1>12. QED
  BY <1>10, <1>11

\* Requests for one agent take turns: one begins when nobody works on the agent.
LEMMA BeginTurns ==
    ASSUME ~Overlap, TurnsInv, TypeOK', ScriptsHold',
           NEW r \in Requests, NEW o \in Ops, NEW a \in Agents, Begin(r, o, a)
    PROVE  TurnsInv'
<1>1. /\ TypeOK /\ ScriptsHold /\ TakeTurns
      /\ \A q \in Requests, c \in Agents : Due(q, c)
      /\ \A c \in Agents : Sound(c) /\ Watched(c) /\ Remembered(c)
  BY DEF TurnsInv
<1>2. /\ todo[r] = <<>> /\ (o = "show" \/ Quiet(a))
      /\ todo'[r] = Program(o, a) /\ op'[r] = o
      /\ \A q \in Requests : q # r => todo'[q] = todo[q] /\ op'[q] = op[q] /\ bad'[q] = bad[q]
      /\ UNCHANGED <<phase, body, enforcer, stray, marker, fate, halted, lost>>
  BY <1>1 DEF Begin, TypeOK, agentVars, ghostVars
<1>3. /\ Script(Program(o, a), a) /\ Program(o, a) # <<>>
      /\ Head(Program(o, a))[1] \in {"inspect", "stopBody"} /\ ~Launching(Program(o, a))
  BY ProgramsAreScripts
<1>4. Last(Program(o, a))[2] = a
  BY <1>3, HeadOfScript
<1>5. \A c \in Agents : /\ Works(r, c)' => c = a
                        /\ ~Works(r, c)
                        /\ \A q \in Requests : q # r => (Works(q, c)' <=> Works(q, c))
  BY <1>2, <1>4 DEF Works
<1>6. TakeTurns'
  <2>1. ASSUME NEW c \in Agents, NEW p \in Requests, NEW q \in Requests,
               Works(p, c)', Works(q, c)', op'[p] # "show", op'[q] # "show"
        PROVE  p = q
    <3>1. CASE p # r /\ q # r
      BY <1>1, <1>2, <1>5, <2>1, <3>1 DEF TakeTurns
    <3>2. CASE p = r /\ q # r
      BY <1>2, <1>5, <2>1, <3>2 DEF Quiet
    <3>3. CASE p # r /\ q = r
      BY <1>2, <1>5, <2>1, <3>3 DEF Quiet
    <3>4. QED
      BY <3>1, <3>2, <3>3
  <2>2. QED
    BY <2>1 DEF TakeTurns
<1>7. ASSUME NEW q \in Requests, NEW c \in Agents PROVE Due(q, c)'
  <2>1. CASE q = r
    <3>1. ~Launching(todo'[r]) /\ Head(todo'[r])[1] \in {"inspect", "stopBody"}
      BY <1>2, <1>3
    <3>2. \A x \in {"boot", "stopEnforcer", "stopped", "clear"} : ~At(r, x, c)'
      BY <3>1 DEF At
    <3>3. QED
      BY <2>1, <3>1, <3>2 DEF Due
  <2>2. CASE q # r
    <3>1. /\ todo'[q] = todo[q] /\ op'[q] = op[q] /\ bad'[q] = bad[q]
          /\ Works(q, c)' <=> Works(q, c)
          /\ Alive(c)' <=> Alive(c)
          /\ \A x : At(q, x, c)' <=> At(q, x, c)
      BY <1>2, <1>5, <2>2 DEF Alive, At
    <3>2. Due(q, c)
      BY <1>1
    <3>3. QED
      BY <1>2, <3>1, <3>2 DEF Due, Enforced
  <2>3. QED
    BY <2>1, <2>2
<1>8. ASSUME NEW c \in Agents PROVE Sound(c)' /\ Watched(c)' /\ Remembered(c)'
  <2>1. Sound(c) /\ Watched(c) /\ Remembered(c)
    BY <1>1
  <2>2. Sound(c)' /\ Remembered(c)'
    BY <1>2, <2>1 DEF Sound, Remembered, Enforced
  <2>3. ASSUME NEW q \in Requests, Watches(q, c) PROVE Watches(q, c)'
    <3>1. q # r
      BY <1>5, <2>3 DEF Watches
    <3>2. QED
      BY <1>2, <1>5, <2>3, <3>1 DEF Watches
  <2>4. Watched(c)'
    BY <1>2, <2>1, <2>3 DEF Watched
  <2>5. QED
    BY <2>2, <2>4
<1>9. QED
  BY <1>6, <1>7, <1>8 DEF TurnsInv

\* A process of agent b ends or comes back.
LEMMA ProcessTurns ==
    ASSUME TurnsInv, TypeOK', ScriptsHold', NEW b \in Agents,
           BodyEnds(b) \/ BodyDies(b) \/ BodyRestarts(b) \/ EnforcerEnds(b)
    PROVE  TurnsInv'
<1>1. /\ TypeOK /\ ScriptsHold /\ TakeTurns
      /\ \A q \in Requests, c \in Agents : Due(q, c)
      /\ \A c \in Agents : Sound(c) /\ Watched(c) /\ Remembered(c)
  BY DEF TurnsInv
<1>2. UNCHANGED <<op, todo, bad, fate, halted, marker>>
  BY DEF BodyEnds, BodyDies, BodyRestarts, EnforcerEnds, requestVars, ghostVars
<1>3. \A q \in Requests, c \in Agents :
         /\ Works(q, c)' <=> Works(q, c)
         /\ Watches(q, c)' <=> Watches(q, c)
         /\ \A x : At(q, x, c)' <=> At(q, x, c)
  BY <1>2 DEF Works, Watches, At
<1>4. ASSUME NEW c \in Agents
      PROVE  \/ body'[c] = body[c] /\ enforcer'[c] = enforcer[c] /\ lost'[c] = lost[c]
             \/ /\ body[c] \in {"running", "adopted"} /\ body'[c] \in {"crashed", "untracked"}
                /\ body[c] = "adopted" => body'[c] = "untracked"
                /\ enforcer'[c] = enforcer[c] /\ lost'[c] = lost[c]
             \/ /\ body[c] = "stopping" /\ body'[c] = "stopped"
                /\ enforcer'[c] = enforcer[c] /\ lost'[c] = lost[c]
             \/ /\ body[c] = "crashed" /\ body'[c] = "running"
                /\ enforcer'[c] = enforcer[c] /\ lost'[c] = lost[c]
             \/ body'[c] = body[c] /\ enforcer'[c] = "none" /\ lost'[c]
  <2>1. CASE BodyEnds(b)
    BY <1>1, <2>1 DEF BodyEnds, ghostVars, TypeOK
  <2>2. CASE BodyDies(b)
    BY <1>1, <2>2 DEF BodyDies, ghostVars, TypeOK
  <2>3. CASE BodyRestarts(b)
    BY <1>1, <2>3 DEF BodyRestarts, ghostVars, TypeOK
  <2>4. CASE EnforcerEnds(b)
    BY <1>1, <2>4 DEF EnforcerEnds, TypeOK
  <2>5. QED
    BY <2>1, <2>2, <2>3, <2>4
<1>5. ASSUME NEW c \in Agents PROVE Sound(c)'
  BY <1>1, <1>2, <1>4 DEF Sound, Enforced
<1>6. ASSUME NEW q \in Requests, NEW c \in Agents PROVE Due(q, c)'
  <2>1. Due(q, c)
    BY <1>1
  <2>2. /\ Enforced(c) \/ lost[c] => Enforced(c)' \/ lost'[c]
        /\ ~Enforced(c) => ~Enforced(c)'
    BY <1>4 DEF Enforced
  <2>3. body[c] \notin {"running", "crashed"} =>
           /\ body'[c] \notin {"running", "crashed"}
           /\ ~Alive(c) => ~Alive(c)'
    BY <1>4 DEF Alive
  <2>4. QED
    BY <1>2, <1>3, <2>1, <2>2, <2>3 DEF Due
<1>7. \A c \in Agents : Watched(c)' /\ Remembered(c)'
  BY <1>1, <1>2, <1>3 DEF Watched, Remembered
<1>8. TakeTurns'
  BY <1>1, <1>2, <1>3 DEF TakeTurns
<1>9. QED
  BY <1>5, <1>6, <1>7, <1>8 DEF TurnsInv

LEMMA RestartTurns ==
    ASSUME TurnsInv, TypeOK', ScriptsHold', GatewayRestarts
    PROVE  TurnsInv'
<1>1. /\ TypeOK /\ ScriptsHold
      /\ \A c \in Agents : Sound(c) /\ Watched(c) /\ Remembered(c)
  BY DEF TurnsInv
<1>2. \A q \in Requests, c \in Agents : ~Works(q, c)'
  BY DEF GatewayRestarts, Works
<1>3. TakeTurns' /\ \A q \in Requests, c \in Agents : Due(q, c)'
  BY <1>2 DEF TakeTurns, Due
<1>4. ASSUME NEW c \in Agents PROVE Sound(c)' /\ Watched(c)' /\ Remembered(c)'
  <2>1. /\ body'[c] = "untracked" \/ (c \in Up /\ body'[c] = "adopted")
        /\ enforcer'[c] = IF Enforced(c) THEN "filed" ELSE "none"
        /\ fate'[c] = IF Quiet(c) THEN fate[c] ELSE "loose"
        /\ halted' = halted /\ marker' = marker
    BY DEF GatewayRestarts
  <2>2. Sound(c) /\ Watched(c) /\ Remembered(c)
    BY <1>1
  <2>3. Sound(c)'
    BY <2>1, <2>2 DEF Sound, Up, Enforced
  <2>4. fate'[c] # "starting"
    BY <2>1, <2>2 DEF Watched, Watches, Quiet
  <2>5. QED
    BY <2>1, <2>2, <2>3, <2>4 DEF Watched, Remembered
<1>5. QED
  BY <1>3, <1>4 DEF TurnsInv

LEMMA TurnsInvNext ==
    ASSUME ~Overlap, TurnsInv, [Next]_vars
    PROVE  TurnsInv'
<1>1. TypeOK /\ ScriptsHold
  BY DEF TurnsInv
<1>2. TypeOK' /\ ScriptsHold'
  BY <1>1, TypeOKNext, ScriptsHoldNext
<1>3. ASSUME NEW r \in Requests, NEW o \in Ops, NEW a \in Agents, Begin(r, o, a)
      PROVE  TurnsInv'
  BY <1>2, <1>3, BeginTurns
<1>4. ASSUME NEW r \in Requests, NEW a \in Agents, Step(r, a)
      PROVE  TurnsInv'
  BY <1>2, <1>4, StepTurns
<1>5. ASSUME NEW a \in Agents, BodyEnds(a) \/ BodyDies(a) \/ BodyRestarts(a) \/ EnforcerEnds(a)
      PROVE  TurnsInv'
  BY <1>2, <1>5, ProcessTurns
<1>6. CASE GatewayRestarts
  BY <1>2, <1>6, RestartTurns
<1>7. CASE UNCHANGED vars
  <2>1. UNCHANGED <<body, enforcer, marker, op, todo, bad, fate, halted, lost>>
    BY <1>7 DEF vars, agentVars, requestVars, ghostVars
  <2>2. \A q \in Requests, c \in Agents : Due(q, c)'
    BY <2>1 DEF TurnsInv, Due, Works, At, Enforced, Alive
  <2>3. \A c \in Agents : Sound(c)' /\ Watched(c)' /\ Remembered(c)'
    BY <2>1 DEF TurnsInv, Sound, Watched, Watches, Remembered, Works, Enforced
  <2>4. TakeTurns'
    BY <2>1 DEF TurnsInv, TakeTurns, Works
  <2>5. QED
    BY <1>2, <2>2, <2>3, <2>4 DEF TurnsInv
<1>8. QED
  BY <1>3, <1>4, <1>5, <1>6, <1>7 DEF Next

LEMMA TurnsInvInit == Init => TurnsInv
<1> SUFFICES ASSUME Init PROVE TurnsInv
  OBVIOUS
<1>1. TypeOK /\ ScriptsHold
  BY TypeOKInit, ScriptsHoldInit
<1>2. \A q \in Requests, c \in Agents : ~Works(q, c)
  BY DEF Init, Works
<1>3. TakeTurns /\ \A q \in Requests, c \in Agents : Due(q, c)
  BY <1>2 DEF TakeTurns, Due
<1>4. \A c \in Agents : Sound(c) /\ Watched(c) /\ Remembered(c)
  BY DEF Init, Sound, Watched, Remembered, Enforced
<1>5. QED
  BY <1>1, <1>3, <1>4 DEF TurnsInv

-----------------------------------------------------------------------------
(* Theorems about agents whose requests take turns *)

\* While requests for one agent take turns, how far a request has come shows in
\* its agent, an agent that is being started is somebody's work or is torn down,
\* and an agent that was stopped is down.
THEOREM TurnsInvInductive ==
    ASSUME ~Overlap
    PROVE  Spec => []TurnsInv
<1>1. TurnsInv /\ [Next]_vars => TurnsInv'
  BY TurnsInvNext
<1>2. QED
  BY <1>1, TurnsInvInit, PTL DEF Spec

\* Of the processes of an agent that the supervisors know, in memory or by a file,
\* none runs after a Runtime.Stop without an error until a start is admitted,
\* whatever crashes, restarts of the microVM and of the gateway there are (halt.go,
\* runtime_supervisor.go:364-399).  Strays are beyond it: see GatewayRestarts and
\* EnsureEnforcer.
THEOREM StoppedAgentsStayDown ==
    ASSUME ~Overlap
    PROVE  Spec => []StoppedStaysDown
<1>1. ASSUME TurnsInv PROVE StoppedStaysDown
  BY <1>1 DEF TurnsInv, Sound, StoppedStaysDown, Alive
<1>2. QED
  BY <1>1, TurnsInvInductive, PTL

\* What runs while nobody works on an agent came up whole, or was left by a Stop
\* that failed or a gateway that ended (Run's failClosed).
THEOREM StartsLeaveNoParts ==
    ASSUME ~Overlap
    PROVE  Spec => []NothingHalfStarted
<1>1. ASSUME TurnsInv PROVE NothingHalfStarted
  <2>1. ASSUME NEW a \in Agents, Quiet(a), Alive(a) \/ Enforced(a)
        PROVE  fate[a] \in {"up", "loose"}
    <3>1. fate[a] \in Fates /\ Sound(a) /\ Watched(a)
      BY <1>1 DEF TurnsInv, TypeOK
    <3>2. fate[a] # "down"
      BY <2>1, <3>1 DEF Sound, Alive
    <3>3. fate[a] # "starting"
      BY <2>1, <3>1 DEF Watched, Watches, Quiet
    <3>4. QED
      BY <3>1, <3>2, <3>3 DEF Fates
  <2>2. QED
    BY <2>1 DEF NothingHalfStarted
<1>2. QED
  BY <1>1, TurnsInvInductive, PTL

\* A halted agent has its marker until it is up again (Resume clears it last,
\* halt.go:183).
THEOREM HaltsAreRemembered ==
    ASSUME ~Overlap
    PROVE  Spec => []HaltIsRemembered
<1>1. ASSUME TurnsInv PROVE HaltIsRemembered
  BY <1>1 DEF TurnsInv, Remembered, HaltIsRemembered
<1>2. QED
  BY <1>1, TurnsInvInductive, PTL

\* A step that brings a body up finds its enforcer there, unless that ended by
\* itself: a start sequence ensures it right before the boot, and a microVM that
\* the VM supervisor restarts was booted that way (EnsureWorkspace).
THEOREM BodiesComeUpEnforced ==
    ASSUME ~Overlap
    PROVE  Spec => BootsEnforced
<1>1. ASSUME TurnsInv, [Next]_vars, NEW a \in Agents, ~Alive(a), Alive(a)'
      PROVE  Enforced(a) \/ lost[a]
  <2>1. TypeOK /\ ScriptsHold /\ Sound(a) /\ \A r \in Requests : Due(r, a)
    BY <1>1 DEF TurnsInv
  <2>2. body'[a] # body[a]
    BY <1>1 DEF Alive
  <2>3. ASSUME NEW r \in Requests, NEW b \in Agents, Step(r, b)
        PROVE  Enforced(a) \/ lost[a]
    <3>1. Boot(r, b) \/ StopBody(r, b)
      BY <2>2, <2>3 DEF Step, Inspect, CountAgent, Keep, Admit, Adopt, EnsureEnforcer, Fail,
                        Reconcile, Session, StopEnforcer, Stopped, Record, Guard,
                        ClearActiveHalt, agentVars
    <3>2. CASE StopBody(r, b)
      BY <1>1, <2>1, <3>2 DEF StopBody, Alive, Ended, TypeOK
    <3>3. CASE Boot(r, b)
      <4>1. a = b /\ At(r, "boot", a)
        BY <2>1, <2>2, <3>3 DEF Boot, TypeOK
      <4>2. PICK c \in Agents : Works(r, c)
        BY <2>1, <4>1, OwnerOf DEF At
      <4>3. /\ op[r] = "show" => Head(todo[r])[1] \in PassiveSteps
            /\ Head(todo[r])[1] \notin {"tally", "keep"} => b = c
        <5>1. TypeOK'
          BY <1>1, <2>1, TypeOKNext
        <5>2. QED
          BY <2>1, <2>3, <4>2, <5>1, StepTouches
      <4>4. Head(todo[r])[1] = "boot"
        BY <4>1 DEF At
      <4>5. op[r] # "show" /\ Works(r, a)
        BY <4>1, <4>2, <4>3, <4>4 DEF PassiveSteps
      <4>6. QED
        BY <2>1, <4>1, <4>5 DEF Due
    <3>4. QED
      BY <3>1, <3>2, <3>3
  <2>4. ASSUME NEW b \in Agents, BodyRestarts(b) PROVE Enforced(a) \/ lost[a]
    <3>1. body[a] = "crashed"
      BY <2>1, <2>2, <2>4 DEF BodyRestarts, TypeOK
    <3>2. QED
      BY <2>1, <3>1 DEF Sound
  <2>5. ASSUME NEW b \in Agents, BodyEnds(b) \/ BodyDies(b) \/ EnforcerEnds(b) PROVE FALSE
    BY <1>1, <2>1, <2>2, <2>5 DEF BodyEnds, BodyDies, EnforcerEnds, Alive, TypeOK
  <2>6. ~GatewayRestarts
    BY <1>1 DEF GatewayRestarts, Alive, Up
  <2>7. ASSUME NEW r \in Requests, NEW o \in Ops, NEW b \in Agents, Begin(r, o, b) PROVE FALSE
    BY <2>2, <2>7 DEF Begin, agentVars
  <2>8. ~UNCHANGED vars
    BY <2>2 DEF vars, agentVars
  <2>9. QED
    BY <1>1, <2>3, <2>4, <2>5, <2>6, <2>7, <2>8 DEF Next
<1>2. TurnsInv /\ [Next]_vars =>
         [\A a \in Agents : ~Alive(a) /\ Alive(a)' => Enforced(a) \/ lost[a]]_vars
  BY <1>1
<1>3. QED
  BY <1>2, TurnsInvInductive, PTL DEF Spec, BootsEnforced
=============================================================================

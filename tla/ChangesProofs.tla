-------------------------- MODULE ChangesProofs ---------------------------
(***************************************************************************)
(* Theorems of SubagentWorkspaces for any number of agents and any           *)
(* repository, of RepositoryTools for any calls, limits and files, and of    *)
(* the two with the reviews of MCChanges; a person may edit at any time.     *)
(***************************************************************************)
EXTENDS MCChanges, SequenceTheorems, FiniteSetTheorems, WellFoundedInduction, TLAPS

\* Paths are taken in their order: a set that is not empty has a first one.
LEMMA FirstIsIn ==
    ASSUME NEW S \in SUBSET Nat, S # {}
    PROVE First(S) \in S
<1> DEFINE Below(p) == {q \in S : q <= p}
           R == StrictSubsetOrdering(S)
           T == {Below(p) : p \in S}
<1>1. \A p \in S : Below(p) \in SUBSET S /\ IsFiniteSet(Below(p))
  <2>1. TAKE p \in S
  <2>2. IsFiniteSet(0..p)
    BY FS_Interval
  <2>3. Below(p) \in SUBSET (0..p)
    <3>1. p \in Nat /\ \A q \in Below(p) : q \in Nat /\ q <= p
      OBVIOUS
    <3>2. \A q \in Below(p) : q \in 0..p
      <4> HIDE DEF Below
      <4> QED BY <3>1
    <3> HIDE DEF Below
    <3> QED BY <3>2
  <2> QED
    BY <2>2, <2>3, FS_Subset
<1>2. T \subseteq FiniteSubsetsOf(S) /\ T # {}
  BY <1>1 DEF FiniteSubsetsOf
<1>3. IsWellFoundedOn(R, FiniteSubsetsOf(S))
  BY FS_StrictSubsetOrderingWellFounded
<1>4. \E x \in T : \A y \in T : ~(<<y, x>> \in R)
  <2> HIDE DEF T, R
  <2> QED BY <1>2, <1>3, WFMin, Zenon
<1>5. PICK p \in S : \A q \in S : ~(<<Below(q), Below(p)>> \in R)
  <2> HIDE DEF R, Below
  <2> QED BY <1>4
<1>6. \A q \in S : p <= q
  <2>1. SUFFICES ASSUME NEW q \in S, q < p PROVE FALSE
    OBVIOUS
  <2>2. p \in Nat /\ q \in Nat /\ \A x \in S : x \in Nat
    OBVIOUS
  <2>3. \A x \in Below(q) : x \in Below(p)
    BY <2>1, <2>2
  <2>4. p \in Below(p) /\ p \notin Below(q)
    BY <2>1, <2>2
  <2>5. Below(q) \in SUBSET S /\ Below(p) \in SUBSET S
    OBVIOUS
  <2>6. <<Below(q), Below(p)>> \in R
    <3> HIDE DEF Below
    <3> QED BY <2>3, <2>4, <2>5 DEF StrictSubsetOrdering
  <2> QED
    BY <1>5, <2>6
<1> QED
  BY <1>6 DEF First
-----------------------------------------------------------------------------
Contents == {"missing", "old", "edited", "torn"} \cup Agents
Files == [SharedPaths -> Contents]
Merging == {"proposed", "refused", "checking", "writing", "failed", "merged"}

\* What an agent is, by how far it has come.
Workspaces ==
    [pc : {"outside"}]
      \cup [pc : {"working"}, files : Files, baseline : Files]
      \cup [pc : Merging, files : Files, baseline : Files,
            changed : SUBSET SharedPaths, left : SUBSET SharedPaths, broken : BOOLEAN]

TypeInv == shared \in Files /\ agent \in [Agents -> Workspaces]

\* A path is still what the workspace was copied from, or was overtaken.
Holds(a, p) == shared[p] = agent[a].baseline[p] \/ <<a, p>> \in overtaken

\* What has been compared holds until it is written ...
CheckedHolds ==
    \A a \in Agents :
        /\ agent[a].pc = "checking" => \A p \in agent[a].changed \ agent[a].left : Holds(a, p)
        /\ agent[a].pc = "writing" => \A p \in agent[a].left : Holds(a, p)

\* ... and only a merge that has compared everything, or an earlier one of the same
\* proposal that broke, has written.
Committed(w) == w.pc \in {"writing", "merged"} \/ (w.pc \in Merging /\ w.broken)

SwapsAreGuarded ==
    \A s \in swapped :
        /\ s.by \in Agents /\ Committed(agent[s.by])
        /\ s.content = agent[s.by].baseline[s.path] \/ <<s.by, s.path>> \in overtaken

MergeInv == TypeInv /\ CheckedHolds /\ SwapsAreGuarded

\* The workspace of an agent that is merging.
LEMMA MergingFields ==
    ASSUME TypeInv, NEW a \in Agents, agent[a].pc \in Merging
    PROVE agent[a] \in [pc : Merging, files : Files, baseline : Files,
                        changed : SUBSET SharedPaths, left : SUBSET SharedPaths, broken : BOOLEAN]
BY DEF TypeInv, Workspaces, Merging

LEMMA MergeInvInit ==
    ASSUME SubagentsInit
    PROVE MergeInv
BY DEF SubagentsInit, MergeInv, TypeInv, CheckedHolds, SwapsAreGuarded, Files, Contents, Workspaces, Merging

\* A step of one agent that leaves the repository alone and brings it to a
\* state whose claims hold, keeps everybody's claims.
LEMMA PrivateStep ==
    ASSUME MergeInv, NEW a \in Agents, NEW w \in Workspaces,
           agent' = [agent EXCEPT ![a] = w],
           UNCHANGED <<shared, swapped, overtaken>>,
           w.pc = "checking" => \A p \in w.changed \ w.left : shared[p] = w.baseline[p] \/ <<a, p>> \in overtaken,
           w.pc = "writing" => \A p \in w.left : shared[p] = w.baseline[p] \/ <<a, p>> \in overtaken,
           Committed(agent[a]) => Committed(w) /\ w.baseline = agent[a].baseline
    PROVE MergeInv'
<1>1. TypeInv'
  BY DEF MergeInv, TypeInv
<1>2. agent'[a] = w /\ \A b \in Agents \ {a} : agent'[b] = agent[b]
  BY DEF MergeInv, TypeInv
<1>3. CheckedHolds'
  BY <1>2 DEF MergeInv, CheckedHolds, Holds
<1>4. SwapsAreGuarded'
  <2>1. ASSUME NEW s \in swapped
        PROVE /\ s.by \in Agents /\ Committed(agent'[s.by])
              /\ s.content = agent'[s.by].baseline[s.path] \/ <<s.by, s.path>> \in overtaken
    <3>1. /\ s.by \in Agents /\ Committed(agent[s.by])
          /\ s.content = agent[s.by].baseline[s.path] \/ <<s.by, s.path>> \in overtaken
      BY DEF MergeInv, SwapsAreGuarded
    <3>2. CASE s.by = a
      BY <1>2, <3>1, <3>2
    <3>3. CASE s.by # a
      BY <1>2, <3>1, <3>3
    <3> QED BY <3>2, <3>3
  <2> QED BY <2>1 DEF SwapsAreGuarded, Committed
<1> QED
  BY <1>1, <1>3, <1>4 DEF MergeInv

\* A change of one path by somebody else is noted for everyone who had
\* compared that path.
LEMMA ChangeIsNoted ==
    ASSUME MergeInv, NEW who, NEW p \in SharedPaths, NEW content \in Contents,
           Change(who, p, content), NEW b \in Agents \ {who}, NEW q \in SharedPaths,
           \/ agent[b].pc = "checking" /\ q \in agent[b].changed \ agent[b].left
           \/ agent[b].pc = "writing" /\ q \in agent[b].left
    PROVE shared'[q] = agent[b].baseline[q] \/ <<b, q>> \in overtaken'
<1>1. Holds(b, q)
  BY DEF MergeInv, CheckedHolds
<1>2. overtaken \subseteq overtaken' /\ shared' = [shared EXCEPT ![p] = content]
  BY DEF Change
<1>3. CASE q = p
  BY <1>3 DEF Change
<1>4. CASE q # p
  BY <1>1, <1>2, <1>4 DEF Holds, MergeInv, TypeInv, Files
<1> QED
  BY <1>3, <1>4

\* A write of a path whose claim holds, by a merge that has compared everything.
LEMMA SwapStep ==
    ASSUME MergeInv, NEW a \in Agents, agent[a].pc = "writing",
           NEW p \in agent[a].left, NEW content \in Contents, Swap(a, p, content),
           NEW w \in Workspaces, agent' = [agent EXCEPT ![a] = w],
           Committed(w), w.baseline = agent[a].baseline, w.pc # "checking",
           w.pc = "writing" => w.left = agent[a].left \ {p}
    PROVE MergeInv'
<1> DEFINE s == [by |-> a, path |-> p, content |-> shared[p]]
<1>1. /\ agent[a].left \in SUBSET SharedPaths /\ p \in SharedPaths
      /\ Change(a, p, content) /\ swapped' = swapped \cup {s}
  BY MergingFields DEF MergeInv, Merging, Swap
<1>2. agent'[a] = w /\ \A b \in Agents \ {a} : agent'[b] = agent[b]
  BY DEF MergeInv, TypeInv
<1>3. TypeInv'
  BY <1>1 DEF Change, MergeInv, TypeInv, Files
<1>4. overtaken \subseteq overtaken' /\ \A q \in SharedPaths \ {p} : shared'[q] = shared[q]
  BY <1>1 DEF Change, MergeInv, TypeInv, Files
<1>5. \A q \in agent[a].left : Holds(a, q)
  BY DEF MergeInv, CheckedHolds
<1>6. CheckedHolds'
  <2> SUFFICES ASSUME NEW b \in Agents
               PROVE /\ agent'[b].pc = "checking" => \A q \in agent'[b].changed \ agent'[b].left : Holds(b, q)'
                     /\ agent'[b].pc = "writing" => \A q \in agent'[b].left : Holds(b, q)'
    BY DEF CheckedHolds
  <2>1. CASE b = a
    <3>1. \A q \in agent[a].left \ {p} : shared'[q] = w.baseline[q] \/ <<a, q>> \in overtaken'
      BY <1>1, <1>4, <1>5 DEF Holds
    <3> QED BY <1>2, <2>1, <3>1 DEF Holds
  <2>2. CASE b # a
    <3>1. agent'[b] = agent[b]
      BY <1>2, <2>2
    <3>2. ASSUME NEW q, \/ agent[b].pc = "checking" /\ q \in agent[b].changed \ agent[b].left
                        \/ agent[b].pc = "writing" /\ q \in agent[b].left
          PROVE shared'[q] = agent[b].baseline[q] \/ <<b, q>> \in overtaken'
      <4>1. q \in SharedPaths
        BY <3>2, MergingFields DEF MergeInv, Merging
      <4> QED BY <1>1, <2>2, <3>2, <4>1, ChangeIsNoted
    <3> QED BY <3>1, <3>2 DEF Holds
  <2> QED BY <2>1, <2>2
<1>7. SwapsAreGuarded'
  <2>1. shared[p] = w.baseline[p] \/ <<a, p>> \in overtaken'
    BY <1>4, <1>5 DEF Holds
  <2>2. ASSUME NEW t \in swapped
        PROVE /\ t.by \in Agents /\ Committed(agent'[t.by])
              /\ t.content = agent'[t.by].baseline[t.path] \/ <<t.by, t.path>> \in overtaken'
    <3>1. /\ t.by \in Agents
          /\ t.content = agent[t.by].baseline[t.path] \/ <<t.by, t.path>> \in overtaken
          /\ Committed(agent[t.by])
      BY <2>2 DEF MergeInv, SwapsAreGuarded
    <3>2. CASE t.by = a
      BY <1>2, <1>4, <3>1, <3>2
    <3>3. CASE t.by # a
      BY <1>2, <1>4, <3>1, <3>3
    <3> QED BY <3>2, <3>3
  <2>3. s.by = a /\ s.path = p /\ s.content = shared[p]
    OBVIOUS
  <2>4. ASSUME NEW t \in swapped'
        PROVE /\ t.by \in Agents /\ Committed(agent'[t.by])
              /\ t.content = agent'[t.by].baseline[t.path] \/ <<t.by, t.path>> \in overtaken'
    <3>1. CASE t = s
      <4> HIDE DEF s
      <4> QED BY <1>2, <2>1, <2>3, <3>1
    <3>2. CASE t # s
      BY <1>1, <2>2, <3>2
    <3> QED BY <3>1, <3>2
  <2> QED BY <2>4 DEF SwapsAreGuarded, Committed
<1> QED
  BY <1>3, <1>6, <1>7 DEF MergeInv

LEMMA MergeInvStep ==
    ASSUME MergeInv, SubagentsNext
    PROVE MergeInv'
<1>1. ASSUME NEW a \in Agents, Enter(a) PROVE MergeInv'
  <2> DEFINE copy == [p \in SharedPaths |-> IF p \in Ignored THEN "missing" ELSE shared[p]]
             w == [pc |-> "working", files |-> copy, baseline |-> copy]
  <2>1. copy \in Files
    BY DEF MergeInv, TypeInv, Files, Contents
  <2>2. w \in Workspaces
    BY <2>1 DEF Workspaces
  <2>3. agent' = [agent EXCEPT ![a] = w] /\ ~Committed(agent[a]) /\ UNCHANGED <<shared, swapped, overtaken>>
    BY <1>1 DEF Enter, Committed, Merging
  <2> HIDE DEF copy
  <2> QED BY <2>2, <2>3, PrivateStep
<1>2. ASSUME NEW a \in Agents, NEW p \in SharedPaths, Write(a, p) PROVE MergeInv'
  <2>1. PICK content \in Contents : agent' = [agent EXCEPT ![a].files[p] = content]
    BY <1>2 DEF Write, Contents
  <2> DEFINE w == [agent[a] EXCEPT !.files[p] = content]
  <2>2. agent[a].pc = "working" /\ UNCHANGED <<shared, swapped, overtaken>>
    BY <1>2 DEF Write
  <2>3. agent[a] \in [pc : {"working"}, files : Files, baseline : Files]
    BY <2>2 DEF MergeInv, TypeInv, Workspaces, Merging
  <2>4. w \in [pc : {"working"}, files : Files, baseline : Files]
    BY <2>3 DEF Files
  <2>5. w \in Workspaces /\ w.pc = "working"
    BY <2>4 DEF Workspaces
  <2>6. agent' = [agent EXCEPT ![a] = w]
    BY <2>1
  <2>7. ~Committed(agent[a])
    BY <2>2 DEF Committed, Merging
  <2> HIDE DEF w
  <2> QED BY <2>2, <2>5, <2>6, <2>7, PrivateStep
<1>3. ASSUME NEW a \in Agents, WorkspaceDiff(a) PROVE MergeInv'
  <2> DEFINE changed == {p \in SharedPaths : agent[a].files[p] # agent[a].baseline[p]}
             w == [pc |-> "proposed", files |-> agent[a].files, baseline |-> agent[a].baseline,
                   changed |-> changed, left |-> changed, broken |-> FALSE]
  <2>1. agent[a].pc = "working" /\ UNCHANGED <<shared, swapped, overtaken>>
    BY <1>3 DEF WorkspaceDiff
  <2>2. agent[a] \in [pc : {"working"}, files : Files, baseline : Files]
    BY <2>1 DEF MergeInv, TypeInv, Workspaces, Merging
  <2>3. w \in Workspaces
    BY <2>2 DEF Workspaces, Merging
  <2>4. agent' = [agent EXCEPT ![a] = w]
    BY <1>3 DEF WorkspaceDiff, MergeInv, TypeInv
  <2>5. ~Committed(agent[a])
    BY <2>1 DEF Committed, Merging
  <2> HIDE DEF changed
  <2> QED BY <2>1, <2>3, <2>4, <2>5, PrivateStep
<1>4. ASSUME NEW a \in Agents, NEW pc \in Merging, NEW left \in SUBSET SharedPaths,
             agent[a].pc \in Merging, Goto(a, pc, left), UNCHANGED <<shared, swapped, overtaken>>,
             pc = "checking" => \A p \in agent[a].changed \ left : Holds(a, p),
             pc = "writing" => \A p \in left : Holds(a, p),
             agent[a].pc \in {"writing", "merged"} => pc \in {"writing", "merged"}
      PROVE MergeInv'
  <2> DEFINE w == [agent[a] EXCEPT !.pc = pc, !.left = left]
  <2>1. agent[a] \in [pc : Merging, files : Files, baseline : Files,
                      changed : SUBSET SharedPaths, left : SUBSET SharedPaths, broken : BOOLEAN]
    BY <1>4, MergingFields DEF MergeInv
  <2>2. /\ w \in [pc : Merging, files : Files, baseline : Files,
                  changed : SUBSET SharedPaths, left : SUBSET SharedPaths, broken : BOOLEAN]
        /\ w.pc = pc /\ w.left = left /\ w.changed = agent[a].changed /\ w.baseline = agent[a].baseline
        /\ w.broken = agent[a].broken
    BY <1>4, <2>1
  <2>3. w \in Workspaces
    BY <2>2 DEF Workspaces
  <2>4. agent' = [agent EXCEPT ![a] = w]
    BY <1>4 DEF Goto, MergeInv, TypeInv
  <2> HIDE DEF w
  <2>5. Committed(agent[a]) => Committed(w)
    BY <1>4, <2>2 DEF Committed
  <2> QED BY <1>4, <2>2, <2>3, <2>4, <2>5, PrivateStep DEF Holds
<1>5. ASSUME NEW a \in Agents, MergeReviewed(a) PROVE MergeInv'
  <2>1. agent[a].pc \in {"proposed", "refused", "failed"} /\ Goto(a, "checking", agent[a].changed)
    BY <1>5 DEF MergeReviewed
  <2>2. agent[a].changed \in SUBSET SharedPaths
    BY <2>1, MergingFields DEF MergeInv, Merging
  <2> QED
    BY <1>4, <1>5, <2>1, <2>2 DEF MergeReviewed, Merging
<1>6. ASSUME NEW a \in Agents, CheckNext(a) PROVE MergeInv'
  <2> DEFINE p == First(agent[a].left)
  <2>1. agent[a].pc = "checking" /\ UNCHANGED <<shared, swapped, overtaken>>
    BY <1>6 DEF CheckNext
  <2>2. agent[a].changed \in SUBSET SharedPaths /\ agent[a].left \in SUBSET SharedPaths
    BY <2>1, MergingFields DEF MergeInv, Merging
  <2>3. \A q \in agent[a].changed \ agent[a].left : Holds(a, q)
    BY <2>1 DEF MergeInv, CheckedHolds
  <2>4. CASE agent[a].left = {}
    <3>1. Goto(a, "writing", agent[a].changed)
      BY <1>6, <2>4 DEF CheckNext
    <3> QED BY <1>4, <2>1, <2>2, <2>3, <2>4, <3>1 DEF Merging
  <2>5. CASE agent[a].left # {} /\ shared[p] = agent[a].baseline[p]
    <3>1. Goto(a, "checking", agent[a].left \ {p})
      BY <1>6, <2>5 DEF CheckNext
    <3>2. \A q \in agent[a].changed \ (agent[a].left \ {p}) : Holds(a, q)
      BY <2>3, <2>5 DEF Holds
    <3> HIDE DEF p
    <3> QED BY <1>4, <2>1, <2>2, <3>1, <3>2 DEF Merging
  <2>6. CASE agent[a].left # {} /\ shared[p] # agent[a].baseline[p]
    <3>1. Goto(a, "refused", {})
      BY <1>6, <2>6 DEF CheckNext
    <3> QED BY <1>4, <2>1, <3>1 DEF Merging
  <2> QED BY <2>4, <2>5, <2>6
<1>7. ASSUME NEW a \in Agents, WriteNext(a) PROVE MergeInv'
  <2>1. /\ agent[a].pc = "writing"
        /\ agent[a] \in [pc : Merging, files : Files, baseline : Files,
                         changed : SUBSET SharedPaths, left : SUBSET SharedPaths, broken : BOOLEAN]
    BY <1>7, MergingFields DEF WriteNext, MergeInv, Merging
  <2>2. CASE agent[a].left = {}
    <3>1. Goto(a, "merged", {}) /\ UNCHANGED <<shared, swapped, overtaken>>
      BY <1>7, <2>2 DEF WriteNext
    <3> QED BY <1>4, <2>1, <3>1 DEF Merging
  <2>3. CASE agent[a].left # {}
    <3> DEFINE p == First(agent[a].left)
               w == [agent[a] EXCEPT !.pc = "writing", !.left = agent[a].left \ {p}]
    <3>1. p \in agent[a].left
      BY <2>1, <2>3, FirstIsIn, WorkspacesAssumption
    <3>2. /\ Swap(a, p, agent[a].files[p])
          /\ agent' = [agent EXCEPT ![a].pc = "writing", ![a].left = agent[a].left \ {p}]
      BY <1>7, <2>3 DEF WriteNext, Goto
    <3>3. agent[a].files[p] \in Contents
      BY <2>1, <3>1 DEF Files
    <3> HIDE DEF p
    <3>6. /\ w \in [pc : Merging, files : Files, baseline : Files,
                    changed : SUBSET SharedPaths, left : SUBSET SharedPaths, broken : BOOLEAN]
          /\ w.pc = "writing" /\ w.left = agent[a].left \ {p} /\ w.baseline = agent[a].baseline
      BY <2>1 DEF Merging
    <3>4. w \in Workspaces /\ Committed(w)
      BY <3>6 DEF Workspaces, Committed
    <3>5. agent' = [agent EXCEPT ![a] = w]
      BY <2>1, <3>2 DEF MergeInv, TypeInv
    <3> HIDE DEF w
    <3> QED BY <2>1, <3>1, <3>2, <3>3, <3>4, <3>5, <3>6, SwapStep
  <2> QED BY <2>2, <2>3
<1>9. ASSUME NEW a \in Agents, WriteRaises(a) PROVE MergeInv'
  <2> DEFINE p == First(agent[a].left)
             w == [agent[a] EXCEPT !.pc = "failed", !.broken = TRUE]
  <2>1. /\ agent[a].pc = "writing" /\ agent[a].left # {}
        /\ agent[a] \in [pc : Merging, files : Files, baseline : Files,
                         changed : SUBSET SharedPaths, left : SUBSET SharedPaths, broken : BOOLEAN]
    BY <1>9, MergingFields DEF WriteRaises, MergeInv, Merging
  <2>2. p \in agent[a].left
    BY <2>1, FirstIsIn, WorkspacesAssumption
  <2>3. /\ agent' = [agent EXCEPT ![a].pc = "failed", ![a].broken = TRUE]
        /\ UNCHANGED <<shared, swapped, overtaken>> \/ Swap(a, p, "torn")
    BY <1>9 DEF WriteRaises
  <2> HIDE DEF p
  <2>4. w \in Workspaces /\ Committed(w) /\ w.pc = "failed" /\ w.baseline = agent[a].baseline
    BY <2>1 DEF Workspaces, Merging, Committed
  <2>5. agent' = [agent EXCEPT ![a] = w]
    BY <2>1, <2>3 DEF MergeInv, TypeInv
  <2> HIDE DEF w
  <2>6. CASE UNCHANGED <<shared, swapped, overtaken>>
    BY <2>4, <2>5, <2>6, PrivateStep
  <2>7. CASE Swap(a, p, "torn")
    BY <2>1, <2>2, <2>4, <2>5, <2>7, SwapStep DEF Contents
  <2> QED BY <2>3, <2>6, <2>7
<1>8. ASSUME NEW p \in SharedPaths, SharedEdit(p) PROVE MergeInv'
  <2>1. PICK content \in Contents : Change("person", p, content)
    BY <1>8 DEF SharedEdit, Contents
  <2>2. UNCHANGED <<agent, swapped>> /\ overtaken \subseteq overtaken'
    BY <1>8, <2>1 DEF SharedEdit, Change
  <2>3. TypeInv'
    BY <2>1, <2>2 DEF Change, MergeInv, TypeInv, Files
  <2>4. CheckedHolds'
    <3>1. ASSUME NEW b \in Agents, NEW q,
                 \/ agent[b].pc = "checking" /\ q \in agent[b].changed \ agent[b].left
                 \/ agent[b].pc = "writing" /\ q \in agent[b].left
          PROVE shared'[q] = agent[b].baseline[q] \/ <<b, q>> \in overtaken'
      <4>1. q \in SharedPaths /\ b \in Agents \ {"person"}
        BY <3>1, MergingFields, WorkspacesAssumption DEF MergeInv, Merging
      <4> QED BY <2>1, <3>1, <4>1, ChangeIsNoted
    <3> QED BY <2>2, <3>1 DEF CheckedHolds, Holds
  <2>5. SwapsAreGuarded'
    BY <2>2 DEF MergeInv, SwapsAreGuarded, Committed
  <2> QED BY <2>3, <2>4, <2>5 DEF MergeInv
<1> QED
  BY <1>1, <1>2, <1>3, <1>5, <1>6, <1>7, <1>8, <1>9 DEF SubagentsNext

\* Whoever merges or edits when and whichever write raises, a merge replaces only
\* what its workspace was copied from, except in the moment between the check and
\* the write of a file, and a refused proposal has written nothing unless an earlier
\* merge of it broke (subagents.py:56, :64).
THEOREM GuardedMerges == SubagentsInit /\ [][SubagentsNext]_subagentVars => []MergesAreGuarded
<1>1. SubagentsInit => MergeInv
  BY MergeInvInit
<1>2. MergeInv /\ [SubagentsNext]_subagentVars => MergeInv'
  <2>1. ASSUME MergeInv, UNCHANGED subagentVars PROVE MergeInv'
    BY <2>1 DEF subagentVars, MergeInv, TypeInv, CheckedHolds, SwapsAreGuarded, Committed, Holds
  <2> QED BY <2>1, MergeInvStep
<1>3. MergeInv => MergesAreGuarded
  BY DEF MergeInv, SwapsAreGuarded, Committed, MergesAreGuarded
<1> QED
  BY <1>1, <1>2, <1>3, PTL
-----------------------------------------------------------------------------
(* A repository task of the assistant.                                      *)

IsSequence(s) == s \in Seq({s[i] : i \in DOMAIN s})

\* What every prepared diff is like.
DiffOK(d) ==
    /\ {d.path, d.to} \subseteq Paths /\ d.exists \in BOOLEAN
    /\ d.op # "move" => d.to = d.path
    /\ d.op = "move" => d.exists
    /\ ~d.exists => d.base = <<>>

DiffsOK(ds) == IsSequence(ds) /\ \A i \in DOMAIN ds : DiffOK(ds[i])

\* A diff is of the given path below a root that some call gives.
Named(d, path) == \E c \in Calls : d.to = Resolved[<<c.root, path>>]

TaskFields == {"phase", "requested", "calls", "seen", "proposals"}

\* A loop that goes on has turns and proposals left, and remembers its calls.
TaskInv ==
    /\ DOMAIN run = TaskFields /\ run.phase \in {"idle", "asking"}
    /\ IsSequence(run.calls) /\ Len(run.calls) <= MaxTurns
    /\ DiffsOK(run.proposals) /\ Len(run.proposals) <= MaxProposals
    /\ Running => Len(run.calls) < MaxTurns /\ Len(run.proposals) < MaxProposals
    /\ \A i \in DOMAIN run.calls : IsCall(run.calls[i].call) => run.calls[i].call \in run.seen
    /\ \A i, j \in DOMAIN run.calls :
          i < j /\ run.calls[i].call = run.calls[j].call =>
              run.calls[j].kind \in {"repeated_tool_call", "invalid_tool_call"}
    /\ run.requested # Anywhere => \A i \in DOMAIN run.proposals : Named(run.proposals[i], run.requested)

SnapshotOK(c) ==
    /\ DOMAIN c \subseteq Paths /\ DOMAIN c # {} /\ IsFiniteSet(DOMAIN c)
    /\ c = [p \in DOMAIN c |-> c[p]]

IsSaved(cs, path, content) ==
    \E k \in DOMAIN cs : path \in DOMAIN cs[k] /\ cs[k][path] = content

\* What was replaced is saved, unless a person saved it after the checkpoint.
CheckpointsInv ==
    /\ IsSequence(checkpoints) /\ \A k \in DOMAIN checkpoints : SnapshotOK(checkpoints[k])
    /\ \A o \in overwritten : o.late = TRUE \/ IsSaved(checkpoints, o.path, o.content)

Left == {restoring.left[i] : i \in DOMAIN restoring.left}

\* A rewind has brought back what is not left, and has both contents saved.
RestoringInv ==
    restoring # Nothing =>
        /\ approval = "none" /\ DOMAIN restoring = {"left", "target", "backup"}
        /\ restoring.left \in Seq(DOMAIN restoring.target) /\ restoring.left # <<>>
        /\ \A i, j \in DOMAIN restoring.left : restoring.left[i] = restoring.left[j] => i = j
        /\ \E k \in DOMAIN checkpoints : restoring.target = checkpoints[k]
        /\ \E k \in DOMAIN checkpoints : restoring.backup = checkpoints[k]
        /\ DOMAIN restoring.backup = DOMAIN restoring.target
        /\ \A p \in DOMAIN restoring.target \ late :
              files[p] = IF p \in Left THEN restoring.backup[p] ELSE restoring.target[p]

\* A diff's path holds what the diff was made from.
Fits(d) ==
    /\ d.base = IF IsFile(d.path) THEN ReadText(d.path) ELSE <<>>
    /\ IsFile(d.path) <=> d.exists

\* What an approved diff touches is saved and, once compared, fits, except what a
\* person has saved since.
ApprovalInv ==
    approval # "none" =>
        /\ approval \in {"saved", "checked"} /\ run = Resting /\ pending # <<>>
        /\ \A p \in Touched(Head(pending)) \ late : IsSaved(checkpoints, p, files[p])
        /\ approval = "checked" /\ Head(pending).path \notin slipped => Fits(Head(pending))

FilesInv == files = [p \in Paths |-> files[p]] /\ CheckpointsInv /\ RestoringInv /\ ApprovalInv

ToolInv == TaskInv /\ DiffsOK(pending) /\ FilesInv

\* Something appended to a sequence is its last element.
LEMMA Appended ==
    ASSUME NEW s, IsSequence(s), NEW e
    PROVE /\ IsSequence(Append(s, e)) /\ Len(s) \in Nat /\ DOMAIN s = 1 .. Len(s)
          /\ Len(Append(s, e)) = Len(s) + 1 /\ DOMAIN Append(s, e) = 1 .. (Len(s) + 1)
          /\ Append(s, e)[Len(s) + 1] = e
          /\ \A i \in DOMAIN s : Append(s, e)[i] = s[i]
<1> DEFINE S == {s[i] : i \in DOMAIN s} \cup {e}
           longer == Append(s, e)
<1>1. s \in Seq(S) /\ e \in S
  BY SeqMonotonic DEF IsSequence
<1>2. Len(s) \in Nat /\ DOMAIN s = 1 .. Len(s)
  BY <1>1, LenProperties
<1>3. /\ longer \in Seq(S) /\ Len(longer) = Len(s) + 1 /\ longer[Len(s) + 1] = e
      /\ \A i \in 1 .. Len(s) : longer[i] = s[i]
  <2> HIDE DEF S
  <2> QED BY <1>1, AppendProperties
<1>4. Len(longer) \in Nat /\ DOMAIN longer = 1 .. Len(longer)
  <2> HIDE DEF S, longer
  <2> QED BY <1>3, LenProperties
<1>5. longer \in Seq({longer[i] : i \in DOMAIN longer})
  <2>1. longer = [i \in 1 .. Len(longer) |-> longer[i]]
    <3> HIDE DEF S, longer
    <3> QED BY <1>3, LenProperties
  <2>2. \A i \in 1 .. Len(longer) : longer[i] \in {longer[j] : j \in DOMAIN longer}
    <3> HIDE DEF S, longer
    <3> QED BY <1>4
  <2> HIDE DEF S, longer
  <2>3. [i \in 1 .. Len(longer) |-> longer[i]] \in Seq({longer[j] : j \in DOMAIN longer})
    BY <1>4, <2>2, IsASeq
  <2> QED BY <2>1, <2>3
<1> HIDE DEF S, longer
<1>6. DOMAIN longer = 1 .. (Len(s) + 1)
  BY <1>3, <1>4
<1> QED BY <1>2, <1>3, <1>5, <1>6 DEF IsSequence, longer

LEMMA EmptyIsSequence == IsSequence(<<>>) /\ Len(<<>>) = 0 /\ DOMAIN <<>> = {}
BY EmptySeq, LenProperties DEF IsSequence

\* What follows the first element of a sequence is a sequence of the others.
LEMMA Followers ==
    ASSUME NEW s, IsSequence(s), s # <<>>
    PROVE /\ IsSequence(Tail(s)) /\ Len(s) \in Nat \ {0} /\ DOMAIN s = 1 .. Len(s)
          /\ Head(s) = s[1] /\ DOMAIN Tail(s) = 1 .. (Len(s) - 1)
          /\ \A i \in 1 .. (Len(s) - 1) : Tail(s)[i] = s[i + 1]
<1> DEFINE S == {s[i] : i \in DOMAIN s}
           rest == Tail(s)
<1>1. s \in Seq(S)
  BY DEF IsSequence
<1>2. Len(s) \in Nat \ {0} /\ DOMAIN s = 1 .. Len(s) /\ Head(s) = s[1]
  <2> HIDE DEF S
  <2> QED BY <1>1, LenProperties, EmptySeq
<1>3. /\ rest \in Seq(S) /\ Len(rest) = Len(s) - 1
      /\ \A i \in 1 .. (Len(s) - 1) : rest[i] = s[i + 1]
  <2> HIDE DEF S
  <2> QED BY <1>1, HeadTailProperties
<1>4. Len(rest) \in Nat /\ DOMAIN rest = 1 .. Len(rest) /\ rest = [i \in 1 .. Len(rest) |-> rest[i]]
  <2> HIDE DEF S, rest
  <2> QED BY <1>3, LenProperties
<1>5. rest \in Seq({rest[i] : i \in DOMAIN rest})
  <2>1. \A i \in 1 .. Len(rest) : rest[i] \in {rest[j] : j \in DOMAIN rest}
    <3> HIDE DEF S, rest
    <3> QED BY <1>4
  <2> HIDE DEF S, rest
  <2>2. [i \in 1 .. Len(rest) |-> rest[i]] \in Seq({rest[j] : j \in DOMAIN rest})
    BY <1>4, <2>1, IsASeq
  <2> QED BY <1>4, <2>2
<1>6. DOMAIN rest = 1 .. (Len(s) - 1)
  <2> HIDE DEF S, rest
  <2> QED BY <1>3, <1>4
<1> HIDE DEF S, rest
<1> QED BY <1>2, <1>3, <1>5, <1>6 DEF IsSequence, rest

\* SetToSeq lists a finite set, each element once.
LEMMA ListedOnce ==
    ASSUME NEW S, IsFiniteSet(S)
    PROVE /\ SetToSeq(S) \in Seq(S)
          /\ \A i, j \in DOMAIN SetToSeq(S) : SetToSeq(S)[i] = SetToSeq(S)[j] => i = j
          /\ S = {SetToSeq(S)[i] : i \in DOMAIN SetToSeq(S)}
<1> DEFINE n == Cardinality(S)
           f == SetToSeq(S)
<1>1. n \in Nat /\ Bijection(1 .. n, S) # {}
  BY FS_CardinalityType DEF ExistsBijection
<1>2. \E g \in [1 .. n -> S] : IsInjective(g)
  BY <1>1 DEF Bijection, Injection
<1>3. f \in [1 .. n -> S] /\ IsInjective(f)
  BY <1>2 DEF SetToSeq
<1> HIDE DEF f
<1>4. f \in Injection(1 .. n, S)
  BY <1>3 DEF Injection
<1>5. IsFiniteSet(1 .. n) /\ Cardinality(1 .. n) = n
  BY <1>1, FS_Interval
<1>6. f \in Surjection(1 .. n, S)
  BY <1>4, <1>5, FS_Injection
<1>7. f \in Seq(S)
  BY <1>1, <1>3 DEF Seq
<1> QED BY <1>3, <1>6, <1>7 DEF IsInjective, Surjection, f

\* A handler that prepares a diff prepares one of the path the call means.
LEMMA PreparedDiff ==
    ASSUME NEW c, c.tool \in ToolNames, NEW r \in Dispatch(c), r.kind = "diff"
    PROVE /\ r.ok = TRUE /\ "proposal" \in DOMAIN r /\ DiffOK(r.proposal)
          /\ c.tool \in Mutations /\ r.proposal.to = Resolved[<<c.root, ProposalPath(c)>>]
<1>1. CASE c.tool = "execute_script"
  <2>1. r \in ExecuteScript(c)
    BY <1>1, Zenon DEF Dispatch
  <2>2. r \in {Failure("refused"), Failure("handler_exception"), Value}
    BY <2>1, Zenon DEF ExecuteScript
  <2> QED BY <2>2 DEF Failure, Value
<1>2. CASE c.tool = "search_directory"
  BY <1>2 DEF Dispatch, SearchDirectory, Failure, Value
<1>3. ASSUME c.tool \notin {"execute_script", "search_directory"}
      PROVE /\ {Source(c), Destination(c)} \subseteq Paths
            /\ c.tool = "read_file" => r = ReadFile(c)
            /\ c.tool = "create_file" => r = CreateFile(c)
            /\ c.tool = "apply_search_replace" => r = ApplySearchReplace(c)
            /\ c.tool = "move_file" => r = MoveFile(c)
  <2>1. {Source(c), Destination(c)} \subseteq Paths /\ r = Handle(c)
    BY <1>3 DEF Dispatch, Failure
  <2> QED BY <2>1 DEF Handle
<1>4. CASE c.tool = "read_file"
  BY <1>3, <1>4 DEF ReadFile, Failure, Value
<1>5. ASSUME Source(c) \in Paths, r = CreateFile(c)
      PROVE /\ r.ok = TRUE /\ "proposal" \in DOMAIN r /\ DiffOK(r.proposal)
            /\ r.proposal.to = Source(c)
  BY <1>5 DEF CreateFile, Prepared, Diff, DiffOK, Failure
<1>6. CASE c.tool = "create_file"
  BY <1>3, <1>5, <1>6 DEF Mutations, ProposalPath, Source
<1>7. CASE c.tool = "apply_search_replace"
  <2>1. r = ApplySearchReplace(c) /\ Source(c) \in Paths
    BY <1>3, <1>7
  <2>2. CASE r = CreateFile(c)
    BY <1>5, <1>7, <2>1, <2>2 DEF Mutations, ProposalPath, Source
  <2>3. CASE r # CreateFile(c)
    <3>1. \/ r.kind \in {"not_file", "search_not_found"}
          \/ r = Prepared(Diff("delete", Source(c), <<>>, TRUE))
          \/ r = Prepared(Diff("replace", Source(c), Replaced(ReadText(Source(c)), c.search, c.with), TRUE))
      BY <2>1, <2>3 DEF ApplySearchReplace, Failure
    <3>2. ASSUME NEW op \in {"delete", "replace"}, NEW text, r = Prepared(Diff(op, Source(c), text, TRUE))
          PROVE /\ r.ok = TRUE /\ "proposal" \in DOMAIN r /\ DiffOK(r.proposal)
                /\ r.proposal.to = Source(c)
      <4>1. r.ok = TRUE /\ "proposal" \in DOMAIN r /\ r.proposal = Diff(op, Source(c), text, TRUE)
        BY <3>2 DEF Prepared
      <4>2. /\ r.proposal.op \in {"delete", "replace"} /\ r.proposal.exists = TRUE
            /\ r.proposal.path = Source(c) /\ r.proposal.to = Source(c)
        BY <4>1 DEF Diff
      <4> QED BY <2>1, <4>1, <4>2 DEF DiffOK
    <3> QED BY <1>7, <2>1, <3>1, <3>2 DEF Mutations, ProposalPath, Source
  <2> QED BY <2>2, <2>3
<1>8. CASE c.tool = "move_file"
  <2>1. r = Prepared([Diff("move", Source(c), ReadText(Source(c)), TRUE) EXCEPT !.to = Destination(c)])
    BY <1>3, <1>8 DEF MoveFile, Failure
  <2> QED BY <1>3, <1>8, <2>1 DEF Prepared, Diff, DiffOK, Mutations, ProposalPath, Destination
<1> QED BY <1>1, <1>2, <1>4, <1>6, <1>7, <1>8 DEF ToolNames

\* What a call comes to: a diff only of the path the task names, below some root, and no second
\* dispatch of the same call.
LEMMA ResultOfCall ==
    ASSUME NEW c \in Calls, NEW r \in Results(c)
    PROVE /\ r.kind = "diff" =>
                /\ r.ok = TRUE /\ "proposal" \in DOMAIN r /\ DiffOK(r.proposal)
                /\ run.requested # Anywhere => Named(r.proposal, run.requested)
          /\ c \in run.seen \/ ~IsCall(c) => r.kind \in {"repeated_tool_call", "invalid_tool_call"}
<1>1. CASE c \in run.seen
  BY <1>1 DEF Results, Failure
<1>2. CASE c \notin run.seen /\ ~IsCall(c)
  BY <1>2 DEF Results, Failure
<1>3. CASE c \notin run.seen /\ IsCall(c) /\ Unexpected(c)
  BY <1>3 DEF Results, Failure
<1>4. CASE c \notin run.seen /\ IsCall(c) /\ ~Unexpected(c) /\ c.args = "bad number"
  <2>1. r \in {Failure("invalid_arguments")}
    BY <1>4, Zenon DEF Results
  <2>2. c \notin run.seen /\ IsCall(c)
    BY <1>4, Zenon
  <2> QED BY <2>1, <2>2 DEF Failure
<1>5. CASE c \notin run.seen /\ IsCall(c) /\ ~Unexpected(c) /\ c.args # "bad number"
  <2>1. r \in Dispatch(c)
    BY <1>5, Zenon DEF Results
  <2>2. c.tool \in ToolNames
    BY <1>5, ToolsAssumption, Zenon DEF IsCall
  <2>3. run.requested # Anywhere /\ c.tool \in Mutations => ProposalPath(c) = run.requested
    BY <1>5, Zenon DEF Unexpected
  <2>4. c \notin run.seen /\ IsCall(c)
    BY <1>5, Zenon
  <2>5. r.kind = "diff" =>
          /\ r.ok = TRUE /\ "proposal" \in DOMAIN r /\ DiffOK(r.proposal)
          /\ c.tool \in Mutations /\ r.proposal.to = Resolved[<<c.root, ProposalPath(c)>>]
    BY <2>1, <2>2, PreparedDiff
  <2> QED BY <2>3, <2>4, <2>5 DEF Named
<1> QED BY <1>1, <1>2, <1>3, <1>4, <1>5, Zenon

\* A call is noted, and ends the loop when it was the last one there was room for.
LEMMA CallKeepsTask ==
    ASSUME TaskInv, DiffsOK(pending), NEW c \in Calls, CallTool(c)
    PROVE TaskInv' /\ DiffsOK(pending)'
<1>1. PICK r \in Results(c) :
          LET calls == Append(run.calls, [call |-> c, ok |-> r.ok, kind |-> r.kind])
              proposals == IF r.kind = "diff" THEN Append(run.proposals, r.proposal) ELSE run.proposals
              next == [run EXCEPT !.calls = calls, !.proposals = proposals, !.seen = Seen(c)]
          IN IF Exhausted(calls, proposals, r)
             THEN run' = [next EXCEPT !.phase = "idle"] /\ pending' = proposals
             ELSE run' = next /\ UNCHANGED pending
  BY Zenon DEF CallTool
<1> DEFINE e == [call |-> c, ok |-> r.ok, kind |-> r.kind]
           calls == Append(run.calls, e)
           proposals == IF r.kind = "diff" THEN Append(run.proposals, r.proposal) ELSE run.proposals
           next == [run EXCEPT !.calls = calls, !.proposals = proposals, !.seen = Seen(c)]
<1>2. Running /\ DOMAIN run = TaskFields /\ run.phase = "asking"
  BY DEF CallTool, TaskInv, Running
<1>3. /\ DOMAIN run' = TaskFields /\ run'.phase \in {"idle", "asking"} /\ run'.requested = run.requested
      /\ run'.calls = calls /\ run'.proposals = proposals /\ run'.seen = Seen(c)
      /\ run'.phase = "asking" => ~Exhausted(calls, proposals, r)
      /\ pending' = proposals \/ pending' = pending
  <2> HIDE DEF calls, proposals
  <2> QED BY <1>1, <1>2 DEF TaskFields, calls, proposals
<1>4. /\ r.kind = "diff" =>
            /\ r.ok = TRUE /\ "proposal" \in DOMAIN r /\ DiffOK(r.proposal)
            /\ run.requested # Anywhere => Named(r.proposal, run.requested)
      /\ c \in run.seen \/ ~IsCall(c) => r.kind \in {"repeated_tool_call", "invalid_tool_call"}
  BY ResultOfCall
<1>5. /\ IsSequence(calls) /\ Len(run.calls) \in Nat /\ DOMAIN run.calls = 1 .. Len(run.calls)
      /\ Len(calls) = Len(run.calls) + 1 /\ DOMAIN calls = 1 .. (Len(run.calls) + 1)
      /\ calls[Len(run.calls) + 1] = e /\ \A i \in DOMAIN run.calls : calls[i] = run.calls[i]
  <2> HIDE DEF e
  <2> QED BY Appended DEF TaskInv
<1>6. DiffsOK(proposals) /\ Len(proposals) \in Nat /\ Len(proposals) <= MaxProposals
  <2>1. Len(run.proposals) \in Nat /\ Len(run.proposals) < MaxProposals /\ DiffsOK(run.proposals)
    BY <1>2, Appended DEF TaskInv, DiffsOK
  <2>2. CASE r.kind = "diff"
    <3>1. /\ IsSequence(proposals) /\ Len(proposals) = Len(run.proposals) + 1
          /\ DOMAIN run.proposals = 1 .. Len(run.proposals)
          /\ DOMAIN proposals = 1 .. (Len(run.proposals) + 1)
          /\ proposals[Len(run.proposals) + 1] = r.proposal
          /\ \A i \in DOMAIN run.proposals : proposals[i] = run.proposals[i]
      BY <2>1, <2>2, Appended DEF DiffsOK
    <3> HIDE DEF proposals
    <3>2. \A i \in DOMAIN proposals : DiffOK(proposals[i])
      BY <1>4, <2>1, <2>2, <3>1 DEF DiffsOK
    <3> QED BY <2>1, <3>1, <3>2, LimitsAssumption DEF DiffsOK
  <2>3. CASE r.kind # "diff"
    BY <2>1, <2>3, LimitsAssumption
  <2> QED BY <2>2, <2>3
<1>7. Running' => Len(calls) < MaxTurns /\ Len(proposals) < MaxProposals
  <2>1. Running' => ~Exhausted(calls, proposals, r)
    BY <1>3 DEF Running
  <2>2. ~Exhausted(calls, proposals, r) => Len(calls) < MaxTurns
    <3> HIDE DEF calls, proposals
    <3>1. ~Exhausted(calls, proposals, r) => ~(Len(calls) >= MaxTurns)
      BY Zenon DEF Exhausted
    <3>2. Len(calls) \in Nat /\ MaxTurns \in Nat
      BY <1>5, LimitsAssumption
    <3> QED BY <3>1, <3>2
  <2>3. ~Exhausted(calls, proposals, r) => Len(proposals) < MaxProposals
    <3>1. CASE r.kind = "diff"
      <4> HIDE DEF calls, proposals
      <4> QED BY <1>4, <1>6, <3>1, LimitsAssumption DEF Exhausted
    <3>2. CASE r.kind # "diff"
      BY <1>2, <3>2 DEF TaskInv
    <3> QED BY <3>1, <3>2
  <2> QED BY <2>1, <2>2, <2>3
<1>8. Len(calls) <= MaxTurns
  <2> HIDE DEF calls
  <2> QED BY <1>2, <1>5, LimitsAssumption DEF TaskInv
<1>9. \A i \in DOMAIN calls : IsCall(calls[i].call) => calls[i].call \in Seen(c)
  <2> HIDE DEF calls, proposals
  <2> QED BY <1>5 DEF TaskInv, Seen
<1>10. \A i, j \in DOMAIN calls :
          i < j /\ calls[i].call = calls[j].call =>
              calls[j].kind \in {"repeated_tool_call", "invalid_tool_call"}
  <2>1. SUFFICES ASSUME NEW i \in DOMAIN calls, NEW j \in DOMAIN calls, i < j, calls[i].call = calls[j].call
                 PROVE calls[j].kind \in {"repeated_tool_call", "invalid_tool_call"}
    OBVIOUS
  <2> HIDE DEF calls, proposals
  <2>2. i \in DOMAIN run.calls /\ calls[i] = run.calls[i]
    BY <1>5, <2>1
  <2>3. CASE j \in DOMAIN run.calls
    BY <1>5, <2>1, <2>2, <2>3 DEF TaskInv
  <2>4. CASE j \notin DOMAIN run.calls
    <3>1. calls[j] = e
      BY <1>5, <2>4
    <3>2. run.calls[i].call = c
      BY <2>1, <2>2, <3>1
    <3> QED BY <1>4, <2>2, <3>1, <3>2 DEF TaskInv
  <2> QED BY <2>3, <2>4
<1>11. run.requested # Anywhere => \A i \in DOMAIN proposals : Named(proposals[i], run.requested)
  <2>1. CASE r.kind = "diff"
    <3>1. /\ Len(run.proposals) \in Nat /\ DOMAIN run.proposals = 1 .. Len(run.proposals)
          /\ DOMAIN proposals = 1 .. (Len(run.proposals) + 1)
          /\ proposals[Len(run.proposals) + 1] = r.proposal
          /\ \A i \in DOMAIN run.proposals : proposals[i] = run.proposals[i]
      BY <2>1, Appended DEF TaskInv, DiffsOK
    <3> HIDE DEF proposals
    <3> QED BY <1>4, <2>1, <3>1 DEF TaskInv
  <2>2. CASE r.kind # "diff"
    BY <2>2 DEF TaskInv
  <2> QED BY <2>1, <2>2
<1>12. TaskInv'
  <2> HIDE DEF calls, proposals
  <2> QED BY <1>3, <1>5, <1>6, <1>7, <1>8, <1>9, <1>10, <1>11 DEF TaskInv, IsCall, Named
<1>13. DiffsOK(pending)'
  <2> HIDE DEF proposals
  <2> QED BY <1>3, <1>6
<1> QED BY <1>12, <1>13

LEMMA ToolInvInit ==
    ASSUME Init
    PROVE ToolInv
<1>1. TaskInv
  BY EmptyIsSequence, LimitsAssumption DEF Init, Resting, TaskInv, TaskFields, Running, DiffsOK
<1>2. DiffsOK(pending)
  BY EmptyIsSequence DEF Init, DiffsOK
<1>3. files = [p \in Paths |-> files[p]] /\ RestoringInv /\ ApprovalInv
  BY DEF Init, RestoringInv, ApprovalInv
<1>4. CheckpointsInv
  BY EmptyIsSequence DEF Init, CheckpointsInv
<1> QED BY <1>1, <1>2, <1>3, <1>4 DEF ToolInv, FilesInv

\* A checkpoint that is created leaves the earlier ones as they are.
LEMMA CheckpointAdded ==
    ASSUME CheckpointsInv, NEW ps \in SUBSET Paths, ps # {}, IsFiniteSet(ps), CheckpointPaths(ps)
    PROVE /\ IsSequence(checkpoints') /\ \A k \in DOMAIN checkpoints' : SnapshotOK(checkpoints'[k])
          /\ \A k \in DOMAIN checkpoints : k \in DOMAIN checkpoints' /\ checkpoints'[k] = checkpoints[k]
          /\ \E k \in DOMAIN checkpoints' : checkpoints'[k] = [p \in ps |-> files[p]]
          /\ \A path, content : IsSaved(checkpoints, path, content) => IsSaved(checkpoints', path, content)
          /\ \A p \in ps : IsSaved(checkpoints', p, files[p])
<1> DEFINE c == [p \in ps |-> files[p]]
<1>1. checkpoints' = Append(checkpoints, c) /\ IsSequence(checkpoints)
  BY DEF CheckpointPaths, CheckpointsInv
<1>2. SnapshotOK(c) /\ DOMAIN c = ps /\ \A p \in ps : c[p] = files[p]
  BY DEF SnapshotOK
<1> HIDE DEF c
<1>3. /\ IsSequence(checkpoints') /\ Len(checkpoints) \in Nat /\ DOMAIN checkpoints = 1 .. Len(checkpoints)
      /\ DOMAIN checkpoints' = 1 .. (Len(checkpoints) + 1) /\ checkpoints'[Len(checkpoints) + 1] = c
      /\ \A i \in DOMAIN checkpoints : checkpoints'[i] = checkpoints[i]
  BY <1>1, Appended
<1>4. \A k \in DOMAIN checkpoints' : SnapshotOK(checkpoints'[k])
  <2>1. TAKE k \in DOMAIN checkpoints'
  <2>2. CASE k \in DOMAIN checkpoints
    BY <1>3, <2>2 DEF CheckpointsInv
  <2>3. CASE k \notin DOMAIN checkpoints
    <3>1. checkpoints'[k] = c
      BY <1>3, <2>3
    <3> QED BY <1>2, <3>1
  <2> QED BY <2>2, <2>3
<1>5. \A k \in DOMAIN checkpoints : k \in DOMAIN checkpoints' /\ checkpoints'[k] = checkpoints[k]
  BY <1>3
<1>6. \E k \in DOMAIN checkpoints' : checkpoints'[k] = c
  BY <1>3
<1>7. \A path, content : IsSaved(checkpoints, path, content) => IsSaved(checkpoints', path, content)
  BY <1>5 DEF IsSaved
<1>8. \A p \in ps : IsSaved(checkpoints', p, files[p])
  BY <1>2, <1>6 DEF IsSaved
<1> QED BY <1>3, <1>4, <1>5, <1>6, <1>7, <1>8 DEF c

\* A step that leaves the files, the checkpoints, an approval and a rewind alone.
LEMMA FilesSame ==
    ASSUME FilesInv, UNCHANGED <<files, checkpoints, approval, restoring, history>>,
           approval = "none" \/ UNCHANGED <<run, pending>>
    PROVE FilesInv'
<1>1. files' = [p \in Paths |-> files'[p]] /\ UNCHANGED <<overwritten, late, slipped>>
  BY DEF FilesInv, history
<1>2. CheckpointsInv'
  BY <1>1 DEF FilesInv, CheckpointsInv
<1>3. RestoringInv'
  <2>1. Left' = Left
    BY DEF Left
  <2>2. CASE restoring = Nothing
    BY <2>2 DEF RestoringInv
  <2>3. CASE restoring # Nothing
    <3> QED BY <1>1, <2>1, <2>3 DEF FilesInv, RestoringInv
  <2> QED BY <2>2, <2>3
<1>4. ApprovalInv'
  BY <1>1 DEF FilesInv, ApprovalInv, Fits, IsFile, ReadText
<1> QED BY <1>1, <1>2, <1>3, <1>4 DEF FilesInv

LEMMA TaskSame ==
    ASSUME TaskInv, UNCHANGED run
    PROVE TaskInv'
BY DEF TaskInv, Running, IsCall, Named

\* What is replaced is saved, unless a person saved it after the checkpoint.
LEMMA ReplacesWhatIsSaved ==
    ASSUME CheckpointsInv, UNCHANGED checkpoints, NEW new, Replaces(new),
           \A p \in Paths \ late : new[p] # files[p] => IsSaved(checkpoints, p, files[p])
    PROVE CheckpointsInv'
<1>1. \A o \in overwritten' : o.late = TRUE \/ IsSaved(checkpoints, o.path, o.content)
  <2>1. TAKE o \in overwritten'
  <2>2. CASE o \in overwritten
    BY <2>2 DEF CheckpointsInv
  <2>3. CASE o \notin overwritten
    <3>1. PICK p \in Paths : new[p] # files[p] /\ o = [path |-> p, content |-> files[p], late |-> p \in late]
      BY <2>3 DEF Replaces
    <3>2. o.path = p /\ o.content = files[p] /\ (p \in late => o.late = TRUE)
      BY <3>1
    <3> QED BY <3>1, <3>2
  <2> QED BY <2>2, <2>3
<1> QED BY <1>1 DEF CheckpointsInv

\* The first of the pending diffs, and those behind it.
LEMMA HeadOfPending ==
    ASSUME DiffsOK(pending), pending # <<>>
    PROVE DiffOK(Head(pending)) /\ DiffsOK(Tail(pending))
<1>1. /\ IsSequence(Tail(pending)) /\ Len(pending) \in Nat \ {0} /\ DOMAIN pending = 1 .. Len(pending)
      /\ Head(pending) = pending[1] /\ DOMAIN Tail(pending) = 1 .. (Len(pending) - 1)
      /\ \A i \in 1 .. (Len(pending) - 1) : Tail(pending)[i] = pending[i + 1]
  BY Followers DEF DiffsOK
<1>2. DiffOK(Head(pending))
  <2>1. 1 \in DOMAIN pending
    BY <1>1
  <2> QED BY <1>1, <2>1 DEF DiffsOK
<1>3. \A i \in DOMAIN Tail(pending) : DiffOK(Tail(pending)[i])
  <2>1. \A i \in 1 .. (Len(pending) - 1) : i + 1 \in DOMAIN pending
    BY <1>1
  <2> QED BY <1>1, <2>1 DEF DiffsOK
<1> QED BY <1>1, <1>2, <1>3 DEF DiffsOK

LEMMA TouchedPaths ==
    ASSUME NEW d, DiffOK(d)
    PROVE Touched(d) \in SUBSET Paths /\ Touched(d) # {} /\ IsFiniteSet(Touched(d))
<1>1. IsFiniteSet({d.path}) /\ IsFiniteSet({d.to})
  BY FS_Singleton
<1>2. IsFiniteSet({d.path} \cup {d.to})
  BY <1>1, FS_Union
<1>3. Touched(d) = {d.path} \cup {d.to}
  BY DEF Touched
<1> QED BY <1>2, <1>3 DEF DiffOK, Touched

LEMMA WrittenPaths ==
    ASSUME files = [p \in Paths |-> files[p]], NEW d, DiffOK(d)
    PROVE /\ Written(d) = [p \in Paths |-> Written(d)[p]]
          /\ \A p \in Paths \ Touched(d) : Written(d)[p] = files[p]
<1>1. CASE d.op = "move"
  BY <1>1 DEF Written, Touched, DiffOK
<1>2. CASE d.op # "move"
  <2>1. \E content : Written(d) = [files EXCEPT ![d.path] = content]
    BY <1>2 DEF Written
  <2> QED BY <2>1 DEF Touched, DiffOK
<1> QED BY <1>1, <1>2

\* An approval's write replaces only what its diff touches.
LEMMA WritingKeepsFiles ==
    ASSUME FilesInv, DiffOK(Head(pending)), approval = "checked", approval' = "none",
           UNCHANGED <<checkpoints, restoring, late>>,
           NEW new, Replaces(new), new = [p \in Paths |-> new[p]],
           \A p \in Paths \ Touched(Head(pending)) : new[p] = files[p]
    PROVE FilesInv'
<1> DEFINE d == Head(pending)
<1>1. restoring = Nothing /\ \A p \in Touched(d) \ late : IsSaved(checkpoints, p, files[p])
  BY DEF FilesInv, ApprovalInv, RestoringInv
<1> HIDE DEF d
<1>2. \A p \in Paths \ late : new[p] # files[p] => IsSaved(checkpoints, p, files[p])
  BY <1>1 DEF d
<1>3. CheckpointsInv'
  BY <1>2, ReplacesWhatIsSaved DEF FilesInv
<1>4. RestoringInv' /\ ApprovalInv'
  BY <1>1 DEF RestoringInv, ApprovalInv
<1>5. files' = [p \in Paths |-> files'[p]]
  BY DEF Replaces
<1> QED BY <1>3, <1>4, <1>5 DEF FilesInv

LEMMA ReviewKeepsFiles ==
    ASSUME ToolInv, ReviewStep
    PROVE FilesInv'
<1> DEFINE d == Head(pending)
<1>1. restoring = Nothing /\ pending # <<>> /\ UNCHANGED restoring
  <2>1. approval # "none" => restoring = Nothing /\ pending # <<>>
    BY DEF ToolInv, FilesInv, RestoringInv, ApprovalInv
  <2> QED BY <2>1 DEF ReviewStep, Approve, Compare, WriteDiff, WriteFails, EndWrite, Discard, CanReview
<1>2. DiffOK(d)
  BY <1>1, HeadOfPending DEF ToolInv
<1>3. Touched(d) \in SUBSET Paths /\ Touched(d) # {} /\ IsFiniteSet(Touched(d))
  BY <1>2, TouchedPaths
<1>4. files = [p \in Paths |-> files[p]] /\ CheckpointsInv /\ ApprovalInv /\ FilesInv
  BY DEF ToolInv, FilesInv
<1>5. CASE Approve
  <2> HIDE DEF d
  <2>1. /\ CheckpointPaths(Touched(d)) /\ approval' = "saved" /\ run = Resting
        /\ UNCHANGED <<files, run, pending, overwritten>>
    BY <1>5 DEF Approve, CanReview, d
  <2>2. /\ IsSequence(checkpoints') /\ \A k \in DOMAIN checkpoints' : SnapshotOK(checkpoints'[k])
        /\ \A path, content : IsSaved(checkpoints, path, content) => IsSaved(checkpoints', path, content)
        /\ \A p \in Touched(d) : IsSaved(checkpoints', p, files[p])
    BY <1>3, <1>4, <2>1, CheckpointAdded
  <2>3. CheckpointsInv'
    BY <1>4, <2>1, <2>2 DEF CheckpointsInv
  <2>4. ApprovalInv'
    BY <1>1, <2>1, <2>2 DEF ApprovalInv, d, Touched
  <2> QED BY <1>1, <1>4, <2>1, <2>3, <2>4 DEF FilesInv, RestoringInv
<1>6. CASE Compare
  <2> HIDE DEF d
  <2>1. /\ approval = "saved" /\ slipped' = {}
        /\ approval' \in {"none", "checked"} /\ (approval' = "checked" => ~Stale(d))
        /\ UNCHANGED <<files, run, pending, checkpoints, overwritten, late>>
    BY <1>6 DEF Compare, d
  <2>2. ~Stale(d) => Fits(d)
    <3>1. CASE d.op = "move"
      <4>1. ~Stale(d) => d.exists = TRUE /\ IsFile(d.path) /\ files[d.path] = File(d.base, FALSE)
        BY <1>2, <3>1 DEF Stale, DiffOK, d
      <4>2. File(d.base, FALSE).text = d.base
        BY DEF File
      <4> QED BY <4>1, <4>2 DEF Fits, ReadText
    <3>2. CASE d.op # "move" /\ d.exists
      BY <3>2 DEF Stale, Fits
    <3>3. CASE d.op # "move" /\ ~d.exists
      <4>1. ~Stale(d) => files[d.path] = Absent /\ d.base = <<>>
        BY <1>2, <3>3 DEF Stale, Exists, DiffOK, d
      <4>2. Absent.kind # "file"
        BY DEF Absent
      <4> QED BY <3>3, <4>1, <4>2 DEF Fits, IsFile
    <3> QED BY <3>1, <3>2, <3>3
  <2>3. ApprovalInv'
    BY <1>4, <2>1, <2>2 DEF ApprovalInv, Fits, IsFile, ReadText, d, Touched
  <2>4. CheckpointsInv'
    BY <1>4, <2>1 DEF CheckpointsInv
  <2> QED BY <1>1, <1>4, <2>1, <2>3, <2>4 DEF FilesInv, RestoringInv
<1>7. CASE WriteDiff
  <2>1. Written(d) = [p \in Paths |-> Written(d)[p]] /\ \A p \in Paths \ Touched(d) : Written(d)[p] = files[p]
    BY <1>2, <1>4, WrittenPaths
  <2>2. /\ approval = "checked" /\ Replaces(Written(d)) /\ approval' = "none"
        /\ UNCHANGED <<checkpoints, restoring, late>>
    BY <1>7 DEF WriteDiff, EndWrite
  <2> QED BY <1>2, <1>4, <2>1, <2>2, WritingKeepsFiles
<1>8. CASE WriteFails
  <2> DEFINE torn == [files EXCEPT ![d.path] = File(<<>>, FALSE)]
  <2>1. /\ approval = "checked" /\ (Replaces(files) \/ Replaces(torn)) /\ approval' = "none"
        /\ UNCHANGED <<checkpoints, restoring, late>>
    BY <1>8, Zenon DEF WriteFails, EndWrite
  <2>2. torn = [p \in Paths |-> torn[p]] /\ \A p \in Paths \ Touched(d) : torn[p] = files[p]
    BY <1>4 DEF Touched
  <2> HIDE DEF torn
  <2>3. CASE Replaces(files)
    BY <1>2, <1>4, <2>1, <2>3, WritingKeepsFiles
  <2>4. CASE Replaces(torn)
    BY <1>2, <1>4, <2>1, <2>2, <2>4, WritingKeepsFiles
  <2> QED BY <2>1, <2>3, <2>4
<1>9. CASE Discard
  <2>1. approval = "none" /\ UNCHANGED <<files, checkpoints, approval, restoring, history>>
    BY <1>9 DEF Discard, CanReview
  <2> QED BY <1>4, <2>1, FilesSame
<1> QED BY <1>5, <1>6, <1>7, <1>8, <1>9 DEF ReviewStep

\* A rewind begins with both contents saved and everything left.
LEMMA RewindKeepsFiles ==
    ASSUME ToolInv, NEW k, Rewind(k)
    PROVE FilesInv'
<1> DEFINE target == checkpoints[k]
           ps == DOMAIN target
           backup == [p \in ps |-> files[p]]
           left == SetToSeq(ps)
<1>1. /\ k \in DOMAIN checkpoints /\ CheckpointPaths(ps) /\ UNCHANGED <<files, overwritten>>
      /\ restoring' = [left |-> left, target |-> target, backup |-> backup]
      /\ approval = "none" /\ approval' = "none"
  BY DEF Rewind, CanReview
<1>2. CheckpointsInv /\ files = [p \in Paths |-> files[p]]
  BY DEF ToolInv, FilesInv
<1>3. ps \in SUBSET Paths /\ ps # {} /\ IsFiniteSet(ps)
  BY <1>1, <1>2 DEF CheckpointsInv, SnapshotOK
<1>4. /\ IsSequence(checkpoints') /\ \A j \in DOMAIN checkpoints' : SnapshotOK(checkpoints'[j])
      /\ \A j \in DOMAIN checkpoints : j \in DOMAIN checkpoints' /\ checkpoints'[j] = checkpoints[j]
      /\ \E j \in DOMAIN checkpoints' : checkpoints'[j] = backup
      /\ \A path, content : IsSaved(checkpoints, path, content) => IsSaved(checkpoints', path, content)
  <2> HIDE DEF ps, target
  <2> QED BY <1>1, <1>2, <1>3, CheckpointAdded
<1>5. CheckpointsInv'
  BY <1>1, <1>2, <1>4 DEF CheckpointsInv
<1>6. /\ left \in Seq(ps) /\ \A i, j \in DOMAIN left : left[i] = left[j] => i = j
      /\ ps = {left[i] : i \in DOMAIN left}
  <2> HIDE DEF ps
  <2> QED BY <1>3, ListedOnce
<1>7. left # <<>>
  <2> HIDE DEF ps, left
  <2> QED BY <1>3, <1>6
<1>8. target = checkpoints'[k] /\ k \in DOMAIN checkpoints'
  BY <1>1, <1>4
<1>9. DOMAIN backup = ps /\ \A p \in ps : backup[p] = files'[p]
  BY <1>1
<1>10. RestoringInv'
  <2>1. /\ approval' = "none" /\ DOMAIN restoring' = {"left", "target", "backup"}
        /\ restoring'.left = left /\ restoring'.target = target /\ restoring'.backup = backup
    BY <1>1
  <2>2. DOMAIN target = ps /\ Left' = ps
    BY <1>6, <2>1 DEF Left
  <2> HIDE DEF ps, left, target, backup
  <2> QED BY <1>4, <1>6, <1>7, <1>8, <1>9, <2>1, <2>2 DEF RestoringInv
<1>11. ApprovalInv'
  BY <1>1 DEF ApprovalInv
<1> QED BY <1>1, <1>2, <1>5, <1>10, <1>11 DEF FilesInv

\* While a rewind copies, what each of its paths holds is saved, unless a person has
\* saved it meanwhile.
LEMMA RewindIsSaved ==
    ASSUME FilesInv, restoring # Nothing
    PROVE /\ DOMAIN restoring.target \subseteq Paths
          /\ \A p \in DOMAIN restoring.target \ late : IsSaved(checkpoints, p, files[p])
<1>1. /\ \E k \in DOMAIN checkpoints : restoring.target = checkpoints[k]
      /\ \E k \in DOMAIN checkpoints : restoring.backup = checkpoints[k]
      /\ DOMAIN restoring.backup = DOMAIN restoring.target
      /\ \A p \in DOMAIN restoring.target \ late : files[p] \in {restoring.backup[p], restoring.target[p]}
  BY DEF FilesInv, RestoringInv
<1>2. SnapshotOK(restoring.target) /\ SnapshotOK(restoring.backup)
  BY <1>1 DEF FilesInv, CheckpointsInv
<1>3. \A p \in DOMAIN restoring.target : IsSaved(checkpoints, p, restoring.target[p])
  BY <1>1 DEF IsSaved
<1>4. \A p \in DOMAIN restoring.target : IsSaved(checkpoints, p, restoring.backup[p])
  BY <1>1 DEF IsSaved
<1>5. \A p \in DOMAIN restoring.target \ late : IsSaved(checkpoints, p, files[p])
  <2>1. TAKE p \in DOMAIN restoring.target \ late
  <2>2. CASE files[p] = restoring.target[p]
    BY <1>3, <2>2
  <2>3. CASE files[p] = restoring.backup[p]
    BY <1>4, <2>3
  <2> QED BY <1>1, <2>2, <2>3
<1> QED BY <1>2, <1>5 DEF SnapshotOK

\* What a rewind replaces is saved.
LEMMA RestoreKeepsCheckpoints ==
    ASSUME FilesInv, restoring # Nothing, UNCHANGED checkpoints, NEW new, Replaces(new),
           \A p \in Paths \ DOMAIN restoring.target : new[p] = files[p]
    PROVE CheckpointsInv'
<1>1. \A p \in Paths \ late : new[p] # files[p] => IsSaved(checkpoints, p, files[p])
  BY RewindIsSaved
<1> QED BY <1>1, ReplacesWhatIsSaved DEF FilesInv

\* The next path of a rewind, and those behind it.
LEMMA NextOfRewind ==
    ASSUME RestoringInv, restoring # Nothing
    PROVE LET p == Head(restoring.left)
              rest == Tail(restoring.left)
          IN /\ p \in DOMAIN restoring.target /\ p \in Left
             /\ rest \in Seq(DOMAIN restoring.target)
             /\ \A i, j \in DOMAIN rest : rest[i] = rest[j] => i = j
             /\ {rest[i] : i \in DOMAIN rest} = Left \ {p}
<1> DEFINE T == DOMAIN restoring.target
           left == restoring.left
           p == Head(left)
           rest == Tail(left)
<1>1. /\ left \in Seq(T) /\ left # <<>>
      /\ \A i, j \in DOMAIN left : left[i] = left[j] => i = j
  BY DEF RestoringInv
<1>2. Left = {left[i] : i \in DOMAIN left}
  BY DEF Left
<1> HIDE DEF T, left
<1>3. Len(left) \in Nat \ {0} /\ DOMAIN left = 1 .. Len(left) /\ p = left[1] /\ p \in T
  BY <1>1, LenProperties, EmptySeq, HeadTailProperties
<1>4. rest \in Seq(T) /\ Len(rest) = Len(left) - 1 /\ \A i \in 1 .. Len(rest) : rest[i] = left[i + 1]
  BY <1>1, HeadTailProperties
<1>5. DOMAIN rest = 1 .. (Len(left) - 1)
  BY <1>4, LenProperties
<1> HIDE DEF rest, p
<1>6. \A i, j \in DOMAIN rest : rest[i] = rest[j] => i = j
  <2>1. TAKE i, j \in DOMAIN rest
  <2>2. i + 1 \in DOMAIN left /\ j + 1 \in DOMAIN left /\ rest[i] = left[i + 1] /\ rest[j] = left[j + 1]
    BY <1>3, <1>4, <1>5
  <2>3. i \in Nat /\ j \in Nat
    BY <1>3, <1>5
  <2>4. rest[i] = rest[j] => i + 1 = j + 1
    BY <1>1, <2>2
  <2> QED BY <2>3, <2>4
<1>7. \A i \in DOMAIN rest : rest[i] \in Left \ {p}
  <2>1. TAKE i \in DOMAIN rest
  <2>2. i + 1 \in DOMAIN left /\ i + 1 # 1 /\ 1 \in DOMAIN left /\ rest[i] = left[i + 1]
    BY <1>3, <1>4, <1>5
  <2> QED BY <1>1, <1>2, <1>3, <2>2
<1>8. ASSUME NEW q \in Left \ {p} PROVE \E i \in DOMAIN rest : rest[i] = q
  <2>1. PICK j \in DOMAIN left : left[j] = q
    BY <1>2
  <2>2. j # 1
    BY <1>3, <2>1
  <2>3. j - 1 \in DOMAIN rest /\ (j - 1) + 1 = j
    BY <1>3, <1>5, <2>2
  <2> QED BY <1>4, <1>5, <2>1, <2>3
<1>9. p \in Left
  BY <1>2, <1>3
<1> QED BY <1>3, <1>4, <1>6, <1>7, <1>8, <1>9 DEF T, left, rest, p

LEMMA RestoreKeepsFiles ==
    ASSUME FilesInv, RestoreNext
    PROVE FilesInv'
<1> DEFINE p == Head(restoring.left)
           rest == Tail(restoring.left)
           new == [files EXCEPT ![p] = restoring.target[p]]
<1>1. /\ restoring # Nothing /\ Replaces(new) /\ UNCHANGED <<checkpoints, approval, late>>
      /\ restoring' = IF rest = <<>> THEN Nothing ELSE [restoring EXCEPT !.left = rest]
  BY DEF RestoreNext
<1>0. files' = new /\ approval = "none"
  BY <1>1 DEF Replaces, FilesInv, RestoringInv
<1>2. files = [q \in Paths |-> files[q]] /\ DOMAIN restoring.target \subseteq Paths
  BY <1>1, RewindIsSaved DEF FilesInv
<1>3. /\ p \in DOMAIN restoring.target /\ p \in Left
      /\ rest \in Seq(DOMAIN restoring.target)
      /\ \A i, j \in DOMAIN rest : rest[i] = rest[j] => i = j
      /\ {rest[i] : i \in DOMAIN rest} = Left \ {p}
  BY <1>1, NextOfRewind DEF FilesInv
<1> HIDE DEF p, rest
<1>4. /\ new = [q \in Paths |-> new[q]] /\ new[p] = restoring.target[p]
      /\ \A q \in Paths \ {p} : new[q] = files[q]
  BY <1>2, <1>3
<1> HIDE DEF new
<1>5. CheckpointsInv'
  <2>1. \A q \in Paths \ DOMAIN restoring.target : new[q] = files[q]
    BY <1>3, <1>4
  <2> QED BY <1>1, <2>1, RestoreKeepsCheckpoints
<1>6. RestoringInv'
  <2>1. CASE rest = <<>>
    BY <1>1, <2>1 DEF RestoringInv
  <2>2. CASE rest # <<>>
    <3>1. DOMAIN restoring = {"left", "target", "backup"}
      BY <1>1 DEF FilesInv, RestoringInv
    <3>2. /\ DOMAIN restoring' = {"left", "target", "backup"} /\ restoring'.left = rest
          /\ restoring'.target = restoring.target /\ restoring'.backup = restoring.backup
      BY <1>1, <2>2, <3>1
    <3>3. Left' = Left \ {p}
      <4>1. Left' = {rest[i] : i \in DOMAIN rest}
        BY <3>2 DEF Left
      <4> QED BY <1>3, <4>1
    <3>4. \A q \in DOMAIN restoring.target \ late :
              files'[q] = IF q \in Left \ {p} THEN restoring.backup[q] ELSE restoring.target[q]
      <4>1. TAKE q \in DOMAIN restoring.target \ late
      <4>2. files[q] = IF q \in Left THEN restoring.backup[q] ELSE restoring.target[q]
        BY <1>1 DEF FilesInv, RestoringInv
      <4> QED BY <1>0, <1>2, <1>4, <4>2
    <3> QED BY <1>0, <1>1, <1>3, <2>2, <3>2, <3>3, <3>4 DEF FilesInv, RestoringInv
  <2> QED BY <2>1, <2>2
<1>7. ApprovalInv'
  BY <1>0, <1>1 DEF ApprovalInv
<1> QED BY <1>0, <1>4, <1>5, <1>6, <1>7 DEF FilesInv

LEMMA RollbackKeepsFiles ==
    ASSUME FilesInv, RestoreFails
    PROVE FilesInv'
<1>1. restoring # Nothing /\ Replaces(RolledBack) /\ restoring' = Nothing /\ UNCHANGED <<checkpoints, approval>>
  BY Zenon DEF RestoreFails
<1>0. files' = RolledBack /\ approval = "none"
  BY <1>1 DEF Replaces, FilesInv, RestoringInv
<1>2. DOMAIN restoring.backup = DOMAIN restoring.target
  BY <1>1 DEF FilesInv, RestoringInv
<1>3. RolledBack = [p \in Paths |-> RolledBack[p]]
  BY DEF RolledBack
<1>4. \A p \in Paths \ DOMAIN restoring.target : RolledBack[p] = files[p]
  BY <1>2 DEF RolledBack
<1>5. CheckpointsInv'
  BY <1>1, <1>4, RestoreKeepsCheckpoints
<1>6. RestoringInv'
  BY <1>1 DEF RestoringInv
<1>7. ApprovalInv'
  BY <1>0, <1>1 DEF ApprovalInv
<1> QED BY <1>0, <1>3, <1>5, <1>6, <1>7 DEF FilesInv

LEMMA ToolInvStep ==
    ASSUME ToolInv, [Next]_vars
    PROVE ToolInv'
<1> USE DEF ToolInv
<1>0. Running => approval = "none"
  BY DEF FilesInv, ApprovalInv, Running, Resting
<1>1. CASE UNCHANGED vars
  BY <1>1, FilesSame, TaskSame DEF vars
<1>2. CASE StartToolTask
  <2>1. PICK path \in Requests : run' = [Resting EXCEPT !.phase = "asking", !.requested = path]
    BY <1>2, Zenon DEF StartToolTask
  <2>2. TaskInv'
    BY <2>1, EmptyIsSequence, LimitsAssumption DEF Resting, TaskInv, TaskFields, Running, DiffsOK
  <2>3. DiffsOK(pending)'
    BY <1>2, EmptyIsSequence DEF StartToolTask, DiffsOK
  <2> QED BY <1>2, <2>2, <2>3, FilesSame DEF StartToolTask
<1>3. ASSUME NEW c \in Calls, CallTool(c) PROVE ToolInv'
  <2>1. FilesInv'
    BY <1>0, <1>3, FilesSame DEF CallTool
  <2> QED BY <1>3, <2>1, CallKeepsTask
<1>4. ASSUME NEW ds, DiffsOK(ds), EndRun(ds), Running,
             UNCHANGED <<files, checkpoints, approval, restoring, history>>
      PROVE ToolInv'
  <2>1. run' = [run EXCEPT !.phase = "idle"] /\ pending' = ds /\ DOMAIN run = TaskFields
    BY <1>4 DEF EndRun, TaskInv
  <2>2. TaskInv'
    BY <2>1 DEF TaskInv, TaskFields, Running, IsCall, Named
  <2> QED BY <1>0, <1>4, <2>1, <2>2, FilesSame
<1>5. CASE Answer
  <2>1. Running /\ EndRun(run.proposals) /\ UNCHANGED <<files, checkpoints, approval, restoring, history>>
    BY <1>5 DEF Answer
  <2> QED BY <1>4, <2>1 DEF TaskInv
<1>6. CASE GenerateFails
  <2>1. Running /\ EndRun(<<>>) /\ UNCHANGED <<files, checkpoints, approval, restoring, history>>
    BY <1>6 DEF GenerateFails
  <2> QED BY <1>4, <2>1, EmptyIsSequence DEF DiffsOK
<1>13. CASE EndTask
  <2>1. run # Resting /\ run' = Resting /\ UNCHANGED <<files, pending, checkpoints, approval, restoring, history>>
    BY <1>13 DEF EndTask
  <2>2. TaskInv'
    BY <2>1, EmptyIsSequence, LimitsAssumption DEF Resting, TaskInv, TaskFields, Running, DiffsOK
  <2>3. approval = "none"
    BY <2>1 DEF FilesInv, ApprovalInv
  <2> QED BY <2>1, <2>2, <2>3, FilesSame
<1>7. CASE ReviewStep
  <2>1. UNCHANGED run /\ pending' \in {pending, Tail(pending)}
    BY <1>7 DEF ReviewStep, Approve, Compare, WriteDiff, WriteFails, EndWrite, Discard
  <2>2. pending # <<>>
    BY <1>7 DEF ReviewStep, Approve, Compare, WriteDiff, WriteFails, Discard, FilesInv, ApprovalInv
  <2> QED BY <1>7, <2>1, <2>2, ReviewKeepsFiles, HeadOfPending, TaskSame
<1>8. ASSUME NEW k \in 1 .. MaxCheckpoints, Rewind(k) PROVE ToolInv'
  <2>1. UNCHANGED <<run, pending>>
    BY <1>8 DEF Rewind
  <2> QED BY <1>8, <2>1, RewindKeepsFiles, TaskSame
<1>9. CASE RestoreNext
  <2>1. UNCHANGED <<run, pending>>
    BY <1>9 DEF RestoreNext
  <2> QED BY <1>9, <2>1, RestoreKeepsFiles, TaskSame
<1>10. CASE RestoreFails
  <2>1. UNCHANGED <<run, pending>>
    BY <1>10, Zenon DEF RestoreFails
  <2> QED BY <1>10, <2>1, RollbackKeepsFiles, TaskSame
<1>11. CASE Crash
  <2>1. /\ run' = Resting /\ pending' = <<>> /\ approval' = "none" /\ restoring' = Nothing
        /\ UNCHANGED <<files, checkpoints, overwritten>>
    BY <1>11 DEF Crash, history
  <2>2. TaskInv' /\ DiffsOK(pending)'
    BY <2>1, EmptyIsSequence, LimitsAssumption DEF Resting, TaskInv, TaskFields, Running, DiffsOK
  <2>3. FilesInv'
    BY <2>1 DEF FilesInv, CheckpointsInv, RestoringInv, ApprovalInv
  <2> QED BY <2>2, <2>3
<1>12. ASSUME NEW p \in Paths, Edit(p) PROVE ToolInv'
  <2>1. PICK c \in Edits : files' = [files EXCEPT ![p] = c]
    BY <1>12 DEF Edit
  <2>2. /\ UNCHANGED <<run, pending, checkpoints, approval, restoring, overwritten>>
        /\ approval # "none" \/ restoring # Nothing => late' = late \cup {p}
        /\ approval = "checked" => slipped' = slipped \cup {p}
        /\ approval # "checked" => slipped' = slipped
    BY <1>12 DEF Edit
  <2>3. /\ files = [q \in Paths |-> files[q]] /\ files' = [q \in Paths |-> files'[q]]
        /\ \A q : q # p => files'[q] = files[q]
    BY <2>1 DEF FilesInv
  <2>4. CheckpointsInv'
    BY <2>2 DEF FilesInv, CheckpointsInv
  <2>5. RestoringInv'
    <3>1. CASE restoring = Nothing
      BY <2>2, <3>1 DEF RestoringInv
    <3>2. CASE restoring # Nothing
      <4>1. late' = late \cup {p} /\ Left' = Left
        BY <2>2, <3>2 DEF Left
      <4> QED BY <2>2, <2>3, <3>2, <4>1 DEF FilesInv, RestoringInv
    <3> QED BY <3>1, <3>2
  <2>6. ApprovalInv'
    <3>1. SUFFICES ASSUME approval # "none" PROVE ApprovalInv'
      BY <2>2 DEF ApprovalInv
    <3>2. late' = late \cup {p}
      BY <2>2, <3>1
    <3>3. /\ approval \in {"saved", "checked"} /\ run = Resting /\ pending # <<>>
          /\ \A q \in Touched(Head(pending)) \ late : IsSaved(checkpoints, q, files[q])
          /\ approval = "checked" /\ Head(pending).path \notin slipped => Fits(Head(pending))
      BY <3>1 DEF FilesInv, ApprovalInv
    <3>4. \A q \in Touched(Head(pending)) \ late' : IsSaved(checkpoints, q, files'[q])
      BY <2>3, <3>2, <3>3
    <3>5. approval = "checked" /\ Head(pending).path \notin slipped' =>
              Fits(Head(pending)) /\ files'[Head(pending).path] = files[Head(pending).path]
      BY <2>2, <2>3, <3>3
    <3> QED BY <2>2, <3>3, <3>4, <3>5 DEF ApprovalInv, Touched, Fits, IsFile, ReadText
  <2>7. TaskInv' /\ DiffsOK(pending)'
    BY <2>2, TaskSame
  <2> QED BY <2>3, <2>4, <2>5, <2>6, <2>7 DEF FilesInv
<1> QED
  BY <1>1, <1>2, <1>3, <1>5, <1>6, <1>7, <1>8, <1>9, <1>10, <1>11, <1>12, <1>13, Zenon DEF Next, AgentStep

\* What the invariant says of the agent and of the checkpoints.
LEMMA ToolInvImplies ==
    ASSUME ToolInv
    PROVE AgentKeepsToItsTask /\ OverwrittenIsRecoverable
<1>1. AgentKeepsToItsTask
  <2>1. ToSet(run.proposals) = {run.proposals[i] : i \in DOMAIN run.proposals}
    BY DEF ToSet
  <2> QED BY <2>1 DEF ToolInv, TaskInv, Named, AgentKeepsToItsTask
<1>2. OverwrittenIsRecoverable
  BY Zenon DEF ToolInv, FilesInv, CheckpointsInv, IsSaved, OverwrittenIsRecoverable
<1> QED BY <1>1, <1>2

\* A diff is applied to what it was made from, and to nothing else.
LEMMA ApprovalIsExact ==
    ASSUME ToolInv, Next, approval = "checked", approval' = "none", outcome' = "applied"
    PROVE LET d == Head(pending)
          IN /\ d.path \notin slipped =>
                  /\ d.base = IF IsFile(d.path) THEN ReadText(d.path) ELSE <<>>
                  /\ IsFile(d.path) <=> d.exists
             /\ \A p \in Paths \ Touched(d) : files'[p] = files[p]
<1> DEFINE d == Head(pending)
<1>1. WriteDiff
  <2>1. ~StartToolTask /\ ~AgentStep
    <3>1. UNCHANGED approval => FALSE
      OBVIOUS
    <3>2. StartToolTask \/ Answer \/ GenerateFails \/ EndTask \/ (\E c \in Calls : CallTool(c)) => UNCHANGED approval
      BY Zenon DEF StartToolTask, CallTool, Answer, GenerateFails, EndTask
    <3> QED BY <3>1, <3>2, Zenon DEF AgentStep
  <2>2. ~RestoreNext /\ ~Crash /\ \A p \in Paths : ~Edit(p)
    BY DEF RestoreNext, Crash, Edit
  <2>3. ~RestoreFails
    BY Zenon DEF RestoreFails
  <2>4. ~Approve /\ ~Compare /\ ~WriteFails /\ ~Discard
    BY DEF Approve, Compare, WriteFails, EndWrite, Discard, CanReview
  <2>5. \A k \in 1 .. MaxCheckpoints : ~Rewind(k)
    BY DEF Rewind, CanReview
  <2> QED BY <2>1, <2>2, <2>3, <2>4, <2>5, Zenon DEF Next, ReviewStep
<1>2. ApprovalInv /\ pending # <<>> /\ files = [p \in Paths |-> files[p]]
  BY DEF ToolInv, FilesInv, ApprovalInv
<1>3. DiffOK(d)
  BY <1>2, HeadOfPending DEF ToolInv
<1>4. files' = Written(d)
  BY <1>1 DEF WriteDiff, Replaces
<1>5. d.path \notin slipped => Fits(d)
  BY <1>2 DEF ApprovalInv
<1> HIDE DEF d
<1>6. \A p \in Paths \ Touched(d) : files'[p] = files[p]
  BY <1>2, <1>3, <1>4, WrittenPaths
<1> QED BY <1>5, <1>6 DEF Fits, d

\* A rewind that ends has brought back everything or nothing of what nobody has saved.
LEMMA RewindEndsWhole ==
    ASSUME ToolInv, Next, restoring # Nothing, restoring' = Nothing, outcome' # "crashed"
    PROVE \E whole \in {restoring.target, restoring.backup} :
              \A p \in DOMAIN restoring.target \ late : files'[p] = whole[p]
<1> DEFINE T == DOMAIN restoring.target \ late
<1>1. RestoreNext \/ RestoreFails
  <2>1. ~StartToolTask /\ ~AgentStep
    <3>1. UNCHANGED restoring => FALSE
      OBVIOUS
    <3>2. StartToolTask \/ Answer \/ GenerateFails \/ EndTask \/ (\E c \in Calls : CallTool(c)) => UNCHANGED restoring
      BY Zenon DEF StartToolTask, CallTool, Answer, GenerateFails, EndTask
    <3> QED BY <3>1, <3>2, Zenon DEF AgentStep
  <2>2. ~Crash /\ \A p \in Paths : ~Edit(p)
    BY DEF Crash, Edit
  <2>3. ~ReviewStep /\ \A k \in 1 .. MaxCheckpoints : ~Rewind(k)
    BY DEF ReviewStep, Approve, Compare, WriteDiff, WriteFails, EndWrite, Discard, Rewind, CanReview
  <2> QED BY <2>1, <2>2, <2>3, Zenon DEF Next
<1>2. T \subseteq Paths
  BY RewindIsSaved DEF ToolInv
<1>3. /\ \A p \in T : files[p] = IF p \in Left THEN restoring.backup[p] ELSE restoring.target[p]
      /\ files = [p \in Paths |-> files[p]] /\ DOMAIN restoring.backup = DOMAIN restoring.target
  BY DEF ToolInv, FilesInv, RestoringInv
<1>4. CASE RestoreFails
  <2>1. files' = RolledBack
    BY <1>4, Zenon DEF RestoreFails, Replaces
  <2>2. \A p \in T : files'[p] = restoring.backup[p]
    BY <1>2, <1>3, <2>1 DEF RolledBack
  <2> QED BY <2>2
<1>5. CASE RestoreNext
  <2> DEFINE p == Head(restoring.left)
             rest == Tail(restoring.left)
  <2>1. /\ files' = [files EXCEPT ![p] = restoring.target[p]]
        /\ restoring' = IF rest = <<>> THEN Nothing ELSE [restoring EXCEPT !.left = rest]
    BY <1>5 DEF RestoreNext, Replaces
  <2>2. {rest[i] : i \in DOMAIN rest} = Left \ {p}
    BY NextOfRewind DEF ToolInv, FilesInv
  <2>3. rest = <<>>
    <3>1. ASSUME rest # <<>> PROVE FALSE
      <4>1. DOMAIN restoring = {"left", "target", "backup"}
        BY DEF ToolInv, FilesInv, RestoringInv
      <4>2. restoring'.left = rest
        BY <2>1, <3>1, <4>1
      <4> QED BY <3>1, <4>2 DEF Nothing
    <3> QED BY <3>1
  <2>4. Left \ {p} = {}
    BY <2>2, <2>3, EmptyIsSequence
  <2> HIDE DEF p, T
  <2>5. \A q \in T : files'[q] = restoring.target[q]
    BY <1>2, <1>3, <2>1, <2>4
  <2> QED BY <2>5 DEF T
<1> QED BY <1>1, <1>4, <1>5

\* Whatever a model calls in what order, below which root, with which budgets and
\* whatever a person saves meanwhile: a task dispatches no call twice, keeps to its
\* limits and, when it was given a path, prepares diffs only of that path below a
\* root that the call chose (tool_calling_agent.py:78, :204).
THEOREM TaskIsKept == Spec => []AgentKeepsToItsTask
<1>1. ToolInv => AgentKeepsToItsTask
  BY ToolInvImplies
<1> QED
  BY ToolInvInit, ToolInvStep, <1>1, PTL DEF Spec

\* Whatever approvals, torn writes, rewinds and rewinds that fail or are cut short
\* by the death of the bridge replace is in a checkpoint, except what a person
\* saved after that checkpoint was made (checkpoints.py:33).
THEOREM ReplacedIsSaved == Spec => []OverwrittenIsRecoverable
<1>1. ToolInv => OverwrittenIsRecoverable
  BY ToolInvImplies
<1> QED
  BY ToolInvInit, ToolInvStep, <1>1, PTL DEF Spec

-----------------------------------------------------------------------------
(* The three ways together.  The reviews of MCChanges are an instance of    *)
(* MergeReview, to which the lemmas of MergeReviewProofs apply.             *)

Merges == INSTANCE MergeReviewProofs WITH
    Paths <- ReviewPaths, Nodes <- ReviewNodes, InitialQueue <- <<1, 2, 3>>, Claims <- ReviewClaims,
    Original <- [p \in ReviewPaths |-> IF p = "c" THEN "missing" ELSE "old"],
    Proposed <- [n \in ReviewNodes |-> [p \in ReviewPaths |-> <<"new1", "new2", "new3">>[n]]],
    Edits <- {"edited", "missing"}, Reviewers <- Reviewers, MayCrash <- TRUE, MaxEdits <- 2,
    checkpoints <- saved, edits <- edited, overwritten <- replaced

LEMMA ReviewsAreMerges ==
    /\ Reviews!Init => Merges!Init
    /\ Reviews!Next => Merges!Next
    /\ Reviews!ProposalsAssumption => Merges!ProposalsAssumption
    /\ Merges!OverwrittenIsCheckpointed => Reviews!OverwrittenIsCheckpointed
    /\ Merges!ProposalsDoNotOverwriteEachOther => Reviews!ProposalsDoNotOverwriteEachOther
<1>1. Reviews!Init => Merges!Init
  BY Zenon DEF Reviews!Init, Merges!Init, Reviews!Resting, Merges!Resting
<1>2. ASSUME NEW t \in Reviewers, Reviews!ReviewStep(t) PROVE Merges!ReviewStep(t)
  <2>1. CASE Reviews!CheckHashes(t)
    BY <2>1, Zenon DEF Reviews!CheckHashes, Merges!CheckHashes, Merges!ReviewStep,
       Reviews!Fresh, Merges!Fresh, Reviews!ClaimedBy, Merges!ClaimedBy, Reviews!Goto, Merges!Goto
  <2>2. CASE Reviews!Stale(t)
    BY <2>2, Zenon DEF Reviews!Stale, Merges!Stale, Merges!ReviewStep, Reviews!Resting, Merges!Resting,
       Reviews!Fresh, Merges!Fresh, Reviews!ClaimedBy, Merges!ClaimedBy
  <2>3. CASE Reviews!Validate(t)
    BY <2>3, Zenon DEF Reviews!Validate, Merges!Validate, Merges!ReviewStep, Reviews!Resting, Merges!Resting
  <2>4. CASE Reviews!CreateCheckpoint(t)
    BY <2>4, Zenon DEF Reviews!CreateCheckpoint, Merges!CreateCheckpoint, Merges!ReviewStep,
       Reviews!ClaimedBy, Merges!ClaimedBy, Reviews!Goto, Merges!Goto
  <2>5. CASE Reviews!Apply(t)
    BY <2>5, Zenon DEF Reviews!Apply, Merges!Apply, Merges!ReviewStep
  <2>6. CASE Reviews!Applied(t)
    BY <2>6, Zenon DEF Reviews!Applied, Merges!Applied, Merges!ReviewStep, Reviews!Goto, Merges!Goto
  <2>7. CASE Reviews!Record(t)
    BY <2>7, Zenon DEF Reviews!Record, Merges!Record, Merges!ReviewStep, Reviews!Resting, Merges!Resting
  <2>8. CASE Reviews!ApplyRaises(t)
    BY <2>8, Zenon DEF Reviews!ApplyRaises, Merges!ApplyRaises, Merges!ReviewStep, Reviews!Resting, Merges!Resting
  <2> QED BY <1>2, <2>1, <2>2, <2>3, <2>4, <2>5, <2>6, <2>7, <2>8, Zenon DEF Reviews!ReviewStep
<1>3. ASSUME NEW t \in Reviewers, NEW approved \in BOOLEAN, Reviews!Begin(t, approved)
      PROVE Merges!Begin(t, approved)
  BY <1>3, Zenon DEF Reviews!Begin, Merges!Begin, Reviews!Resting, Merges!Resting
<1>4. ASSUME NEW p \in ReviewPaths, Reviews!Edit(p) PROVE Merges!Edit(p)
  BY <1>4, Zenon DEF Reviews!Edit, Merges!Edit
<1>5. Reviews!Crash => Merges!Crash
  BY Zenon DEF Reviews!Crash, Merges!Crash, Reviews!Resting, Merges!Resting
<1>6. Reviews!Next => Merges!Next
  BY <1>2, <1>3, <1>4, <1>5, Zenon DEF Reviews!Next, Merges!Next
<1>7. Reviews!ProposalsAssumption => Merges!ProposalsAssumption
  BY Zenon DEF Reviews!ProposalsAssumption, Merges!ProposalsAssumption
<1>8. Merges!OverwrittenIsCheckpointed => Reviews!OverwrittenIsCheckpointed
  BY Zenon DEF Reviews!OverwrittenIsCheckpointed, Merges!OverwrittenIsCheckpointed
<1>9. Merges!ProposalsDoNotOverwriteEachOther => Reviews!ProposalsDoNotOverwriteEachOther
  BY Zenon DEF Reviews!ProposalsDoNotOverwriteEachOther, Merges!ProposalsDoNotOverwriteEachOther,
     Reviews!ClaimedBy, Merges!ClaimedBy
<1> QED BY <1>1, <1>6, <1>7, <1>8, <1>9

\* The proposals of the instance are what the lemmas assume of proposals.
LEMMA MergesAssumptions ==
    /\ Merges!ProposalsAssumption /\ Merges!SoleReviewer /\ Merges!ContentsAreDistinct
    /\ DOMAIN [p \in ReviewPaths |-> IF p = "c" THEN "missing" ELSE "old"] = ReviewPaths
<1>1. Merges!ProposalsAssumption
  BY QueueAssumption, ReviewsAreMerges
<1>2. Merges!SoleReviewer
  BY DEF Merges!SoleReviewer, Reviewers
<1>3. Merges!ContentsAreDistinct
  BY DEF Merges!ContentsAreDistinct, Merges!ClaimedBy, ReviewNodes, ReviewPaths, ReviewClaims
<1> QED BY <1>1, <1>2, <1>3

ChangesInv == ToolInv /\ Merges!ReviewInv /\ Merges!OverlapInv /\ MergeInv
ChangesVars == <<subject, vars, reviewVars, subagentVars>>
ChangesNext == InTools \/ InReviews \/ InSubagents

LEMMA ChangesInvInit ==
    ASSUME ChangesInit
    PROVE ChangesInv
<1>1. Init /\ Merges!Init /\ SubagentsInit
  BY ReviewsAreMerges DEF ChangesInit
<1>2. Merges!ReviewInv
  BY <1>1, MergesAssumptions, Merges!ReviewInvInit
<1>3. Merges!OverlapInv
  BY <1>1, Merges!OverlapInvInit
<1> QED BY <1>1, <1>2, <1>3, ToolInvInit, MergeInvInit DEF ChangesInv

LEMMA ChangesInvStep ==
    ASSUME ChangesInv, [ChangesNext]_ChangesVars
    PROVE ChangesInv'
<1>1. [Next]_vars
  BY DEF ChangesNext, ChangesVars, InTools, InReviews, InSubagents
<1>2. ToolInv'
  BY <1>1, ToolInvStep DEF ChangesInv
<1>3. UNCHANGED reviewVars \/ Merges!Next
  BY ReviewsAreMerges DEF ChangesNext, ChangesVars, InTools, InReviews, InSubagents
<1>4. [Merges!Next]_Merges!vars
  BY <1>3 DEF reviewVars, Merges!vars
<1>5. Merges!ReviewInv'
  BY <1>4, MergesAssumptions, Merges!ReviewInvStep DEF ChangesInv
<1>6. Merges!OverlapInv'
  BY <1>4, MergesAssumptions, Merges!OverlapInvStep DEF ChangesInv
<1>7. SubagentsNext \/ UNCHANGED subagentVars
  BY DEF ChangesNext, ChangesVars, InTools, InReviews, InSubagents
<1>8. CASE SubagentsNext
  BY <1>2, <1>5, <1>6, <1>8, MergeInvStep DEF ChangesInv
<1>9. CASE UNCHANGED subagentVars
  <2>1. MergeInv'
    BY <1>9 DEF ChangesInv, subagentVars, MergeInv, TypeInv, CheckedHolds, SwapsAreGuarded, Committed, Holds
  <2> QED BY <1>2, <1>5, <1>6, <2>1 DEF ChangesInv
<1> QED BY <1>7, <1>8, <1>9

LEMMA ChangesSteps == ChangesSpec => ChangesInit /\ [][ChangesNext]_ChangesVars
BY PTL DEF ChangesSpec, ChangesNext, ChangesVars

\* The assistant prepares no more than it was asked, below the root it chose, and a
\* subagent's merge, also one that raised half-way, touches nothing it had not seen,
\* whoever works (tool_calling_agent.py:78, :204, subagents.py:56).
THEOREM AgentsAreKept == ChangesSpec => []AgentsKeepToTheirTask
<1>1. ChangesInv => AgentsKeepToTheirTask
  BY ToolInvImplies DEF ChangesInv, MergeInv, SwapsAreGuarded, Committed, MergesAreGuarded, AgentsKeepToTheirTask
<1> QED
  BY ChangesSteps, ChangesInvInit, ChangesInvStep, <1>1, PTL

\* Whatever an approved diff, a rewind or, with one review at a time, a merge of the
\* queue replaced is in a checkpoint, except what a person saved after it was made,
\* and is never what another proposal of the queue put there (checkpoints.py:33,
\* merge_queue.py:58, :64).
THEOREM ReplacedCanBeBroughtBack == ChangesSpec => []ReplacedIsRecoverable
<1>1. ChangesInv => ReplacedIsRecoverable
  BY ToolInvImplies, MergesAssumptions, Merges!OverlapIsSafe, ReviewsAreMerges
     DEF ChangesInv, Merges!ReviewInv, ReplacedIsRecoverable
<1> QED
  BY ChangesSteps, ChangesInvInit, ChangesInvStep, <1>1, PTL

\* A diff is applied to the text it was made from, and a rewind is done whole or
\* not at all, whoever edits in between and whichever copy fails, but for what is
\* saved between the comparison and the write or during the rewind
\* (tool_handlers.py:707, checkpoints.py:114).
THEOREM ChangesAreAgreed == ChangesSpec => FilesChangeAsAgreed
<1> DEFINE Exact ==
             approval = "checked" /\ approval' = "none" /\ outcome' = "applied" =>
                LET d == Head(pending)
                IN /\ d.path \notin slipped =>
                        /\ d.base = IF IsFile(d.path) THEN ReadText(d.path) ELSE <<>>
                        /\ IsFile(d.path) <=> d.exists
                   /\ \A p \in Paths \ Touched(d) : files'[p] = files[p]
           Whole ==
             restoring # Nothing /\ restoring' = Nothing /\ outcome' # "crashed" =>
                \E whole \in {restoring.target, restoring.backup} :
                    \A p \in DOMAIN restoring.target \ late : files'[p] = whole[p]
<1>1. ChangesInv /\ [ChangesNext]_ChangesVars => [Exact]_vars /\ [Whole]_vars
  <2>1. SUFFICES ASSUME ChangesInv, [ChangesNext]_ChangesVars, ~(UNCHANGED vars) PROVE Exact /\ Whole
    OBVIOUS
  <2>2. Next /\ ToolInv
    BY <2>1 DEF ChangesInv, ChangesNext, ChangesVars, InTools, InReviews, InSubagents
  <2> QED BY <2>2, ApprovalIsExact, RewindEndsWhole
<1>2. ChangesSpec => [][Exact]_vars /\ [][Whole]_vars
  <2> HIDE DEF Exact, Whole
  <2> QED BY ChangesSteps, ChangesInvInit, ChangesInvStep, <1>1, PTL
<1> QED
  BY <1>2, PTL DEF FilesChangeAsAgreed, AppliedAsReviewed, RewindIsWhole

=============================================================================

---------------------------- MODULE SkillsIndex ----------------------------
(***************************************************************************)
(* The skill index (graph/skills): one SQLite table that three parties     *)
(* write.  The agent adds a skill a subagent emitted; every boot and every *)
(* settings reload replaces the skills that come from SKILL.md files; and  *)
(* the curator, a program cron starts beside the running agent, decays,    *)
(* merges and prunes the emitted skills.  Each of them commits several     *)
(* small transactions, and a row is known by its rowid, which SQLite gives *)
(* out again once the largest one is deleted.                              *)
(*                                                                         *)
(* Confidence is counted in sixteenths and a day stands for one half-life, *)
(* so a decay factor 0.5^days is a shift.  A skill's text is its name:     *)
(* Alike holds the pairs whose similarity reaches the threshold.           *)
(***************************************************************************)
EXTENDS Integers, Sequences, FiniteSets, FiniteSetsExt, SequencesExt

CONSTANTS Names,        \* skill names
          DiskNames,    \* names that SKILL.md files define
          Alike,        \* pairs of names above SIMILARITY_THRESHOLD
          MaxId,        \* bound: largest rowid
          Days,         \* bound: the days, in half-lives, on which something happens
          MaxSeeds,     \* bound: boots and reloads
          MaxRuns,      \* bound: curator runs
          Null

SkillsAssumption ==
  /\ DiskNames \subseteq Names /\ MaxId \in Nat \ {0}
  /\ Days \subseteq Nat /\ 0 \in Days /\ {MaxSeeds, MaxRuns} \subseteq Nat
  /\ \A n \in Names : <<n, n>> \in Alike
  /\ \A p \in Alike : <<p[2], p[1]>> \in Alike

Full == 16                        \* confidence 1.0
Threshold == 4                    \* the least sixteenth that is >= PRUNE_THRESHOLD 0.2
Roots == {1, 2}                   \* bundled skills, then the operator's

VARIABLES rows,     \* rowid -> skill, the table skills_fts
          day,      \* the clock
          seeds,    \* boots and reloads so far
          seeding,  \* Null, or the disk skills a seeding has still to insert
          emitting, \* Null, or the skill whose earlier row was deleted
          curator   \* the curator's run

vars == <<rows, day, seeds, seeding, emitting, curator>>

Ids == 1..MaxId
Skill == [name: Names, root: {0} \cup Roots, conf: 0..Full, used: Days]
Emitted(r) == {i \in DOMAIN r : r[i].root = 0}
Disk(r) == {i \in DOMAIN r : r[i].root # 0}
Without(r, dead) == [i \in DOMAIN r \ dead |-> r[i]]

(* SQLite: the next rowid is one more than the largest. *)
NextId(r) == IF DOMAIN r = {} THEN 1 ELSE Max(DOMAIN r) + 1

Added(r, name, root) ==
  LET new == [name |-> name, root |-> root, conf |-> Full, used |-> day]
  IN [i \in DOMAIN r \cup {NextId(r)} |-> IF i \in DOMAIN r THEN r[i] ELSE new]

Idle(n) == [at |-> "idle", run |-> n, loaded |-> << >>, kept |-> << >>, doomed |-> {},
            quiet |-> TRUE]

Init == /\ rows = << >> /\ day = 0 /\ seeds = 0
        /\ seeding = Null /\ emitting = Null /\ curator = Idle(0)

(* The server wrote while the curator was at work. *)
Disturbed == curator' = [curator EXCEPT !.quiet = curator.at = "idle"]

\* Mutation: every root's file is a skill, overridden or not.
LoadFromDiskBug(folders) == UNION {{<<n, r>> : n \in folders[r]} : r \in Roots}

(***************************************************************************)
(* Human-authored skills: whatever SKILL.md files the roots hold by now, a *)
(* later root overrides an earlier one by name.                            *)
(***************************************************************************)
LoadFromDisk(folders) ==
  {<<n, Max({r \in Roots : n \in folders[r]})>> : n \in UNION {folders[r] : r \in Roots}}

Seed == /\ seeding = Null /\ seeds < MaxSeeds
        /\ seeds' = seeds + 1
        /\ rows' = Without(rows, Disk(rows))
        /\ \E folders \in [Roots -> SUBSET DiskNames] : seeding' = LoadFromDisk(folders)
        /\ Disturbed /\ UNCHANGED <<day, emitting>>

SeedOne == /\ seeding # Null
           /\ IF seeding = {}
              THEN seeding' = Null /\ UNCHANGED <<rows, curator>>
              ELSE \E s \in seeding :
                     /\ NextId(rows) \in Ids
                     /\ rows' = Added(rows, s[1], s[2])
                     /\ seeding' = seeding \ {s}
                     /\ Disturbed
           /\ UNCHANGED <<day, seeds, emitting>>

(***************************************************************************)
(* Emission by a subagent run: delete the emitted skill of that name, then *)
(* insert the new one.  Both happen in one call on the server's loop, so   *)
(* emissions do not overlap; seedings and the curator may come between.    *)
(***************************************************************************)
Emit(n) == /\ emitting = Null
           /\ rows' = Without(rows, {i \in Emitted(rows) : rows[i].name = n})
           /\ emitting' = n
           /\ Disturbed /\ UNCHANGED <<day, seeds, seeding>>

EmitInsert == /\ emitting # Null /\ NextId(rows) \in Ids
              /\ rows' = Added(rows, emitting, 0)
              /\ emitting' = Null
              /\ Disturbed /\ UNCHANGED <<day, seeds, seeding>>

(* The server stops between any two of its commits; the next boot seeds again. *)
Crash == /\ emitting # Null \/ seeding # Null
         /\ seeds < MaxSeeds
         /\ emitting' = Null /\ seeding' = Null
         /\ UNCHANGED <<rows, day, seeds, curator>>

Tick == /\ \E d \in Days : d > day /\ day' = d
        /\ UNCHANGED <<rows, seeds, seeding, emitting, curator>>

(* 0.5^days as a divisor; what is at most Full is gone after five half-lives. *)
Divisor(days) == IF days < 5 THEN <<1, 2, 4, 8, 16>>[days + 1] ELSE 32

\* Mutation: the decay factor grows.
DecayedBug(s) == [s EXCEPT !.conf = s.conf * Divisor(day - s.used)]

(***************************************************************************)
(* The curator.  It reads the emitted skills once, works out what to keep, *)
(* then reads the table again and deletes whatever it does not keep.       *)
(***************************************************************************)
Decayed(s) == [s EXCEPT !.conf = s.conf \div Divisor(day - s.used)]

(* Greedy clustering in table order: each skill that no earlier cluster has *)
(* taken leads one, and collects the later ones like it that are still free.*)
Like(c, i, j) == i < j /\ <<c[i].name, c[j].name>> \in Alike
Leaders(c) == CHOOSE L \in SUBSET DOMAIN c :
  \A i \in DOMAIN c : i \in L <=> ~\E j \in L : Like(c, j, i)
LeaderOf(c, i) ==
  IF i \in Leaders(c) THEN i ELSE Min({j \in Leaders(c) : Like(c, j, i)})
Clusters(c) == {{i \in DOMAIN c : LeaderOf(c, i) = l} : l \in Leaders(c)}

(* max() returns the first of the most confident. *)
Best(c, cluster) == Min({i \in cluster : \A j \in cluster : c[j].conf <= c[i].conf})

Deduplicated(c) == [i \in {Best(c, k) : k \in Clusters(c)} |-> c[i]]
Pruned(c) == [i \in {j \in DOMAIN c : c[j].conf >= Threshold} |-> c[i]]

Curate(c) == Pruned(Deduplicated([i \in DOMAIN c |-> Decayed(c[i])]))

CuratorLoads ==
  /\ curator.at = "idle" /\ curator.run < MaxRuns
  /\ LET loaded == [i \in Emitted(rows) |-> rows[i]]
     IN curator' = [Idle(curator.run + 1) EXCEPT !.at = "judged", !.loaded = loaded,
                                                   !.kept = Curate(loaded)]
  /\ UNCHANGED <<rows, day, seeds, seeding, emitting>>

(* _save_index reads the table again: what it finds and does not keep goes. *)
Doomed == Emitted(rows) \ DOMAIN curator.kept

CuratorRescans == /\ curator.at = "judged"
                  /\ curator' = [curator EXCEPT !.at = "deleting", !.doomed = Doomed]
                  /\ UNCHANGED <<rows, day, seeds, seeding, emitting>>

CuratorDeletes ==
  /\ curator.at = "deleting"
  /\ IF curator.doomed = {}
     THEN /\ curator' = [curator EXCEPT !.at = "updating", !.doomed = DOMAIN curator.kept]
          /\ UNCHANGED rows
     ELSE LET i == Min(curator.doomed)
          IN /\ rows' = Without(rows, {i})
             /\ curator' = [curator EXCEPT !.doomed = @ \ {i}]
  /\ UNCHANGED <<day, seeds, seeding, emitting>>

CuratorUpdates ==
  /\ curator.at = "updating"
  /\ IF curator.doomed = {}
     THEN curator' = [curator EXCEPT !.at = "saved"] /\ UNCHANGED rows
     ELSE LET i == Min(curator.doomed)
          IN /\ rows' = IF i \in DOMAIN rows
                        THEN [rows EXCEPT ![i].conf = curator.kept[i].conf] ELSE rows
             /\ curator' = [curator EXCEPT !.doomed = @ \ {i}]
  /\ UNCHANGED <<day, seeds, seeding, emitting>>

(* The audit line is the last thing a run writes. *)
CuratorAudits == /\ curator.at = "saved" /\ curator' = Idle(curator.run)
                 /\ UNCHANGED <<rows, day, seeds, seeding, emitting>>

Next == \/ Seed \/ SeedOne \/ Crash \/ Tick \/ EmitInsert
        \/ \E n \in Names : Emit(n)
        \/ CuratorLoads \/ CuratorRescans \/ CuratorDeletes
        \/ CuratorUpdates \/ CuratorAudits

Spec == Init /\ [][Next]_vars

(***************************************************************************)
(* Properties                                                              *)
(***************************************************************************)
(* Rowids, skills, the clock and the curator's run have their types. *)
TypeOK ==
  /\ DOMAIN rows \subseteq Ids /\ \A i \in DOMAIN rows : rows[i] \in Skill
  /\ day \in Days /\ seeds \in 0..MaxSeeds
  /\ emitting \in Names \cup {Null}
  /\ seeding = Null \/ seeding \subseteq DiskNames \X Roots
  /\ curator.at \in {"idle", "judged", "deleting", "updating", "saved"}
  /\ DOMAIN curator.kept \subseteq DOMAIN curator.loaded

(* However boots, emissions, crashes and curator runs fall together, the    *)
(* index never holds two emitted skills of one name nor two SKILL.md skills *)
(* of one name ("repeated runs refresh rather than accumulate").            *)
OnePerName ==
  \A i, j \in DOMAIN rows :
    i # j /\ rows[i].name = rows[j].name => (rows[i].root = 0) # (rows[j].root = 0)

(* When a curator run that had the index to itself is done, the emitted     *)
(* skills are exactly those it kept, at their new confidence; and for each  *)
(* skill it read that was not too faded to keep, it kept one at least as    *)
(* sure that shares a look-alike with it.                                   *)
QuietRunExact ==
  curator.at = "saved" /\ curator.quiet =>
    LET judged == [i \in DOMAIN curator.loaded |-> Decayed(curator.loaded[i])]
    IN /\ [i \in Emitted(rows) |-> rows[i]] = curator.kept
       /\ \A i \in DOMAIN judged : judged[i].conf >= Threshold =>
            \E j \in DOMAIN curator.kept :
              /\ curator.kept[j].conf >= judged[i].conf
              /\ \E s \in DOMAIN judged : /\ <<judged[s].name, judged[i].name>> \in Alike
                                          /\ <<judged[s].name, judged[j].name>> \in Alike

(* The index is free of doubles, and the curator does what it decided. *)
IndexSound == OnePerName /\ QuietRunExact

(* A step by which the curator, undisturbed or not, writes the index. *)
CuratorStep ==
  curator.at \in {"deleting", "updating"} /\ curator' # curator /\ curator'.quiet = curator.quiet

(* Not so: the curator leaves the SKILL.md skills alone.  One may have been  *)
(* given the rowid of a skill that it judged.                                *)
DiskPinned == [][CuratorStep => \A i \in Disk(rows) : i \in DOMAIN rows' /\ rows'[i] = rows[i]]_vars

(* Not so, over two runs: "confidence decays with a 90-day half-life of inactivity": a skill nobody *)
(* touched for d half-lives still has 0.5^d of its confidence.               *)
HalfLife == curator.at = "saved" /\ curator.quiet =>
  \A i \in Emitted(rows) : rows[i].conf >= Full \div Divisor(day - rows[i].used)

(* Not so: "skills removed by dedup/prune (present in the store but not in kept) are *)
(* deleted": the curator deletes only skills it has read and judged.         *)
OnlyJudged == [][CuratorStep =>
  \A i \in DOMAIN rows \ DOMAIN rows' : i \in DOMAIN curator.loaded /\ curator.loaded[i] = rows[i]]_vars
=============================================================================

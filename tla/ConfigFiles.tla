----------------------------- MODULE ConfigFiles -----------------------------
(***************************************************************************)
(* langgraph-config.yaml and secrets.yaml and those who rewrite them:      *)
(* settings saves and the wizard in worker threads (agent_init.py,         *)
(* config_io.py, settings_schema.py), the delegates panel on the event     *)
(* loop (plugins/delegates), plugin removal (graph/plugins/installer.py,   *)
(* also a process of its own), and the operator's editor.  Each reads a    *)
(* whole file, changes it and writes it back; nothing locks.  The health   *)
(* prober reads along.                                                     *)
(*                                                                         *)
(* Validation, comments, the SOUL and autostart files and the reload that  *)
(* follows a save (AgentReload) are left out.                              *)
(***************************************************************************)
EXTENDS Naturals, FiniteSets

CONSTANTS
  Plain,      \* settings
  Secret,     \* secret settings
  Purged,     \* the settings and secrets of a plugin that may be removed
  Names,      \* of delegates
  Values,
  Savers,     \* threads that save settings
  Loop,       \* the event loop
  Remover,    \* a plugin removal from the command line
  MaxRuns,    \* bound on the runs of writers
  None

FilesAssumption ==
  /\ Plain \cap Secret = {} /\ Names \cap (Plain \union Secret) = {}
  /\ Purged \subseteq Plain \union Secret
  /\ Loop \notin Savers /\ Remover \notin Savers \union {Loop}
  /\ MaxRuns \in Nat /\ None \notin Values

VARIABLES
  yaml,       \* langgraph-config.yaml
  secrets,    \* secrets.yaml
  torn,       \* files that are truncated and not written yet
  writer,     \* the runs under way
  runs,       \* how many there were
  panel,      \* the settings a form shows, as it loaded them
  sweep,      \* the prober's round: entries to probe, names seen
  health,     \* the entry whose probe is shown for a delegate
  \* History, read by the properties only.
  want,       \* what the operator has asked for
  spoiled,    \* keys a failed or overlapping run may have lost
  hand,       \* secrets the operator wrote into the YAML
  changed     \* delegates changed since the prober's last round began

history == <<want, spoiled, hand>>
probing == <<sweep, health, changed>>
vars == <<yaml, secrets, torn, writer, runs, panel, probing, history>>

Actors == Savers \union {Loop, Remover}
Keys == Plain \union Secret \union Names
Maybe == Values \union {None}
Files == {"yaml", "secrets"}

\* Documents: the settings, secrets in the wrong place, the delegates without and
\* the secrets with their credentials. A truncated file reads as an empty one.
Doc == [plain : [Plain -> Maybe], secret : [Secret -> Maybe],
        entry : [Names -> Maybe], cred : [Names -> Maybe]]
EmptyDoc == [plain |-> [p \in Plain |-> None], secret |-> [s \in Secret |-> None],
             entry |-> [n \in Names |-> None], cred |-> [n \in Names |-> None]]

Blank == [pc |-> None, kind |-> None, upd |-> EmptyDoc, name |-> None,
          list |-> EmptyDoc.entry, doc |-> EmptyDoc]

TypeOK ==
  /\ yaml \in Doc /\ secrets \in Doc
  /\ torn \subseteq Files
  /\ DOMAIN writer \subseteq Actors
  /\ \A a \in DOMAIN writer :
       /\ writer[a].pc \in {"secrets", "replace", "list", "load", "truncate", "dump", "cut",
                            "cutdump"}
       /\ writer[a].upd \in Doc /\ writer[a].doc \in Doc
  /\ runs \in 0..MaxRuns
  /\ panel \in [Plain -> Maybe] \union {None}
  /\ health \in [Names -> Maybe]
  /\ want \in [Keys -> Maybe \X Maybe]
  /\ spoiled \subseteq Keys /\ hand \subseteq Secret /\ changed \subseteq Names

Init ==
  /\ yaml = EmptyDoc /\ secrets = EmptyDoc
  /\ torn = {} /\ runs = 0
  /\ writer = [a \in {} |-> Blank]
  /\ panel = None
  /\ sweep = [on |-> FALSE, todo |-> {}, seen |-> {}]
  /\ health = EmptyDoc.entry
  /\ want = [k \in Keys |-> <<None, None>>]
  /\ spoiled = {} /\ hand = {}
  /\ changed = Names
-----------------------------------------------------------------------------
(* What the files mean *)

ReadYaml == IF "yaml" \in torn THEN EmptyDoc ELSE yaml
ReadSecrets == IF "secrets" \in torn THEN EmptyDoc ELSE secrets

First(x, y) == IF x # None THEN x ELSE y

\* merged_delegates: an entry with the credential stored under its name.
Delegate(n) ==
  <<yaml.entry[n], IF yaml.entry[n] = None THEN None ELSE First(secrets.cred[n], yaml.cred[n])>>

\* from_yaml: the secrets file comes before the YAML.
Effective(k) ==
  IF k \in Plain THEN <<yaml.plain[k], None>>
  ELSE IF k \in Secret THEN <<First(secrets.secret[k], yaml.secret[k]), None>>
  ELSE Delegate(k)

\* Mutation: a save writes the secrets it was given and no others.
MergedBug(secretsDoc, upd) == [upd EXCEPT !.plain = EmptyDoc.plain, !.entry = EmptyDoc.entry]

\* save_secrets: non-blank values over what the file has.
Merged(secretsDoc, upd) ==
  [secretsDoc EXCEPT !.secret = [s \in Secret |-> First(upd.secret[s], @[s])],
                     !.cred = [n \in Names |-> First(upd.cred[n], @[n])]]

\* apply_updates_to_yaml and strip_secrets_from_doc.
Applied(doc, upd) ==
  [doc EXCEPT !.plain = [p \in Plain |-> First(upd.plain[p], @[p])], !.secret = EmptyDoc.secret]

\* _route_secret leaves the entry without its credential; the list is the one read
\* before.
Listed(doc, w) == [doc EXCEPT !.entry = [w.list EXCEPT ![w.name] = w.upd.entry[w.name]]]
-----------------------------------------------------------------------------
(* Runs *)

Busy(a) == a \in DOMAIN writer
At(a, pc) == Busy(a) /\ writer[a].pc = pc
KeysOf(w) ==
  CASE w.kind = "save" -> {p \in Plain : w.upd.plain[p] # None}
                            \union {s \in Secret : w.upd.secret[s] # None}
    [] w.kind \in {"upsert", "delete"} -> {w.name}
    [] w.kind = "purge" -> Purged
    [] OTHER -> {}

Others(a) == DOMAIN writer \ {a}
Touched(a, w) ==
  IF Others(a) = {} THEN {} ELSE KeysOf(w) \union UNION {KeysOf(writer[b]) : b \in Others(a)}

Begin(a, w) ==
  /\ runs < MaxRuns /\ ~Busy(a)
  /\ writer' = [b \in DOMAIN writer \union {a} |-> IF b = a THEN w ELSE writer[b]]
  /\ runs' = runs + 1
  /\ spoiled' = spoiled \union Touched(a, w)
  /\ UNCHANGED <<yaml, secrets, torn, panel, probing, want, hand>>

\* A settings save: the keys that were changed, or with `form` all that the form
\* shows. A blank secret is dropped on the way.
Save(a, p, v, form) ==
  LET shown == IF form THEN panel ELSE EmptyDoc.plain
      upd == [EmptyDoc EXCEPT !.plain = [shown EXCEPT ![p] = v]]
  IN /\ a \in Savers
     /\ form => panel # None
     /\ Begin(a, [Blank EXCEPT !.pc = "load", !.kind = "save", !.upd = upd])

SaveSecret(a, s, v) ==
  /\ a \in Savers
  /\ Begin(a, [Blank EXCEPT !.pc = "secrets", !.kind = "save",
                           !.upd = [EmptyDoc EXCEPT !.secret[s] = v]])

\* POST and PUT of a delegate: its credential, unless blank, is saved first.
Upsert(n, entry, cred) ==
  Begin(Loop, [Blank EXCEPT !.pc = IF cred = None THEN "list" ELSE "secrets",
                           !.kind = "upsert", !.name = n,
                           !.upd = [EmptyDoc EXCEPT !.entry[n] = entry, !.cred[n] = cred]])

Delete(n) == Begin(Loop, [Blank EXCEPT !.pc = "list", !.kind = "delete", !.name = n])

\* uninstall --purge, from the console or the command line.
Purge(a) ==
  /\ a \in {Loop, Remover}
  /\ Begin(a, [Blank EXCEPT !.pc = "load", !.kind = "purge"])

Step(a, w) == writer' = [writer EXCEPT ![a] = w]
Leave(a) == writer' = [b \in Others(a) |-> writer[b]]

\* A file read while another run has it truncated costs everything in it.
Lost(f) == IF f \in torn THEN Keys ELSE {}

SecretsRead(a) ==
  /\ At(a, "secrets")
  /\ Step(a, [writer[a] EXCEPT !.pc = "replace", !.doc = ReadSecrets])
  /\ spoiled' = spoiled \union Lost("secrets")
  /\ UNCHANGED <<yaml, secrets, torn, runs, panel, probing, want, hand>>

\* os.replace.
SecretsReplace(a) ==
  LET w == writer[a]
  IN /\ At(a, "replace")
     /\ secrets' = Merged(w.doc, w.upd)
     /\ torn' = torn \ {"secrets"}
     /\ Step(a, [w EXCEPT !.pc = IF w.kind = "save" THEN "load" ELSE "list"])
     /\ UNCHANGED <<yaml, runs, panel, probing, history>>

ListRead(a) ==
  /\ At(a, "list")
  /\ Step(a, [writer[a] EXCEPT !.pc = "load", !.list = ReadYaml.entry])
  /\ spoiled' = spoiled \union Lost("yaml")
  /\ UNCHANGED <<yaml, secrets, torn, runs, panel, probing, want, hand>>

\* load_yaml_doc, and the change to the document. A removal that finds nothing to
\* change writes nothing.
YamlRead(a) ==
  LET w == writer[a]
      read == ReadYaml
      doc == CASE w.kind = "save" -> Applied(read, w.upd)
               [] w.kind \in {"upsert", "delete"} -> Listed(read, w)
               [] w.kind = "purge" ->
                    [read EXCEPT !.plain = [p \in Plain |-> IF p \in Purged THEN None ELSE @[p]],
                                 !.secret = [s \in Secret |-> IF s \in Purged THEN None ELSE @[s]]]
  IN /\ At(a, "load")
     /\ Step(a, [w EXCEPT !.doc = doc,
                          !.pc = IF w.kind = "purge" /\ doc = read THEN "cut" ELSE "truncate"])
     /\ spoiled' = spoiled \union Lost("yaml")
     /\ UNCHANGED <<yaml, secrets, torn, runs, panel, probing, want, hand>>

Truncate(a) ==
  /\ At(a, "truncate")
  /\ torn' = torn \union {"yaml"}
  /\ Step(a, [writer[a] EXCEPT !.pc = "dump"])
  /\ UNCHANGED <<yaml, secrets, runs, panel, probing, history>>

\* What the operator wants once a run is done; a run on which no other intruded makes
\* good what was spoiled of its keys.
Asked(w) ==
  [k \in Keys |->
     IF k \notin KeysOf(w) THEN want[k]
     ELSE CASE w.kind = "purge" -> <<None, None>>
            [] w.kind = "save" -> <<IF k \in Plain THEN w.upd.plain[k] ELSE w.upd.secret[k], None>>
            [] w.kind = "delete" -> <<None, None>>
            [] w.kind = "upsert" -> <<w.upd.entry[k], First(w.upd.cred[k], secrets.cred[k])>>]

\* A secret that only the YAML had is gone with the save that strips it.
Stripped(w) ==
  IF w.kind = "save"
  THEN {s \in Secret : w.doc.secret[s] = None /\ secrets.secret[s] = None /\ yaml.secret[s] # None}
  ELSE {}

Ended(a, alone) ==
  LET w == writer[a]
  IN /\ Leave(a)
     /\ want' = Asked(w)
     /\ spoiled' = IF Others(a) = {} /\ alone THEN spoiled \union Stripped(w)
                   ELSE spoiled \union KeysOf(w) \union Stripped(w)

Note(doc) ==
  changed' = changed \union {n \in Names : doc.entry[n] # yaml.entry[n]}

Dump(a) ==
  LET w == writer[a]
  IN /\ At(a, "dump")
     /\ yaml' = w.doc
     /\ torn' = torn \ {"yaml"}
     /\ Note(w.doc)
     /\ IF w.kind = "purge"
        THEN Step(a, [w EXCEPT !.pc = "cut"]) /\ UNCHANGED <<want, spoiled>>
        ELSE Ended(a, TRUE)
     /\ UNCHANGED <<secrets, runs, panel, sweep, health, hand>>

\* _clean_secrets rewrites secrets.yaml in place.
Cut(a) ==
  LET w == writer[a]
      kept == [ReadSecrets EXCEPT !.secret = [s \in Secret |-> IF s \in Purged THEN None ELSE @[s]]]
  IN /\ At(a, "cut")
     /\ IF kept = ReadSecrets
        THEN Ended(a, "secrets" \notin torn) /\ UNCHANGED torn
        ELSE /\ Step(a, [w EXCEPT !.pc = "cutdump", !.doc = kept])
             /\ torn' = torn \union {"secrets"}
             /\ UNCHANGED <<want, spoiled>>
     /\ UNCHANGED <<yaml, secrets, runs, panel, probing, hand>>

CutDump(a) ==
  /\ At(a, "cutdump")
  /\ secrets' = writer[a].doc
  /\ torn' = torn \ {"secrets"}
  /\ Ended(a, TRUE)
  /\ UNCHANGED <<yaml, runs, panel, probing, hand>>

\* A step raises or the process dies: a truncated file stays so.
Fail(a) ==
  LET w == writer[a]
      cut == CASE w.pc = "dump" -> {"yaml"} [] w.pc = "cutdump" -> {"secrets"} [] OTHER -> {}
  IN /\ Busy(a)
     /\ Leave(a)
     /\ yaml' = IF "yaml" \in cut THEN EmptyDoc ELSE yaml
     /\ secrets' = IF "secrets" \in cut THEN EmptyDoc ELSE secrets
     /\ torn' = torn \ cut
     /\ Note(yaml')
     /\ spoiled' = spoiled \union IF cut # {} THEN Keys ELSE KeysOf(w) \union Touched(a, w)
     /\ UNCHANGED <<runs, panel, sweep, health, want, hand>>
-----------------------------------------------------------------------------
(* The form, the editor, the prober *)

\* build_schema: the settings; of a secret only whether it is set.
Shown == yaml.plain

\* config_to_dict: the form loads them, and shows blanks for the secrets.
Open ==
  /\ torn = {}
  /\ panel' = Shown
  /\ UNCHANGED <<yaml, secrets, torn, writer, runs, probing, history>>

\* The operator writes a secret into the YAML, at rest.
HandEdit(s, v) ==
  /\ DOMAIN writer = {}
  /\ runs < MaxRuns /\ runs' = runs + 1
  /\ yaml' = [yaml EXCEPT !.secret[s] = v]
  /\ hand' = hand \union {s}
  /\ want' = [want EXCEPT ![s] = <<First(secrets.secret[s], v), None>>]
  /\ UNCHANGED <<secrets, torn, writer, panel, probing, spoiled>>

\* _probe_all: the delegates of the moment are probed one by one, each awaited.
SweepBegins ==
  /\ ~sweep.on
  /\ LET there == {n \in Names : ReadYaml.entry[n] # None}
     IN sweep' = [on |-> TRUE, todo |-> {<<n, yaml.entry[n]>> : n \in there}, seen |-> there]
  /\ changed' = IF "yaml" \in torn THEN Names ELSE {}
  /\ UNCHANGED <<yaml, secrets, torn, writer, runs, panel, health, history>>

Probe(e) ==
  /\ sweep.on /\ e \in sweep.todo
  /\ sweep' = [sweep EXCEPT !.todo = @ \ {e}]
  /\ health' = [health EXCEPT ![e[1]] = e[2]]
  /\ UNCHANGED <<yaml, secrets, torn, writer, runs, panel, changed, history>>

\* The names that were not seen are pruned.
SweepEnds ==
  /\ sweep.on /\ sweep.todo = {}
  /\ sweep' = [on |-> FALSE, todo |-> {}, seen |-> {}]
  /\ health' = [n \in Names |-> IF n \in sweep.seen THEN health[n] ELSE None]
  /\ UNCHANGED <<yaml, secrets, torn, writer, runs, panel, changed, history>>
-----------------------------------------------------------------------------
Next ==
  \/ \E a \in Actors :
       \/ \E p \in Plain, v \in Values, form \in BOOLEAN : Save(a, p, v, form)
       \/ \E s \in Secret, v \in Values : SaveSecret(a, s, v)
       \/ Purge(a)
       \/ SecretsRead(a) \/ SecretsReplace(a) \/ ListRead(a) \/ YamlRead(a)
       \/ Truncate(a) \/ Dump(a) \/ Cut(a) \/ CutDump(a) \/ Fail(a)
  \/ \E n \in Names, entry \in Values, cred \in Maybe : Upsert(n, entry, cred)
  \/ \E n \in Names : Delete(n)
  \/ Open
  \/ \E s \in Secret, v \in Values : HandEdit(s, v)
  \/ SweepBegins \/ SweepEnds
  \/ \E n \in Names, v \in Values : Probe(<<n, v>>)

Spec == Init /\ [][Next]_vars
-----------------------------------------------------------------------------
(* Safety *)

AtWork == UNION {KeysOf(writer[a]) : a \in DOMAIN writer}

\* What was asked for is what the files say, whoever saved in whatever order: a run
\* changes only its own keys, a blank secret none, and two runs that overlap can lose
\* each other's keys only; except for a file that is read while it is truncated.
AskedIsKept == \A k \in Keys \ (spoiled \union AtWork) : Effective(k) = want[k]

\* No writer puts a secret into the tracked file.
SecretsApart ==
  /\ \A s \in Secret : yaml.secret[s] # None => s \in hand
  /\ \A n \in Names : yaml.cred[n] = None

\* Once a round is over, what is shown of a delegate that has not changed since the
\* round began is of its entry.
HealthOfEntry == ~sweep.on => \A n \in Names \ changed : health[n] = yaml.entry[n]

FilesSound == AskedIsKept /\ SecretsApart /\ HealthOfEntry
=============================================================================

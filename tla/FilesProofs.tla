----------------------------- MODULE FilesProofs ----------------------------
(* What the writers of the configuration files keep, what is shown of a delegate's health   *)
(* and what the knowledge base keeps, proved for all values of the constants.               *)
EXTENDS StoresProofs, TLAPS

LEMMA FileMoves == [Next]_vars => [Config!Next]_fileVars
  BY DEF Next, vars

Kinds == {"save", "upsert", "delete", "purge"}
FileRun ==
  [pc : {"secrets", "replace", "list", "load", "truncate", "dump", "cut", "cutdump"},
   kind : Kinds, upd : Config!Doc, name : Delegated \union {Null},
   list : [Delegated -> Config!Maybe], doc : Config!Doc]

\* What the runs of each kind have to write, and where they are.
Shaped(w) ==
  /\ w.kind = "save" => /\ w.upd.cred = Config!EmptyDoc.cred
                        /\ w.pc \in {"secrets", "replace", "load", "truncate", "dump"}
  /\ w.kind \in {"upsert", "delete"} =>
       /\ w.name \in Delegated /\ w.upd.secret = Config!EmptyDoc.secret
       /\ \A m \in Delegated \ {w.name} : w.upd.cred[m] = Null
  /\ w.kind = "upsert" => /\ w.upd.entry[w.name] # Null
                          /\ w.pc \in {"secrets", "replace", "list", "load", "truncate", "dump"}
  /\ w.kind = "delete" => /\ w.upd.entry[w.name] = Null
                          /\ w.pc \in {"list", "load", "truncate", "dump"}
  /\ w.kind = "purge" => w.pc \in {"load", "truncate", "dump", "cut", "cutdump"}

FileType ==
  /\ yaml \in Config!Doc /\ secrets \in Config!Doc
  /\ writer = [x \in DOMAIN writer |-> writer[x]]
  /\ \A x \in DOMAIN writer : writer[x] \in FileRun /\ Shaped(writer[x])
  /\ panel = Null \/ panel \in [Plain -> Config!Maybe]
  /\ want = [k \in Config!Keys |-> want[k]]

\* What a run holds is what the files say of all keys that are not its own.
Free(k, w) == k \notin spoiled \union Config!KeysOf(w)
Agrees(w) ==
  /\ w.pc \in {"replace", "cutdump"} =>
       /\ \A s \in Secret : Free(s, w) => w.doc.secret[s] = secrets.secret[s]
       /\ \A m \in Delegated : Free(m, w) => w.doc.cred[m] = secrets.cred[m]
  /\ w.pc = "load" /\ w.kind \in {"upsert", "delete"} =>
       \A m \in Delegated : Free(m, w) => w.list[m] = yaml.entry[m]
  /\ w.pc \in {"truncate", "dump"} =>
       /\ \A p \in Plain : Free(p, w) => w.doc.plain[p] = yaml.plain[p]
       /\ \A m \in Delegated : Free(m, w) => w.doc.entry[m] = yaml.entry[m]
       /\ \A s \in Secret : Free(s, w) =>
            w.kind = "save" \/ secrets.secret[s] # Null \/ w.doc.secret[s] = yaml.secret[s]

\* Of its own keys the document it will write says what was asked.
Says(w) ==
  /\ w.pc \in {"truncate", "dump"} =>
       /\ w.kind = "save" =>
            /\ \A p \in Plain : w.upd.plain[p] # Null => w.doc.plain[p] = w.upd.plain[p]
            /\ \A s \in Secret : w.doc.secret[s] = Null
       /\ w.kind \in {"upsert", "delete"} => w.doc.entry[w.name] = w.upd.entry[w.name]
       /\ w.kind = "purge" =>
            /\ \A p \in Plain : p \in Purged => w.doc.plain[p] = Null
            /\ \A s \in Secret : s \in Purged => w.doc.secret[s] = Null
  /\ w.pc = "cutdump" => \A s \in Secret : s \in Purged => w.doc.secret[s] = Null

\* What it has written of its own keys is still there, if no other run came in between.
Wrote(w) ==
  /\ w.pc \in {"list", "load", "truncate", "dump"} =>
       /\ w.kind = "upsert" /\ w.name \notin spoiled /\ w.upd.cred[w.name] # Null
            => secrets.cred[w.name] = w.upd.cred[w.name]
       /\ w.kind = "save" =>
            \A s \in Secret \ spoiled : w.upd.secret[s] # Null => secrets.secret[s] = w.upd.secret[s]
  /\ w.pc \in {"cut", "cutdump"} =>
       /\ \A p \in Plain \ spoiled : p \in Purged => yaml.plain[p] = Null
       /\ \A s \in Secret \ spoiled : s \in Purged => yaml.secret[s] = Null

\* A document for the tracked file has no secret that was not put there by hand.
Tidy(d) ==
  /\ \A s \in Secret : d.secret[s] # Null => s \in hand
  /\ \A m \in Delegated : d.cred[m] = Null

Fine(x) ==
  LET w == writer[x]
  IN /\ Agrees(w) /\ Says(w) /\ Wrote(w)
     /\ w.pc \in {"truncate", "dump"} => Tidy(w.doc)

\* Runs that overlap have spoiled their keys.
Overlap == \A x, y \in DOMAIN writer : x # y => Config!KeysOf(writer[x]) \subseteq spoiled

FileInv ==
  /\ FileType
  /\ Overlap
  /\ \A x \in DOMAIN writer : Fine(x)
  /\ Tidy(yaml)
  /\ Config!AskedIsKept

LEMMA FileConstants ==
  /\ Plain \cap Secret = {} /\ Delegated \cap (Plain \union Secret) = {}
  /\ Purged \subseteq Plain \union Secret
  /\ Null \notin Values
  BY FilesAssumption DEF FilesAssumption, Config!FilesAssumption

\* The parts of a document.
LEMMA DocParts ==
  ASSUME NEW d \in Config!Doc
  PROVE  /\ d = [plain |-> d.plain, secret |-> d.secret, entry |-> d.entry, cred |-> d.cred]
         /\ d.plain \in [Plain -> Config!Maybe] /\ d.secret \in [Secret -> Config!Maybe]
         /\ d.entry \in [Delegated -> Config!Maybe] /\ d.cred \in [Delegated -> Config!Maybe]
  BY DEF Config!Doc

LEMMA EmptyParts ==
  /\ Config!EmptyDoc \in Config!Doc /\ Null \in Config!Maybe
  /\ \A p \in Plain : Config!EmptyDoc.plain[p] = Null
  /\ \A s \in Secret : Config!EmptyDoc.secret[s] = Null
  /\ \A m \in Delegated : Config!EmptyDoc.entry[m] = Null /\ Config!EmptyDoc.cred[m] = Null
  BY DEF Config!EmptyDoc, Config!Doc, Config!Maybe

\* The keys of a run, by its kind.
LEMMA KeysAre ==
  ASSUME NEW w
  PROVE  /\ w.kind = "save" => /\ \A p \in Plain : p \in Config!KeysOf(w) <=> w.upd.plain[p] # Null
                               /\ \A s \in Secret : s \in Config!KeysOf(w) <=> w.upd.secret[s] # Null
                               /\ \A m \in Delegated : m \notin Config!KeysOf(w)
         /\ w.kind \in {"upsert", "delete"} => Config!KeysOf(w) = {w.name}
         /\ w.kind = "purge" => Config!KeysOf(w) = Purged
<1>1. ASSUME w.kind = "save"
      PROVE  /\ \A p \in Plain : p \in Config!KeysOf(w) <=> w.upd.plain[p] # Null
             /\ \A s \in Secret : s \in Config!KeysOf(w) <=> w.upd.secret[s] # Null
             /\ \A m \in Delegated : m \notin Config!KeysOf(w)
  <2>1. Config!KeysOf(w) = {p \in Plain : w.upd.plain[p] # Null} \union {s \in Secret : w.upd.secret[s] # Null}
    BY <1>1 DEF Config!KeysOf
  <2> QED
    BY <2>1, FileConstants
<1>2. ASSUME w.kind \in {"upsert", "delete"} PROVE Config!KeysOf(w) = {w.name}
  BY <1>2 DEF Config!KeysOf
<1>3. ASSUME w.kind = "purge" PROVE Config!KeysOf(w) = Purged
  BY <1>3 DEF Config!KeysOf
<1> QED
  BY <1>1, <1>2, <1>3

\* The keys of a run stay as long as its kind, name and update do.
LEMMA KeysStay ==
  ASSUME NEW w, NEW v, v.kind = w.kind, v.upd = w.upd, v.name = w.name
  PROVE  Config!KeysOf(v) = Config!KeysOf(w)
  BY DEF Config!KeysOf

LEMMA FileInit == Init => FileInv
<1> SUFFICES ASSUME Config!Init PROVE FileInv
  BY DEF Init
<1>1. FileType /\ Overlap /\ \A x \in DOMAIN writer : Fine(x)
  BY EmptyParts DEF Config!Init, FileType, Overlap
<1>2. Tidy(yaml)
  BY EmptyParts DEF Config!Init, Tidy
<1>3. ASSUME NEW k \in Config!Keys PROVE Config!Effective(k) = <<Null, Null>>
  BY EmptyParts DEF Config!Init, Config!Effective, Config!Delegate, Config!First, Config!Keys
<1> QED
  BY <1>1, <1>2, <1>3 DEF FileInv, Config!AskedIsKept, Config!Init

\* What the changes to a document do to each of its parts.
LEMMA MergedParts ==
  ASSUME NEW d \in Config!Doc, NEW u \in Config!Doc
  PROVE  /\ Config!Merged(d, u) \in Config!Doc
         /\ \A s \in Secret : Config!Merged(d, u).secret[s] = Config!First(u.secret[s], d.secret[s])
         /\ \A m \in Delegated : Config!Merged(d, u).cred[m] = Config!First(u.cred[m], d.cred[m])
<1> DEFINE S == [s \in Secret |-> Config!First(u.secret[s], d.secret[s])]
           C == [m \in Delegated |-> Config!First(u.cred[m], d.cred[m])]
<1>1. S \in [Secret -> Config!Maybe] /\ C \in [Delegated -> Config!Maybe]
  BY DocParts DEF Config!First
<1>2. Config!Merged(d, u) = [d EXCEPT !.secret = S, !.cred = C]
  BY DEF Config!Merged
<1>3. /\ \A s \in Secret : S[s] = Config!First(u.secret[s], d.secret[s])
      /\ \A m \in Delegated : C[m] = Config!First(u.cred[m], d.cred[m])
  OBVIOUS
<1> HIDE DEF S, C
<1>4. [d EXCEPT !.secret = S, !.cred = C] \in Config!Doc
  BY <1>1 DEF Config!Doc
<1>5. [d EXCEPT !.secret = S, !.cred = C].secret = S /\ [d EXCEPT !.secret = S, !.cred = C].cred = C
  BY DEF Config!Doc
<1> QED
  BY <1>2, <1>3, <1>4, <1>5

LEMMA AppliedParts ==
  ASSUME NEW d \in Config!Doc, NEW u \in Config!Doc
  PROVE  /\ Config!Applied(d, u) \in Config!Doc
         /\ \A p \in Plain : Config!Applied(d, u).plain[p] = Config!First(u.plain[p], d.plain[p])
         /\ \A s \in Secret : Config!Applied(d, u).secret[s] = Null
         /\ Config!Applied(d, u).entry = d.entry /\ Config!Applied(d, u).cred = d.cred
<1> DEFINE P == [p \in Plain |-> Config!First(u.plain[p], d.plain[p])]
           S == Config!EmptyDoc.secret
           f == [d EXCEPT !.plain = P, !.secret = S]
<1>1. P \in [Plain -> Config!Maybe] /\ \A p \in Plain : P[p] = Config!First(u.plain[p], d.plain[p])
  BY DocParts DEF Config!First
<1>2. S \in [Secret -> Config!Maybe] /\ \A s \in Secret : S[s] = Null
  BY DocParts, EmptyParts
<1>3. Config!Applied(d, u) = f
  BY DEF Config!Applied
<1> HIDE DEF P, S
<1>4. f \in Config!Doc
  BY <1>1, <1>2 DEF Config!Doc
<1>5. f.plain = P /\ f.secret = S /\ f.entry = d.entry /\ f.cred = d.cred
  BY DEF Config!Doc
<1> QED
  BY <1>1, <1>2, <1>3, <1>4, <1>5

LEMMA ListedParts ==
  ASSUME NEW d \in Config!Doc, NEW w \in FileRun, w.name \in Delegated
  PROVE  /\ Config!Listed(d, w) \in Config!Doc
         /\ Config!Listed(d, w).plain = d.plain /\ Config!Listed(d, w).secret = d.secret
         /\ Config!Listed(d, w).cred = d.cred
         /\ \A m \in Delegated : Config!Listed(d, w).entry[m] =
                                   IF m = w.name THEN w.upd.entry[m] ELSE w.list[m]
<1> DEFINE L == [w.list EXCEPT ![w.name] = w.upd.entry[w.name]]
<1>1. w.list \in [Delegated -> Config!Maybe] /\ w.upd.entry \in [Delegated -> Config!Maybe]
  BY DocParts DEF FileRun
<1>2. L \in [Delegated -> Config!Maybe]
  BY <1>1
<1>3. Config!Listed(d, w) = [plain |-> d.plain, secret |-> d.secret, entry |-> L, cred |-> d.cred]
  BY DocParts DEF Config!Listed
<1> QED
  BY <1>1, <1>2, <1>3, DocParts DEF Config!Doc

\* The documents a removal writes.
Without(f, D) == [k \in D |-> IF k \in Purged THEN Null ELSE f[k]]

LEMMA PurgedParts ==
  ASSUME NEW d \in Config!Doc
  PROVE  LET P == Without(d.plain, Plain)
             S == Without(d.secret, Secret)
             f == [d EXCEPT !.plain = P, !.secret = S]
             g == [d EXCEPT !.secret = S]
         IN /\ f \in Config!Doc /\ f.plain = P /\ f.secret = S /\ f.entry = d.entry /\ f.cred = d.cred
            /\ g \in Config!Doc /\ g.secret = S /\ g.cred = d.cred
<1> DEFINE P == Without(d.plain, Plain)
           S == Without(d.secret, Secret)
           f == [d EXCEPT !.plain = P, !.secret = S]
           g == [d EXCEPT !.secret = S]
<1>1. P \in [Plain -> Config!Maybe] /\ S \in [Secret -> Config!Maybe]
  BY DocParts, EmptyParts DEF Without
<1> HIDE DEF P, S
<1>2. f \in Config!Doc /\ g \in Config!Doc
  BY <1>1 DEF Config!Doc
<1>3. /\ f.plain = P /\ f.secret = S /\ f.entry = d.entry /\ f.cred = d.cred
      /\ g.secret = S /\ g.cred = d.cred
  BY DEF Config!Doc
<1> QED
  BY <1>2, <1>3 DEF P, S

\* What a reader sees: the file, or nothing of it while it is truncated.
LEMMA ReadIs ==
  ASSUME FileType
  PROVE  /\ Config!ReadYaml \in Config!Doc /\ Config!ReadSecrets \in Config!Doc
         /\ IF "yaml" \in torn
            THEN Config!ReadYaml = Config!EmptyDoc /\ Config!Lost("yaml") = Config!Keys
            ELSE Config!ReadYaml = yaml /\ Config!Lost("yaml") = {}
         /\ IF "secrets" \in torn
            THEN Config!ReadSecrets = Config!EmptyDoc /\ Config!Lost("secrets") = Config!Keys
            ELSE Config!ReadSecrets = secrets /\ Config!Lost("secrets") = {}
  BY EmptyParts DEF FileType, Config!ReadYaml, Config!ReadSecrets, Config!Lost

\* A step of a run changes at most keys `own` of those that are not spoiled.
FilesKept(own) ==
  /\ spoiled \subseteq spoiled'
  /\ \A p \in Plain \ (spoiled' \union own) : yaml'.plain[p] = yaml.plain[p]
  /\ \A m \in Delegated \ (spoiled' \union own) :
       yaml'.entry[m] = yaml.entry[m] /\ secrets'.cred[m] = secrets.cred[m]
  /\ \A s \in Secret \ (spoiled' \union own) :
       /\ secrets'.secret[s] = secrets.secret[s]
       /\ secrets.secret[s] # Null \/ yaml'.secret[s] = yaml.secret[s]

\* The other runs go on; their keys and `own` are spoiled.
OthersStay(x, own) ==
  /\ DOMAIN writer' \ {x} = DOMAIN writer \ {x}
  /\ \A y \in DOMAIN writer \ {x} :
       /\ writer'[y] = writer[y]
       /\ own \subseteq spoiled' /\ Config!KeysOf(writer[y]) \subseteq spoiled'
       /\ x \in DOMAIN writer' => Config!KeysOf(writer'[x]) \subseteq spoiled'

\* What was asked for of the keys that a step changed is what the files now say.
NowAsked(own) ==
  \A k \in Config!Keys \ (spoiled' \union Config!AtWork') :
    IF k \in own THEN (Config!Effective(k) = want[k])'
    ELSE k \notin Config!AtWork /\ want'[k] = want[k]

LEMMA RunElsewhere ==
  ASSUME NEW own, NEW w \in FileRun, Shaped(w), Agrees(w), Says(w), Wrote(w), FilesKept(own),
         own \subseteq spoiled', Config!KeysOf(w) \subseteq spoiled'
  PROVE  Agrees(w)' /\ Says(w)' /\ Wrote(w)'
<1>1. \A k : Free(k, w)' => Free(k, w) /\ k \notin spoiled' \union own
  BY DEF Free, FilesKept
<1>2. Agrees(w)'
  <2>1. ASSUME w.pc \in {"replace", "cutdump"}
        PROVE  /\ \A s \in Secret : Free(s, w)' => w.doc.secret[s] = secrets'.secret[s]
               /\ \A m \in Delegated : Free(m, w)' => w.doc.cred[m] = secrets'.cred[m]
    BY <1>1, <2>1 DEF Agrees, FilesKept
  <2>2. ASSUME w.pc = "load", w.kind \in {"upsert", "delete"}, NEW m \in Delegated, Free(m, w)'
        PROVE  w.list[m] = yaml'.entry[m]
    BY <1>1, <2>2 DEF Agrees, FilesKept
  <2>3. ASSUME w.pc \in {"truncate", "dump"}
        PROVE  /\ \A p \in Plain : Free(p, w)' => w.doc.plain[p] = yaml'.plain[p]
               /\ \A m \in Delegated : Free(m, w)' => w.doc.entry[m] = yaml'.entry[m]
    BY <1>1, <2>3 DEF Agrees, FilesKept
  <2>4. ASSUME w.pc \in {"truncate", "dump"}, NEW s \in Secret, Free(s, w)'
        PROVE  w.kind = "save" \/ secrets'.secret[s] # Null \/ w.doc.secret[s] = yaml'.secret[s]
    BY <1>1, <2>4 DEF Agrees, FilesKept
  <2> QED
    BY <2>1, <2>2, <2>3, <2>4 DEF Agrees
<1>3. Says(w)'
  BY DEF Says
<1>4. Wrote(w)'
  <2>1. w.kind = "upsert" => w.name \in spoiled'
    BY KeysAre
  <2>2. w.kind = "save" => \A s \in Secret : w.upd.secret[s] # Null => s \in spoiled'
    BY KeysAre
  <2>3. w.pc \in {"cut", "cutdump"} => Purged \subseteq spoiled'
    <3>1. w.pc \in {"cut", "cutdump"} => w.kind = "purge"
      BY DEF Shaped, FileRun, Kinds
    <3> QED
      BY <3>1, KeysAre
  <2> QED
    BY <2>1, <2>2, <2>3 DEF Wrote
<1> QED
  BY <1>2, <1>3, <1>4

LEMMA FilesElsewhere ==
  ASSUME FileInv, NEW x, NEW own, FilesKept(own), OthersStay(x, own), NEW y \in DOMAIN writer \ {x},
         hand \subseteq hand'
  PROVE  Fine(y)'
<1>1. PICK w : w = writer[y]
  OBVIOUS
<1>2. w \in FileRun /\ Shaped(w) /\ Agrees(w) /\ Says(w) /\ Wrote(w)
  BY <1>1 DEF FileInv, FileType, Fine
<1>3. w.pc \in {"truncate", "dump"} => Tidy(w.doc)
  BY <1>1 DEF FileInv, Fine
<1>4. writer'[y] = w /\ own \subseteq spoiled' /\ Config!KeysOf(w) \subseteq spoiled'
  BY <1>1 DEF OthersStay
<1>5. Agrees(w)' /\ Says(w)' /\ Wrote(w)'
  BY <1>2, <1>4, RunElsewhere
<1>6. w.pc \in {"truncate", "dump"} => Tidy(w.doc)'
  BY <1>3 DEF Tidy
<1> QED
  BY <1>4, <1>5, <1>6 DEF Fine

LEMMA AskedHold ==
  ASSUME FileInv, NEW own, FilesKept(own), Tidy(yaml)', NEW k \in Config!Keys,
         k \notin spoiled' \union own, k \notin Config!AtWork, want'[k] = want[k]
  PROVE  (Config!Effective(k) = want[k])'
<1>1. k \notin spoiled /\ Config!Effective(k) = want[k]
  BY DEF FilesKept, FileInv, Config!AskedIsKept
<1>2. Config!Effective(k)' = Config!Effective(k)
  <2>1. CASE k \in Plain
    BY <2>1 DEF Config!Effective, FilesKept
  <2>2. CASE k \in Secret
    BY <2>2, FileConstants DEF Config!Effective, FilesKept, Config!First
  <2>3. CASE k \in Delegated
    <3>1. yaml.cred[k] = Null /\ yaml'.cred[k] = Null
      BY <2>3 DEF FileInv, Tidy
    <3>2. yaml'.entry[k] = yaml.entry[k] /\ secrets'.cred[k] = secrets.cred[k]
      BY <2>3 DEF FilesKept
    <3>3. k \notin Plain /\ k \notin Secret
      BY <2>3, FileConstants
    <3> QED
      BY <3>1, <3>2, <3>3 DEF Config!Effective, Config!Delegate, Config!First
  <2> QED
    BY <2>1, <2>2, <2>3 DEF Config!Keys
<1> QED
  BY <1>1, <1>2

LEMMA FileMove ==
  ASSUME FileInv, NEW x, NEW own, FileType', Tidy(yaml)', FilesKept(own), OthersStay(x, own),
         NowAsked(own), hand \subseteq hand', (x \in DOMAIN writer => Fine(x))'
  PROVE  FileInv'
<1>1. Overlap'
  <2> SUFFICES ASSUME NEW y \in DOMAIN writer', NEW z \in DOMAIN writer', y # z
               PROVE  (Config!KeysOf(writer[y]) \subseteq spoiled)'
    BY DEF Overlap
  <2>1. CASE y = x
    <3>1. z \in DOMAIN writer \ {x}
      BY <2>1 DEF OthersStay
    <3> QED
      BY <2>1, <3>1 DEF OthersStay
  <2>2. CASE y # x
    <3>1. y \in DOMAIN writer \ {x}
      BY <2>2 DEF OthersStay
    <3>2. writer'[y] = writer[y] /\ Config!KeysOf(writer[y]) \subseteq spoiled'
      BY <3>1 DEF OthersStay
    <3> QED
      BY <3>2 DEF Config!KeysOf
  <2> QED
    BY <2>1, <2>2
<1>2. ASSUME NEW y \in DOMAIN writer' PROVE Fine(y)'
  <2>1. CASE y = x
    BY <2>1
  <2>2. CASE y # x
    <3>1. y \in DOMAIN writer \ {x}
      BY <2>2 DEF OthersStay
    <3> QED
      BY <3>1, FilesElsewhere
  <2> QED
    BY <2>1, <2>2
<1>3. Config!AskedIsKept'
  <2> SUFFICES ASSUME NEW k \in Config!Keys, k \notin spoiled' \union Config!AtWork'
               PROVE  (Config!Effective(k) = want[k])'
    BY DEF Config!AskedIsKept
  <2>1. CASE k \in own
    BY <2>1 DEF NowAsked
  <2>2. CASE k \notin own
    <3>1. k \notin Config!AtWork /\ want'[k] = want[k]
      BY <2>2 DEF NowAsked
    <3>2. k \notin spoiled' \union own
      BY <2>2
    <3> QED
      BY <3>1, <3>2, AskedHold
  <2> QED
    BY <2>1, <2>2
<1> QED
  BY <1>1, <1>2, <1>3 DEF FileInv

RunPlaces == {"secrets", "replace", "list", "load", "truncate", "dump", "cut", "cutdump"}

\* The record of a run after a step of it.
GoesTo(w, v, pc, d) ==
  \/ /\ v = [w EXCEPT !.pc = pc]
     /\ d = w.doc
  \/ v = [w EXCEPT !.pc = pc, !.doc = d]
  \/ v = [w EXCEPT !.doc = d, !.pc = pc]

LEMMA RunExcept ==
  ASSUME NEW w \in FileRun, NEW pc \in RunPlaces, NEW d \in Config!Doc, NEW v, GoesTo(w, v, pc, d)
  PROVE  /\ v \in FileRun /\ v.pc = pc /\ v.doc = d
         /\ v.kind = w.kind /\ v.upd = w.upd /\ v.name = w.name /\ v.list = w.list
  BY DEF FileRun, RunPlaces, GoesTo

LEMMA RunIs ==
  ASSUME FileInv, NEW x \in DOMAIN writer
  PROVE  /\ writer[x] \in FileRun /\ Shaped(writer[x])
         /\ Agrees(writer[x]) /\ Says(writer[x]) /\ Wrote(writer[x])
         /\ writer[x].pc \in {"truncate", "dump"} => Tidy(writer[x].doc)
         /\ writer[x].upd \in Config!Doc /\ writer[x].doc \in Config!Doc
         /\ writer[x].list \in [Delegated -> Config!Maybe]
  BY DEF FileInv, FileType, Fine, FileRun

\* A step after which a run goes on.
LEMMA RunMoves ==
  ASSUME FileInv, NEW x \in DOMAIN writer, NEW v \in FileRun, Shaped(v),
         v.kind = writer[x].kind, v.upd = writer[x].upd, v.name = writer[x].name,
         writer' = [writer EXCEPT ![x] = v],
         Agrees(v)', Says(v)', Wrote(v)', v.pc \in {"truncate", "dump"} => Tidy(v.doc)',
         yaml' \in Config!Doc, secrets' \in Config!Doc, Tidy(yaml)',
         FilesKept(Config!KeysOf(v)), panel' = panel, want' = want, hand' = hand
  PROVE  FileInv'
<1>1. writer'[x] = v /\ DOMAIN writer' = DOMAIN writer /\ \A y \in DOMAIN writer \ {x} : writer'[y] = writer[y]
  OBVIOUS
<1>2. FileType'
  <2>1. writer' = [y \in DOMAIN writer' |-> writer'[y]]
    OBVIOUS
  <2>2. \A y \in DOMAIN writer' : writer'[y] \in FileRun /\ Shaped(writer'[y])
    BY <1>1 DEF FileInv, FileType
  <2>3. panel' = Null \/ panel' \in [Plain -> Config!Maybe]
    BY DEF FileInv, FileType
  <2>4. want' = [k \in Config!Keys |-> want'[k]]
    BY DEF FileInv, FileType
  <2> QED
    BY <2>1, <2>2, <2>3, <2>4 DEF FileType, Shaped
<1>3. Config!KeysOf(v) = Config!KeysOf(writer[x])
  BY KeysStay
<1>4. OthersStay(x, Config!KeysOf(v))
  <2>1. ASSUME NEW y \in DOMAIN writer \ {x}
        PROVE  Config!KeysOf(v) \subseteq spoiled' /\ Config!KeysOf(writer[y]) \subseteq spoiled'
    BY <1>3 DEF FileInv, Overlap, FilesKept
  <2> QED
    BY <1>1, <2>1 DEF OthersStay
<1>5. NowAsked(Config!KeysOf(v))
  <2>1. Config!AtWork' = Config!AtWork
    <3>1. \A y \in DOMAIN writer : Config!KeysOf(writer'[y]) = Config!KeysOf(writer[y])
      BY <1>1, <1>3
    <3>2. Config!AtWork' = UNION {Config!KeysOf(writer'[y]) : y \in DOMAIN writer'}
      BY DEF Config!AtWork, Config!KeysOf
    <3> QED
      BY <1>1, <3>1, <3>2 DEF Config!AtWork
  <2>2. Config!KeysOf(v) \subseteq Config!AtWork
    BY <1>3 DEF Config!AtWork
  <2> QED
    BY <2>1, <2>2 DEF NowAsked
<1>6. Fine(x)'
  BY <1>1 DEF Fine
<1> QED
  BY <1>2, <1>4, <1>5, <1>6, FileMove

\* The end of a run.
LEMMA RunEnds ==
  ASSUME FileInv, NEW x \in DOMAIN writer, writer' = [y \in Config!Others(x) |-> writer[y]],
         yaml' \in Config!Doc, secrets' \in Config!Doc, Tidy(yaml)',
         FilesKept(Config!KeysOf(writer[x])), panel' = panel, hand' = hand,
         want' = [k \in Config!Keys |-> want'[k]],
         \A k \in Config!Keys \ (spoiled' \union Config!KeysOf(writer[x])) : want'[k] = want[k],
         Config!Others(x) = {} => \A k \in Config!Keys \ spoiled' :
                             k \in Config!KeysOf(writer[x]) => (Config!Effective(k) = want[k])'
  PROVE  FileInv'
<1> DEFINE own == Config!KeysOf(writer[x])
<1>1. DOMAIN writer' = DOMAIN writer \ {x} /\ \A y \in DOMAIN writer' : writer'[y] = writer[y]
  BY DEF Config!Others
<1>2. FileType'
  <2>1. writer' = [y \in DOMAIN writer' |-> writer'[y]]
    OBVIOUS
  <2>2. \A y \in DOMAIN writer' : writer'[y] \in FileRun /\ Shaped(writer'[y])
    BY <1>1 DEF FileInv, FileType
  <2>3. panel' = Null \/ panel' \in [Plain -> Config!Maybe]
    BY DEF FileInv, FileType
  <2> QED
    BY <2>1, <2>2, <2>3 DEF FileType, Shaped
<1>3. ASSUME NEW y \in DOMAIN writer \ {x}
      PROVE  own \subseteq spoiled /\ own \subseteq spoiled' /\ Config!KeysOf(writer[y]) \subseteq spoiled'
  BY DEF FileInv, Overlap, FilesKept
<1>4. PICK own0 : own0 = own
  OBVIOUS
<1>5. OthersStay(x, own0)
  BY <1>1, <1>3, <1>4 DEF OthersStay
<1>6. NowAsked(own0)
  <2> SUFFICES ASSUME NEW k \in Config!Keys, k \notin spoiled' \union Config!AtWork'
               PROVE  IF k \in own0 THEN (Config!Effective(k) = want[k])'
                      ELSE k \notin Config!AtWork /\ want'[k] = want[k]
    BY DEF NowAsked
  <2>1. CASE k \in own0
    <3>1. Config!Others(x) = {}
      BY <1>3, <1>4, <2>1 DEF Config!Others
    <3> QED
      BY <1>4, <2>1, <3>1
  <2>2. CASE k \notin own0
    <3>1. k \notin Config!AtWork
      <4>1. ASSUME NEW y \in DOMAIN writer, k \in Config!KeysOf(writer[y]) PROVE FALSE
        <5>1. y # x
          BY <1>4, <2>2, <4>1
        <5> QED
          BY <1>3, <4>1, <5>1
      <4> QED
        BY <4>1 DEF Config!AtWork
    <3> QED
      BY <1>4, <2>2, <3>1
  <2> QED
    BY <2>1, <2>2
<1>7. FilesKept(own0)
  BY <1>4
<1>8. x \notin DOMAIN writer'
  BY <1>1
<1> QED
  BY <1>2, <1>5, <1>6, <1>7, <1>8, FileMove

\* The record of a run that begins.
StartsAs(v, pc, kind, u, m) ==
  \/ /\ v = [Config!Blank EXCEPT !.pc = pc, !.kind = kind, !.upd = u]
     /\ m = Null
  \/ v = [Config!Blank EXCEPT !.pc = pc, !.kind = kind, !.name = m, !.upd = u]
  \/ /\ v = [Config!Blank EXCEPT !.pc = pc, !.kind = kind, !.name = m]
     /\ u = Config!EmptyDoc
  \/ /\ v = [Config!Blank EXCEPT !.pc = pc, !.kind = kind]
     /\ u = Config!EmptyDoc /\ m = Null

LEMMA RunStarts ==
  ASSUME NEW pc \in RunPlaces, NEW kind \in Kinds, NEW u \in Config!Doc,
         NEW m \in Delegated \union {Null}, NEW v, StartsAs(v, pc, kind, u, m)
  PROVE  v \in FileRun /\ v.pc = pc /\ v.kind = kind /\ v.upd = u /\ v.name = m
<1>1. Config!EmptyDoc \in Config!Doc /\ Config!EmptyDoc.entry \in [Delegated -> Config!Maybe]
  BY EmptyParts, DocParts
<1>2. Config!Blank \in [pc : {Null}, kind : {Null}, upd : {Config!EmptyDoc}, name : {Null},
                        list : {Config!EmptyDoc.entry}, doc : {Config!EmptyDoc}]
  BY DEF Config!Blank
<1>3. /\ DOMAIN v = {"pc", "kind", "upd", "name", "list", "doc"}
      /\ v.pc = pc /\ v.kind = kind /\ v.upd = u /\ v.name = m
      /\ v.list = Config!EmptyDoc.entry /\ v.doc = Config!EmptyDoc
  BY <1>2 DEF StartsAs
<1>4. v \in [pc : {pc}, kind : {kind}, upd : {u}, name : {m},
             list : {Config!EmptyDoc.entry}, doc : {Config!EmptyDoc}]
  BY <1>2 DEF StartsAs
<1> QED
  BY <1>1, <1>3, <1>4 DEF FileRun, RunPlaces

\* Nothing that a run has to agree with at its start.
AtStart(w) ==
  /\ w.pc \in {"secrets", "list", "load"}
  /\ w.pc = "load" => w.kind \in {"save", "purge"}
  /\ w.pc \in {"list", "load"} =>
       /\ w.kind = "upsert" => w.upd.cred[w.name] = Null
       /\ w.kind = "save" => \A s \in Secret : w.upd.secret[s] = Null

LEMMA RunBegins ==
  ASSUME FileInv, NEW x, NEW v \in FileRun, Shaped(v), AtStart(v), Config!Begin(x, v)
  PROVE  FileInv'
<1>1. /\ x \notin DOMAIN writer
      /\ writer' = [y \in DOMAIN writer \union {x} |-> IF y = x THEN v ELSE writer[y]]
      /\ spoiled' = spoiled \union Config!Touched(x, v)
      /\ UNCHANGED <<yaml, secrets, panel, want, hand>>
  BY DEF Config!Begin, Config!Busy
<1>2. writer'[x] = v /\ DOMAIN writer' = DOMAIN writer \union {x} /\ \A y \in DOMAIN writer : writer'[y] = writer[y]
  BY <1>1
<1>3. FileType'
  <2>1. writer' = [y \in DOMAIN writer' |-> writer'[y]]
    BY <1>1
  <2>2. \A y \in DOMAIN writer' : writer'[y] \in FileRun /\ Shaped(writer'[y])
    BY <1>2 DEF FileInv, FileType
  <2>3. panel' = Null \/ panel' \in [Plain -> Config!Maybe]
    BY <1>1 DEF FileInv, FileType
  <2>4. want' = [k \in Config!Keys |-> want'[k]]
    BY <1>1 DEF FileInv, FileType
  <2>5. yaml' \in Config!Doc /\ secrets' \in Config!Doc
    BY <1>1 DEF FileInv, FileType
  <2> QED
    BY <2>1, <2>2, <2>3, <2>4, <2>5 DEF FileType, Shaped
<1>4. FilesKept({})
  BY <1>1 DEF FilesKept
<1>5. OthersStay(x, {})
  <2>1. ASSUME NEW y \in DOMAIN writer \ {x}
        PROVE  Config!KeysOf(writer[y]) \subseteq spoiled' /\ Config!KeysOf(v) \subseteq spoiled'
    <3>1. y \in Config!Others(x)
      BY DEF Config!Others
    <3>2. Config!Touched(x, v) = Config!KeysOf(v) \union
                                   UNION {Config!KeysOf(writer[z]) : z \in Config!Others(x)}
      BY <3>1 DEF Config!Touched
    <3> QED
      BY <1>1, <3>1, <3>2
  <2> QED
    BY <1>1, <1>2, <2>1 DEF OthersStay
<1>6. NowAsked({})
  <2>1. Config!AtWork' = UNION {Config!KeysOf(writer'[y]) : y \in DOMAIN writer'}
    BY DEF Config!AtWork, Config!KeysOf
  <2>2. Config!AtWork \subseteq Config!AtWork'
    BY <1>2, <2>1 DEF Config!AtWork
  <2> QED
    BY <1>1, <2>2 DEF NowAsked
<1>7. Fine(x)'
  <2>1. Agrees(v)' /\ Says(v)'
    BY DEF Agrees, Says, AtStart
  <2>2. Wrote(v)'
    BY DEF Wrote, AtStart
  <2>3. ~ (v.pc \in {"truncate", "dump"})
    BY DEF AtStart
  <2> QED
    BY <1>2, <2>1, <2>2, <2>3 DEF Fine
<1>8. Tidy(yaml)' /\ hand \subseteq hand'
  BY <1>1 DEF FileInv, Tidy
<1> QED
  BY <1>3, <1>4, <1>5, <1>6, <1>7, <1>8, FileMove

LEMMA FileSave ==
  ASSUME FileInv, NEW x, NEW p \in Plain, NEW v \in Values, NEW form \in BOOLEAN,
         Config!Save(x, p, v, form)
  PROVE  FileInv'
<1> DEFINE shown == IF form THEN panel ELSE Config!EmptyDoc.plain
           P == [shown EXCEPT ![p] = v]
<1>1. PICK u : u = [Config!EmptyDoc EXCEPT !.plain = P]
  OBVIOUS
<1>2. shown \in [Plain -> Config!Maybe]
  BY EmptyParts, DocParts DEF Config!Save, FileInv, FileType
<1>3. P \in [Plain -> Config!Maybe]
  BY <1>2 DEF Config!Maybe
<1> HIDE DEF P
<1>4. u \in Config!Doc /\ u.secret = Config!EmptyDoc.secret /\ u.cred = Config!EmptyDoc.cred
  BY <1>1, <1>3, EmptyParts DEF Config!Doc
<1>5. PICK w : w = [Config!Blank EXCEPT !.pc = "load", !.kind = "save", !.upd = u]
  OBVIOUS
<1>6. w \in FileRun /\ w.pc = "load" /\ w.kind = "save" /\ w.upd = u
  <2>1. StartsAs(w, "load", "save", u, Null)
    BY <1>5 DEF StartsAs
  <2> QED
    BY <1>4, <2>1, RunStarts DEF RunPlaces, Kinds
<1>7. Config!Begin(x, w)
  BY <1>1, <1>5 DEF Config!Save, P
<1>8. Shaped(w)
  BY <1>4, <1>6 DEF Shaped
<1>9. AtStart(w)
  BY <1>4, <1>6, EmptyParts DEF AtStart
<1> QED
  BY <1>6, <1>7, <1>8, <1>9, RunBegins

LEMMA FileSaveSecret ==
  ASSUME FileInv, NEW x, NEW s \in Secret, NEW v \in Values, Config!SaveSecret(x, s, v)
  PROVE  FileInv'
<1>1. PICK u : u = [Config!EmptyDoc EXCEPT !.secret[s] = v]
  OBVIOUS
<1>2. u \in Config!Doc /\ u.cred = Config!EmptyDoc.cred
  BY <1>1, EmptyParts DEF Config!Doc, Config!Maybe
<1>3. PICK w : w = [Config!Blank EXCEPT !.pc = "secrets", !.kind = "save", !.upd = u]
  OBVIOUS
<1>4. w \in FileRun /\ w.pc = "secrets" /\ w.kind = "save" /\ w.upd = u
  <2>1. StartsAs(w, "secrets", "save", u, Null)
    BY <1>3 DEF StartsAs
  <2> QED
    BY <1>2, <2>1, RunStarts DEF RunPlaces, Kinds
<1>5. Config!Begin(x, w)
  BY <1>1, <1>3 DEF Config!SaveSecret
<1>6. Shaped(w) /\ AtStart(w)
  BY <1>2, <1>4 DEF Shaped, AtStart
<1> QED
  BY <1>4, <1>5, <1>6, RunBegins

LEMMA FileUpsert ==
  ASSUME FileInv, NEW m \in Delegated, NEW en \in Values, NEW cred \in Config!Maybe,
         Config!Upsert(m, en, cred)
  PROVE  FileInv'
<1>1. PICK u : u = [Config!EmptyDoc EXCEPT !.entry[m] = en, !.cred[m] = cred]
  OBVIOUS
<1>2. /\ u \in Config!Doc /\ u.secret = Config!EmptyDoc.secret
      /\ u.entry = [Config!EmptyDoc.entry EXCEPT ![m] = en]
      /\ u.cred = [Config!EmptyDoc.cred EXCEPT ![m] = cred]
  <2>1. /\ [Config!EmptyDoc.entry EXCEPT ![m] = en] \in [Delegated -> Config!Maybe]
        /\ [Config!EmptyDoc.cred EXCEPT ![m] = cred] \in [Delegated -> Config!Maybe]
    BY EmptyParts, DocParts DEF Config!Maybe
  <2> QED
    BY <1>1, <2>1, EmptyParts DEF Config!Doc
<1>3. u.entry[m] = en /\ u.cred[m] = cred /\ en # Null /\ \A k \in Delegated \ {m} : u.cred[k] = Null
  BY <1>2, EmptyParts, DocParts, FileConstants
<1>4. PICK pc : pc = IF cred = Null THEN "list" ELSE "secrets"
  OBVIOUS
<1>5. PICK w : w = [Config!Blank EXCEPT !.pc = pc, !.kind = "upsert", !.name = m, !.upd = u]
  OBVIOUS
<1>6. w \in FileRun /\ w.pc = pc /\ w.kind = "upsert" /\ w.upd = u /\ w.name = m
  <2>1. pc \in RunPlaces
    BY <1>4 DEF RunPlaces
  <2>2. StartsAs(w, pc, "upsert", u, m)
    BY <1>5 DEF StartsAs
  <2> QED
    BY <1>2, <2>1, <2>2, RunStarts DEF Kinds
<1>7. Config!Begin(Loop, w)
  BY <1>1, <1>4, <1>5 DEF Config!Upsert
<1>8. Shaped(w)
  BY <1>2, <1>3, <1>4, <1>6 DEF Shaped
<1>9. AtStart(w)
  BY <1>3, <1>4, <1>6 DEF AtStart
<1> QED
  BY <1>6, <1>7, <1>8, <1>9, RunBegins

LEMMA FileDelete == ASSUME FileInv, NEW m \in Delegated, Config!Delete(m) PROVE FileInv'
<1>1. PICK w : w = [Config!Blank EXCEPT !.pc = "list", !.kind = "delete", !.name = m]
  OBVIOUS
<1>2. w \in FileRun /\ w.pc = "list" /\ w.kind = "delete" /\ w.upd = Config!EmptyDoc /\ w.name = m
  <2>1. StartsAs(w, "list", "delete", Config!EmptyDoc, m)
    BY <1>1 DEF StartsAs
  <2> QED
    BY <2>1, EmptyParts, RunStarts DEF RunPlaces, Kinds
<1>3. Config!Begin(Loop, w)
  BY <1>1 DEF Config!Delete
<1>4. Shaped(w) /\ AtStart(w)
  BY <1>2, EmptyParts DEF Shaped, AtStart
<1> QED
  BY <1>2, <1>3, <1>4, RunBegins

LEMMA FilePurge == ASSUME FileInv, NEW x, Config!Purge(x) PROVE FileInv'
<1>1. PICK w : w = [Config!Blank EXCEPT !.pc = "load", !.kind = "purge"]
  OBVIOUS
<1>2. w \in FileRun /\ w.pc = "load" /\ w.kind = "purge"
  <2>1. StartsAs(w, "load", "purge", Config!EmptyDoc, Null)
    BY <1>1 DEF StartsAs
  <2> QED
    BY <2>1, EmptyParts, RunStarts DEF RunPlaces, Kinds
<1>3. Config!Begin(x, w)
  BY <1>1 DEF Config!Purge
<1>4. Shaped(w) /\ AtStart(w)
  BY <1>2 DEF Shaped, AtStart
<1> QED
  BY <1>2, <1>3, <1>4, RunBegins

\* The files are as they were.
LEMMA FilesSame ==
  ASSUME FileInv, UNCHANGED <<yaml, secrets, hand>>, spoiled \subseteq spoiled', NEW own
  PROVE  FilesKept(own) /\ yaml' \in Config!Doc /\ secrets' \in Config!Doc /\ Tidy(yaml)'
<1>1. yaml' \in Config!Doc /\ secrets' \in Config!Doc /\ FilesKept(own)
  BY DEF FileInv, FileType, FilesKept
<1>2. Tidy(yaml)'
  BY DEF FileInv, Tidy
<1> QED
  BY <1>1, <1>2

LEMMA FileSecretsRead == ASSUME FileInv, NEW x, Config!SecretsRead(x) PROVE FileInv'
<1> x \in DOMAIN writer
  BY DEF Config!SecretsRead, Config!At, Config!Busy
<1>1. PICK w : w = writer[x]
  OBVIOUS
<1>2. /\ w \in FileRun /\ Shaped(w) /\ w.pc = "secrets"
  BY <1>1, RunIs DEF Config!SecretsRead, Config!At
<1>3. PICK d : d = Config!ReadSecrets
  OBVIOUS
<1>4. PICK v : v = [w EXCEPT !.pc = "replace", !.doc = d]
  OBVIOUS
<1>5. /\ v \in FileRun /\ v.pc = "replace" /\ v.doc = d /\ v.kind = w.kind
      /\ v.upd = w.upd /\ v.name = w.name
  <2>1. d \in Config!Doc
    BY <1>3, ReadIs DEF FileInv
  <2>2. GoesTo(w, v, "replace", d)
    BY <1>4 DEF GoesTo
  <2> QED
    BY <1>2, <2>1, <2>2, RunExcept DEF RunPlaces
<1>6. /\ writer' = [writer EXCEPT ![x] = v]
      /\ spoiled' = spoiled \union Config!Lost("secrets")
      /\ UNCHANGED <<yaml, secrets, panel, want, hand>>
  BY <1>1, <1>3, <1>4 DEF Config!SecretsRead, Config!Step
<1>7. Shaped(v)
  <2>1. w.kind \in {"save", "upsert"}
    BY <1>2 DEF Shaped, FileRun, Kinds
  <2> QED
    BY <1>2, <1>5, <2>1 DEF Shaped
<1>8. Agrees(v)'
  <2>1. CASE "secrets" \in torn
    <3>1. \A k \in Config!Keys : k \in spoiled'
      BY <1>6, <2>1, ReadIs DEF FileInv
    <3> QED
      BY <1>5, <3>1 DEF Agrees, Free, Config!Keys
  <2>2. CASE "secrets" \notin torn
    <3>1. d = secrets'
      BY <1>3, <1>6, <2>2, ReadIs DEF FileInv
    <3> QED
      BY <1>5, <3>1 DEF Agrees
  <2> QED
    BY <2>1, <2>2
<1>9. Says(v)' /\ Wrote(v)' /\ ~(v.pc \in {"truncate", "dump"})
  BY <1>5 DEF Says, Wrote
<1>10. spoiled \subseteq spoiled'
  BY <1>6
<1> QED
  BY <1>1, <1>5, <1>6, <1>7, <1>8, <1>9, <1>10, FilesSame, RunMoves

LEMMA FileSecretsReplace == ASSUME FileInv, NEW x, Config!SecretsReplace(x) PROVE FileInv'
<1> x \in DOMAIN writer
  BY DEF Config!SecretsReplace, Config!At, Config!Busy
<1>1. PICK w : w = writer[x]
  OBVIOUS
<1>2. /\ w \in FileRun /\ Shaped(w) /\ w.pc = "replace" /\ w.upd \in Config!Doc /\ w.doc \in Config!Doc
      /\ Agrees(w)
  BY <1>1, RunIs DEF Config!SecretsReplace, Config!At
<1>3. PICK pc : pc = IF w.kind = "save" THEN "load" ELSE "list"
  OBVIOUS
<1>4. PICK v : v = [w EXCEPT !.pc = pc]
  OBVIOUS
<1>5. v \in FileRun /\ v.pc = pc /\ v.kind = w.kind /\ v.upd = w.upd /\ v.name = w.name
  <2>1. GoesTo(w, v, pc, w.doc)
    BY <1>4 DEF GoesTo
  <2> QED
    BY <1>2, <1>3, <2>1, RunExcept DEF RunPlaces
<1>6. /\ writer' = [writer EXCEPT ![x] = v] /\ secrets' = Config!Merged(w.doc, w.upd)
      /\ UNCHANGED <<yaml, panel, want, spoiled, hand>>
  BY <1>1, <1>3, <1>4 DEF Config!SecretsReplace, Config!Step, Config!history
<1>7. w.kind \in {"save", "upsert"}
  BY <1>2 DEF Shaped, FileRun, Kinds
<1>8. Shaped(v)
  BY <1>2, <1>3, <1>5, <1>7 DEF Shaped
<1>9. Config!KeysOf(v) = Config!KeysOf(w)
  BY <1>5, KeysStay
<1>10. FilesKept(Config!KeysOf(v))
  <2>1. ASSUME NEW m \in Delegated, m \notin spoiled' \union Config!KeysOf(v)
        PROVE  secrets'.cred[m] = secrets.cred[m]
    <3>1. w.doc.cred[m] = secrets.cred[m]
      BY <1>2, <1>6, <1>9, <2>1 DEF Agrees, Free
    <3>2. w.upd.cred[m] = Null
      BY <1>2, <1>7, <1>9, <2>1, KeysAre, EmptyParts DEF Shaped
    <3> QED
      BY <1>2, <1>6, <3>1, <3>2, MergedParts DEF Config!First
  <2>2. ASSUME NEW s \in Secret, s \notin spoiled' \union Config!KeysOf(v)
        PROVE  secrets'.secret[s] = secrets.secret[s]
    <3>1. w.doc.secret[s] = secrets.secret[s]
      BY <1>2, <1>6, <1>9, <2>2 DEF Agrees, Free
    <3>2. w.upd.secret[s] = Null
      BY <1>2, <1>7, <1>9, <2>2, KeysAre, EmptyParts DEF Shaped
    <3> QED
      BY <1>2, <1>6, <3>1, <3>2, MergedParts DEF Config!First
  <2> QED
    BY <1>6, <2>1, <2>2 DEF FilesKept
<1>11. Agrees(v)' /\ Says(v)' /\ ~(v.pc \in {"truncate", "dump"})
  BY <1>3, <1>5, <1>7 DEF Agrees, Says
<1>12. Wrote(v)'
  <2>1. ASSUME v.kind = "upsert", v.upd.cred[v.name] # Null
        PROVE  secrets'.cred[v.name] = v.upd.cred[v.name]
    BY <1>2, <1>5, <1>6, <2>1, MergedParts DEF Config!First, Shaped
  <2>2. ASSUME NEW s \in Secret, v.upd.secret[s] # Null PROVE secrets'.secret[s] = v.upd.secret[s]
    BY <1>2, <1>5, <1>6, <2>2, MergedParts DEF Config!First
  <2> QED
    BY <1>3, <1>5, <2>1, <2>2 DEF Wrote
<1>13. yaml' \in Config!Doc /\ secrets' \in Config!Doc /\ Tidy(yaml)'
  BY <1>2, <1>6, MergedParts DEF FileInv, FileType, Tidy
<1> QED
  BY <1>1, <1>5, <1>6, <1>8, <1>10, <1>11, <1>12, <1>13, RunMoves

LEMMA FileListRead == ASSUME FileInv, NEW x, Config!ListRead(x) PROVE FileInv'
<1> x \in DOMAIN writer
  BY DEF Config!ListRead, Config!At, Config!Busy
<1>1. PICK w : w = writer[x]
  OBVIOUS
<1>2. w \in FileRun /\ Shaped(w) /\ w.pc = "list" /\ Wrote(w)
  BY <1>1, RunIs DEF Config!ListRead, Config!At
<1>3. PICK l : l = Config!ReadYaml.entry
  OBVIOUS
<1>4. PICK v : v = [w EXCEPT !.pc = "load", !.list = l]
  OBVIOUS
<1>5. /\ v \in FileRun /\ v.pc = "load" /\ v.list = l /\ v.kind = w.kind
      /\ v.upd = w.upd /\ v.name = w.name
  <2>1. l \in [Delegated -> Config!Maybe]
    BY <1>3, ReadIs, DocParts DEF FileInv
  <2> QED
    BY <1>2, <1>4, <2>1 DEF FileRun
<1>6. /\ writer' = [writer EXCEPT ![x] = v]
      /\ spoiled' = spoiled \union Config!Lost("yaml")
      /\ UNCHANGED <<yaml, secrets, panel, want, hand>>
  BY <1>1, <1>3, <1>4 DEF Config!ListRead, Config!Step
<1>7. w.kind \in {"upsert", "delete"}
  BY <1>2 DEF Shaped, FileRun, Kinds
<1>8. Shaped(v)
  BY <1>2, <1>5, <1>7 DEF Shaped
<1>9. Agrees(v)'
  <2>1. CASE "yaml" \in torn
    <3>1. \A k \in Config!Keys : k \in spoiled'
      BY <1>6, <2>1, ReadIs DEF FileInv
    <3> QED
      BY <1>5, <3>1 DEF Agrees, Free, Config!Keys
  <2>2. CASE "yaml" \notin torn
    <3>1. l = yaml'.entry
      BY <1>3, <1>6, <2>2, ReadIs DEF FileInv
    <3> QED
      BY <1>5, <3>1 DEF Agrees
  <2> QED
    BY <2>1, <2>2
<1>10. spoiled \subseteq spoiled'
  BY <1>6
<1>11. Says(v)' /\ ~(v.pc \in {"truncate", "dump"})
  BY <1>5 DEF Says
<1>12. Wrote(v)'
  BY <1>2, <1>5, <1>6, <1>7, <1>10 DEF Wrote
<1> QED
  BY <1>1, <1>5, <1>6, <1>8, <1>9, <1>10, <1>11, <1>12, FilesSame, RunMoves

\* What a run makes of the document it has read.
Change(w, read) ==
  CASE w.kind = "save" -> Config!Applied(read, w.upd)
    [] w.kind \in {"upsert", "delete"} -> Config!Listed(read, w)
    [] w.kind = "purge" ->
         [read EXCEPT !.plain = [p \in Plain |-> IF p \in Purged THEN Null ELSE @[p]],
                      !.secret = [s \in Secret |-> IF s \in Purged THEN Null ELSE @[s]]]

LEMMA ChangedDoc ==
  ASSUME FileInv, NEW x, Config!YamlRead(x), NEW w, w = writer[x],
         NEW d, d = Change(w, Config!ReadYaml), NEW v \in FileRun, v.kind = w.kind, v.upd = w.upd, v.name = w.name, v.doc = d,
         v.pc = "truncate"
  PROVE  Says(v)' /\ Tidy(d)' /\ Agrees(v)'
<1>0. PICK read : read = Config!ReadYaml
  OBVIOUS
<1>1. /\ x \in DOMAIN writer /\ w \in FileRun /\ Shaped(w) /\ Agrees(w) /\ w.pc = "load"
      /\ w.upd \in Config!Doc /\ w.list \in [Delegated -> Config!Maybe]
  <2>1. x \in DOMAIN writer /\ w.pc = "load"
    BY DEF Config!YamlRead, Config!At, Config!Busy
  <2> QED
    BY <2>1, RunIs
<1>2. /\ spoiled' = spoiled \union Config!Lost("yaml")
      /\ UNCHANGED <<yaml, secrets, hand>>
  BY DEF Config!YamlRead
<1>3. read \in Config!Doc /\ Tidy(read)'
  <2>1. read \in Config!Doc /\ (read = Config!EmptyDoc \/ read = yaml)
    BY <1>0, ReadIs DEF FileInv
  <2> QED
    BY <1>2, <2>1, EmptyParts DEF FileInv, Tidy
<1>4. \/ \A k \in Config!Keys : k \in spoiled'
      \/ read = yaml' /\ spoiled' = spoiled
  BY <1>0, <1>2, ReadIs DEF FileInv
<1>5. Config!KeysOf(v) = Config!KeysOf(w)
  BY KeysStay
<1>6. CASE w.kind = "save"
  <2>1. d = Config!Applied(read, w.upd)
    BY <1>0, <1>6 DEF Change
  <2>2. d \in Config!Doc
    BY <1>1, <1>3, <2>1, AppliedParts
  <2>3. Says(v)'
    BY <1>1, <1>3, <1>6, <2>1, AppliedParts DEF Says, Config!First
  <2>4. Tidy(d)'
    BY <1>1, <1>3, <2>1, AppliedParts DEF Tidy
  <2>5. ASSUME read = yaml' PROVE Agrees(v)'
    <3>1. \A p \in Plain : p \notin Config!KeysOf(v) => d.plain[p] = yaml'.plain[p]
      BY <1>1, <1>3, <1>5, <1>6, <2>1, <2>5, AppliedParts, KeysAre DEF Config!First
    <3>2. d.entry = yaml'.entry
      BY <1>1, <1>3, <2>1, <2>5, AppliedParts
    <3> QED
      BY <1>6, <3>1, <3>2 DEF Agrees, Free
  <2>6. ASSUME \A k \in Config!Keys : k \in spoiled' PROVE Agrees(v)'
    BY <2>6 DEF Agrees, Free, Config!Keys
  <2> QED
    BY <1>4, <2>2, <2>3, <2>4, <2>5, <2>6
<1>7. CASE w.kind \in {"upsert", "delete"}
  <2>1. d = Config!Listed(read, w) /\ w.name \in Delegated
    BY <1>0, <1>1, <1>7 DEF Shaped, Change
  <2>2. d \in Config!Doc
    BY <1>1, <1>3, <2>1, ListedParts
  <2>3. Says(v)'
    BY <1>1, <1>3, <1>7, <2>1, ListedParts, SMTT(30) DEF Says
  <2>4. Tidy(d)'
    <3>1. d.secret = read.secret /\ d.cred = read.cred
      BY <1>1, <1>3, <2>1, ListedParts
    <3> QED
      BY <1>3, <3>1 DEF Tidy
  <2>5. ASSUME read = yaml', spoiled' = spoiled PROVE Agrees(v)'
    <3>1. d.plain = yaml'.plain /\ d.secret = yaml'.secret
      BY <1>1, <1>3, <2>1, <2>5, ListedParts
    <3>2. ASSUME NEW m \in Delegated, m \notin spoiled \union Config!KeysOf(v)
          PROVE  d.entry[m] = yaml'.entry[m]
      <4>1. m # w.name
        BY <1>5, <1>7, <3>2, KeysAre
      <4>2. w.list[m] = yaml.entry[m]
        BY <1>1, <1>5, <1>7, <3>2 DEF Agrees, Free
      <4> QED
        BY <1>1, <1>2, <1>3, <2>1, <4>1, <4>2, ListedParts, SMTT(30)
    <3> QED
      BY <2>5, <3>1, <3>2 DEF Agrees, Free
  <2>6. ASSUME \A k \in Config!Keys : k \in spoiled' PROVE Agrees(v)'
    BY <2>6 DEF Agrees, Free, Config!Keys
  <2> QED
    BY <1>4, <2>2, <2>3, <2>4, <2>5, <2>6
<1>8. CASE w.kind = "purge"
  <2>1. d = [read EXCEPT !.plain = Without(read.plain, Plain), !.secret = Without(read.secret, Secret)]
    BY <1>0, <1>8 DEF Change, Without
  <2>2. d \in Config!Doc /\ d.entry = read.entry /\ d.cred = read.cred
    BY <1>3, <2>1, PurgedParts
  <2>0. /\ \A p \in Plain : d.plain[p] = IF p \in Purged THEN Null ELSE read.plain[p]
        /\ \A s \in Secret : d.secret[s] = IF s \in Purged THEN Null ELSE read.secret[s]
    <3>1. d.plain = Without(read.plain, Plain) /\ d.secret = Without(read.secret, Secret)
      BY <1>3, <2>1, PurgedParts
    <3> QED
      BY <3>1 DEF Without
  <2>3. Says(v)'
    BY <1>8, <2>0, <2>2 DEF Says
  <2>4. Tidy(d)'
    BY <1>3, <2>0, <2>2 DEF Tidy
  <2>5. ASSUME read = yaml' PROVE Agrees(v)'
    <3>1. Config!KeysOf(v) = Purged
      BY <1>8, KeysAre
    <3> QED
      BY <2>0, <2>2, <2>5, <3>1 DEF Agrees, Free
  <2>6. ASSUME \A k \in Config!Keys : k \in spoiled' PROVE Agrees(v)'
    BY <2>6 DEF Agrees, Free, Config!Keys
  <2> QED
    BY <1>4, <2>2, <2>3, <2>4, <2>5, <2>6
<1> QED
  BY <1>1, <1>6, <1>7, <1>8 DEF FileRun, Kinds

LEMMA FileYamlRead == ASSUME FileInv, NEW x, Config!YamlRead(x) PROVE FileInv'
<1> x \in DOMAIN writer
  BY DEF Config!YamlRead, Config!At, Config!Busy
<1>1. PICK w : w = writer[x]
  OBVIOUS
<1>2. w \in FileRun /\ Shaped(w) /\ w.pc = "load" /\ Wrote(w)
  BY <1>1, RunIs DEF Config!YamlRead, Config!At
<1>3. PICK d : d = Change(w, Config!ReadYaml)
  OBVIOUS
<1>4. PICK pc : pc = IF w.kind = "purge" /\ d = Config!ReadYaml THEN "cut" ELSE "truncate"
  OBVIOUS
<1>5. PICK v : v = [w EXCEPT !.doc = d, !.pc = pc]
  OBVIOUS
<1>6. PICK u : u = [w EXCEPT !.doc = d, !.pc = "truncate"]
  OBVIOUS
<1>7. /\ writer' = [writer EXCEPT ![x] = v]
      /\ spoiled' = spoiled \union Config!Lost("yaml")
      /\ UNCHANGED <<yaml, secrets, panel, want, hand>>
  BY <1>1, <1>3, <1>4, <1>5 DEF Config!YamlRead, Config!Step, Change
<1>8. d \in Config!Doc
  <2>1. w.kind = "save" => d \in Config!Doc
    BY <1>1, <1>3, RunIs, ReadIs, AppliedParts DEF FileInv, Change
  <2>2. w.kind \in {"upsert", "delete"} => d \in Config!Doc
    BY <1>2, <1>3, ReadIs, ListedParts DEF FileInv, Change, Shaped
  <2>3. ASSUME w.kind = "purge" PROVE d \in Config!Doc
    <3>1. PICK read : read = Config!ReadYaml
      OBVIOUS
    <3>2. d = [read EXCEPT !.plain = Without(read.plain, Plain), !.secret = Without(read.secret, Secret)]
      BY <1>3, <2>3, <3>1 DEF Change, Without
    <3>3. read \in Config!Doc
      BY <3>1, ReadIs DEF FileInv
    <3> QED
      BY <3>2, <3>3, PurgedParts
  <2> QED
    BY <1>2, <2>1, <2>2, <2>3 DEF FileRun, Kinds
<1>9. /\ v \in FileRun /\ v.pc = pc /\ v.doc = d /\ v.kind = w.kind
      /\ v.upd = w.upd /\ v.name = w.name
  <2>1. GoesTo(w, v, pc, d)
    BY <1>5 DEF GoesTo
  <2> QED
    BY <1>2, <1>4, <1>8, <2>1, RunExcept DEF RunPlaces
<1>10. /\ u \in FileRun /\ u.pc = "truncate" /\ u.doc = d /\ u.kind = w.kind
       /\ u.upd = w.upd /\ u.name = w.name
  <2>1. GoesTo(w, u, "truncate", d)
    BY <1>6 DEF GoesTo
  <2> QED
    BY <1>2, <1>8, <2>1, RunExcept DEF RunPlaces
<1>11. Says(u)' /\ Tidy(d)' /\ Agrees(u)'
  BY <1>1, <1>3, <1>10, ChangedDoc
<1>12. Shaped(v)
  BY <1>2, <1>4, <1>9 DEF Shaped
<1>13. spoiled \subseteq spoiled'
  BY <1>7
<1>14. Agrees(v)' /\ Says(v)' /\ Wrote(v)'
  <2>1. CASE pc = "truncate"
    <3>1. u = v
      BY <1>5, <1>6, <2>1
    <3>2. Wrote(v)'
      BY <1>2, <1>7, <1>9, <1>13, <2>1 DEF Wrote
    <3> QED
      BY <1>11, <3>1, <3>2
  <2>2. CASE pc = "cut"
    <3>1. d = Config!ReadYaml /\ w.kind = "purge"
      BY <1>4, <2>2
    <3>2. CASE "yaml" \in torn
      <4>1. \A k \in Config!Keys : k \in spoiled'
        BY <1>7, <3>2, ReadIs DEF FileInv
      <4> QED
        BY <1>9, <2>2, <4>1 DEF Agrees, Says, Wrote, Config!Keys
    <3>3. CASE "yaml" \notin torn
      <4>1. d = yaml'
        BY <1>7, <3>1, <3>3, ReadIs DEF FileInv
      <4>2. /\ \A p \in Plain : p \in Purged => d.plain[p] = Null
            /\ \A s \in Secret : s \in Purged => d.secret[s] = Null
        BY <1>10, <1>11, <3>1 DEF Says
      <4> QED
        BY <1>9, <2>2, <4>1, <4>2 DEF Agrees, Says, Wrote
    <3> QED
      BY <3>2, <3>3
  <2> QED
    BY <1>4, <2>1, <2>2
<1>15. Tidy(v.doc)'
  BY <1>9, <1>11 DEF Tidy
<1> QED
  BY <1>1, <1>7, <1>9, <1>12, <1>13, <1>14, <1>15, FilesSame, RunMoves

LEMMA FileTruncate == ASSUME FileInv, NEW x, Config!Truncate(x) PROVE FileInv'
<1> x \in DOMAIN writer
  BY DEF Config!Truncate, Config!At, Config!Busy
<1>1. PICK w : w = writer[x]
  OBVIOUS
<1>2. /\ w \in FileRun /\ Shaped(w) /\ w.pc = "truncate"
      /\ Agrees(w) /\ Says(w) /\ Wrote(w) /\ Tidy(w.doc)
  BY <1>1, RunIs DEF Config!Truncate, Config!At
<1>3. PICK v : v = [w EXCEPT !.pc = "dump"]
  OBVIOUS
<1>4. /\ v \in FileRun /\ v.pc = "dump" /\ v.doc = w.doc /\ v.kind = w.kind
      /\ v.upd = w.upd /\ v.name = w.name
  <2>1. GoesTo(w, v, "dump", w.doc) /\ w.doc \in Config!Doc
    BY <1>2, <1>3 DEF GoesTo, FileRun
  <2> QED
    BY <1>2, <2>1, RunExcept DEF RunPlaces
<1>5. /\ writer' = [writer EXCEPT ![x] = v]
      /\ UNCHANGED <<yaml, secrets, panel, want, spoiled, hand>>
  BY <1>1, <1>3 DEF Config!Truncate, Config!Step, Config!history
<1>6. Shaped(v)
  BY <1>2, <1>4 DEF Shaped
<1>7. Agrees(v)'
  <2>1. Config!KeysOf(v) = Config!KeysOf(w)
    BY <1>4, KeysStay
  <2>2. \A k : Free(k, v)' => Free(k, w)
    BY <1>5, <2>1 DEF Free
  <2> QED
    BY <1>2, <1>4, <1>5, <2>2 DEF Agrees
<1>8. Says(v)'
  BY <1>2, <1>4 DEF Says
<1>9. Wrote(v)'
  BY <1>2, <1>4, <1>5 DEF Wrote
<1>10. Tidy(v.doc)' /\ spoiled \subseteq spoiled'
  BY <1>2, <1>4, <1>5 DEF Tidy
<1> QED
  BY <1>1, <1>4, <1>5, <1>6, <1>7, <1>8, <1>9, <1>10, FilesSame, RunMoves

\* What the operator wants of keys that a run has not got.
LEMMA AskedIs ==
  ASSUME NEW w, want' = Config!Asked(w)
  PROVE  /\ want' = [k \in Config!Keys |-> want'[k]]
         /\ \A k \in Config!Keys : k \notin Config!KeysOf(w) => want'[k] = want[k]
         /\ w.kind \in {"purge", "delete"} =>
              \A k \in Config!Keys : k \in Config!KeysOf(w) => want'[k] = <<Null, Null>>
         /\ w.kind = "save" => \A k \in Config!Keys : k \in Config!KeysOf(w) =>
              want'[k] = <<IF k \in Plain THEN w.upd.plain[k] ELSE w.upd.secret[k], Null>>
         /\ w.kind = "upsert" => \A k \in Config!Keys : k \in Config!KeysOf(w) =>
              want'[k] = <<w.upd.entry[k], Config!First(w.upd.cred[k], secrets.cred[k])>>
<1>1. want' = [k \in Config!Keys |-> want'[k]]
  <2> DEFINE asked(k) ==
               IF k \notin Config!KeysOf(w) THEN want[k]
               ELSE CASE w.kind = "purge" -> <<Null, Null>>
                      [] w.kind = "save" ->
                           <<IF k \in Plain THEN w.upd.plain[k] ELSE w.upd.secret[k], Null>>
                      [] w.kind = "delete" -> <<Null, Null>>
                      [] w.kind = "upsert" ->
                           <<w.upd.entry[k], Config!First(w.upd.cred[k], secrets.cred[k])>>
  <2>1. want' = [k \in Config!Keys |-> asked(k)]
    BY DEF Config!Asked
  <2> HIDE DEF asked
  <2> QED
    BY <2>1
<1>2. ASSUME NEW k \in Config!Keys, k \notin Config!KeysOf(w) PROVE want'[k] = want[k]
  BY <1>2 DEF Config!Asked
<1>3. ASSUME NEW k \in Config!Keys, k \in Config!KeysOf(w), w.kind \in {"purge", "delete"}
      PROVE  want'[k] = <<Null, Null>>
  BY <1>3 DEF Config!Asked
<1>4. ASSUME NEW k \in Config!Keys, k \in Config!KeysOf(w), w.kind = "save"
      PROVE  want'[k] = <<IF k \in Plain THEN w.upd.plain[k] ELSE w.upd.secret[k], Null>>
  BY <1>4 DEF Config!Asked
<1>5. ASSUME NEW k \in Config!Keys, k \in Config!KeysOf(w), w.kind = "upsert"
      PROVE  want'[k] = <<w.upd.entry[k], Config!First(w.upd.cred[k], secrets.cred[k])>>
  BY <1>5 DEF Config!Asked
<1> QED
  BY <1>1, <1>2, <1>3, <1>4, <1>5

LEMMA FileDump == ASSUME FileInv, NEW x, Config!Dump(x) PROVE FileInv'
<1> x \in DOMAIN writer
  BY DEF Config!Dump, Config!At, Config!Busy
<1>1. PICK w : w = writer[x]
  OBVIOUS
<1>2. /\ w \in FileRun /\ Shaped(w) /\ w.pc = "dump" /\ w.doc \in Config!Doc /\ w.upd \in Config!Doc
      /\ Agrees(w) /\ Says(w) /\ Wrote(w) /\ Tidy(w.doc)
  BY <1>1, RunIs DEF Config!Dump, Config!At
<1>3. yaml' = w.doc /\ UNCHANGED <<secrets, panel, hand>>
  BY <1>1 DEF Config!Dump
<1>4. yaml' \in Config!Doc /\ secrets' \in Config!Doc /\ Tidy(yaml)'
  BY <1>2, <1>3 DEF FileInv, FileType, Tidy
<1>5. CASE w.kind = "purge"
  <2>1. PICK v : v = [w EXCEPT !.pc = "cut"]
    OBVIOUS
  <2>2. /\ v \in FileRun /\ v.pc = "cut" /\ v.kind = w.kind /\ v.upd = w.upd /\ v.name = w.name
    <3>1. GoesTo(w, v, "cut", w.doc)
      BY <2>1 DEF GoesTo
    <3> QED
      BY <1>2, <3>1, RunExcept DEF RunPlaces
  <2>3. writer' = [writer EXCEPT ![x] = v] /\ UNCHANGED <<want, spoiled>>
    BY <1>1, <1>5, <2>1 DEF Config!Dump, Config!Step
  <2>4. Config!KeysOf(v) = Config!KeysOf(w)
    BY <2>2, KeysStay
  <2>5. FilesKept(Config!KeysOf(v))
    BY <1>2, <1>3, <1>5, <2>3, <2>4 DEF FilesKept, Agrees, Free
  <2>6. Agrees(v)' /\ Says(v)' /\ ~(v.pc \in {"truncate", "dump"})
    BY <2>2 DEF Agrees, Says
  <2>7. Wrote(v)'
    BY <1>2, <1>3, <1>5, <2>2 DEF Wrote, Says
  <2>8. Shaped(v)
    BY <1>5, <2>2 DEF Shaped
  <2> QED
    BY <1>1, <1>3, <1>4, <2>2, <2>3, <2>5, <2>6, <2>7, <2>8, RunMoves
<1>6. CASE w.kind # "purge"
  <2>1. /\ writer' = [y \in Config!Others(x) |-> writer[y]] /\ want' = Config!Asked(w)
        /\ spoiled \subseteq spoiled' /\ Config!Stripped(w) \subseteq spoiled'
    BY <1>1, <1>6 DEF Config!Dump, Config!Ended, Config!Leave
  <2>2. w.kind \in {"save", "upsert", "delete"}
    BY <1>2, <1>6 DEF FileRun, Kinds
  <2>3. FilesKept(Config!KeysOf(w))
    <3>1. ASSUME NEW s \in Secret, s \notin spoiled' \union Config!KeysOf(w)
          PROVE  secrets.secret[s] # Null \/ yaml'.secret[s] = yaml.secret[s]
      <4>1. CASE w.kind = "save"
        <5>1. w.doc.secret[s] = Null /\ s \notin Config!Stripped(w)
          BY <1>2, <2>1, <3>1, <4>1 DEF Says
        <5> QED
          BY <1>3, <4>1, <5>1 DEF Config!Stripped
      <4>2. CASE w.kind # "save"
        BY <1>2, <1>3, <2>1, <3>1, <4>2 DEF Agrees, Free
      <4> QED
        BY <4>1, <4>2
    <3>2. /\ \A p \in Plain \ (spoiled' \union Config!KeysOf(w)) : yaml'.plain[p] = yaml.plain[p]
          /\ \A m \in Delegated \ (spoiled' \union Config!KeysOf(w)) : yaml'.entry[m] = yaml.entry[m]
      BY <1>2, <1>3, <2>1 DEF Agrees, Free
    <3> QED
      BY <1>3, <2>1, <3>1, <3>2 DEF FilesKept
  <2>4. ASSUME NEW k \in Config!Keys \ spoiled', k \in Config!KeysOf(w)
        PROVE  (Config!Effective(k) = want[k])'
    <3>1. k \notin spoiled
      BY <2>1
    <3>2. CASE w.kind = "save"
      <4>1. want'[k] = <<IF k \in Plain THEN w.upd.plain[k] ELSE w.upd.secret[k], Null>>
        BY <2>1, <2>4, <3>2, AskedIs
      <4>2. CASE k \in Plain
        <5>1. yaml'.plain[k] = w.upd.plain[k]
          BY <1>2, <1>3, <2>4, <3>2, <4>2, KeysAre DEF Says
        <5> QED
          BY <4>1, <4>2, <5>1 DEF Config!Effective
      <4>3. CASE k \in Secret
        <5>1. secrets'.secret[k] = w.upd.secret[k] /\ w.upd.secret[k] # Null
          BY <1>2, <1>3, <2>4, <3>1, <3>2, <4>3, KeysAre DEF Wrote
        <5>2. k \notin Plain
          BY <4>3, FileConstants
        <5> QED
          BY <4>1, <4>3, <5>1, <5>2 DEF Config!Effective, Config!First
      <4>4. k \notin Delegated
        BY <2>4, <3>2, KeysAre
      <4> QED
        BY <4>2, <4>3, <4>4 DEF Config!Keys
    <3>3. CASE w.kind \in {"upsert", "delete"}
      <4>1. k = w.name /\ k \in Delegated /\ k \notin Plain /\ k \notin Secret
        BY <1>2, <2>4, <3>3, KeysAre, FileConstants DEF Shaped
      <4>2. yaml'.entry[k] = w.upd.entry[k] /\ yaml'.cred[k] = Null
        BY <1>2, <1>3, <3>3, <4>1 DEF Says, Tidy
      <4>3. CASE w.kind = "upsert"
        <5>1. want'[k] = <<w.upd.entry[k], Config!First(w.upd.cred[k], secrets.cred[k])>>
          BY <2>1, <2>4, <4>3, AskedIs
        <5>2. w.upd.entry[k] # Null /\ (w.upd.cred[k] # Null => secrets.cred[k] = w.upd.cred[k])
          BY <1>2, <3>1, <4>1, <4>3 DEF Shaped, Wrote
        <5> QED
          BY <1>3, <4>1, <4>2, <5>1, <5>2 DEF Config!Effective, Config!Delegate, Config!First
      <4>4. CASE w.kind = "delete"
        <5>1. want'[k] = <<Null, Null>>
          BY <2>1, <2>4, <4>4, AskedIs
        <5>2. w.upd.entry[k] = Null
          BY <1>2, <4>1, <4>4 DEF Shaped
        <5> QED
          BY <4>1, <4>2, <5>1, <5>2 DEF Config!Effective, Config!Delegate
      <4> QED
        BY <3>3, <4>3, <4>4
    <3> QED
      BY <2>2, <3>2, <3>3
  <2>5. /\ want' = [k \in Config!Keys |-> want'[k]]
        /\ \A k \in Config!Keys \ (spoiled' \union Config!KeysOf(w)) : want'[k] = want[k]
    BY <2>1, AskedIs
  <2> QED
    BY <1>1, <1>3, <1>4, <2>1, <2>3, <2>4, <2>5, RunEnds
<1> QED
  BY <1>5, <1>6

\* The end of a removal, with the plugin's keys in neither file.
LEMMA PurgeEnds ==
  ASSUME FileInv, NEW x \in DOMAIN writer, NEW w, w = writer[x], w.kind = "purge",
         writer' = [y \in Config!Others(x) |-> writer[y]], want' = Config!Asked(w),
         UNCHANGED <<yaml, panel, hand>>, secrets' \in Config!Doc,
         FilesKept(Config!KeysOf(w)), w.pc \in {"cut", "cutdump"},
         \A s \in Secret \ spoiled' : s \in Purged /\ Config!Others(x) = {} => secrets'.secret[s] = Null
  PROVE  FileInv'
<1>1. w \in FileRun /\ Wrote(w) /\ Config!KeysOf(w) = Purged
  BY RunIs, KeysAre
<1>2. yaml' \in Config!Doc /\ Tidy(yaml)'
  BY DEF FileInv, FileType, Tidy
<1>3. /\ want' = [k \in Config!Keys |-> want'[k]]
      /\ \A k \in Config!Keys \ (spoiled' \union Config!KeysOf(w)) : want'[k] = want[k]
  BY AskedIs
<1>4. ASSUME NEW k \in Config!Keys \ spoiled', k \in Config!KeysOf(w), Config!Others(x) = {}
      PROVE  (Config!Effective(k) = want[k])'
  <2>1. want'[k] = <<Null, Null>> /\ k \in Purged /\ k \notin spoiled
    BY <1>1, <1>4, AskedIs DEF FilesKept
  <2>2. CASE k \in Plain
    <3>1. yaml'.plain[k] = Null
      BY <1>1, <2>1, <2>2 DEF Wrote
    <3> QED
      BY <2>1, <2>2, <3>1 DEF Config!Effective
  <2>3. CASE k \in Secret
    <3>1. yaml'.secret[k] = Null /\ secrets'.secret[k] = Null /\ k \notin Plain
      BY <1>1, <1>4, <2>1, <2>3, FileConstants DEF Wrote
    <3> QED
      BY <2>1, <2>3, <3>1 DEF Config!Effective, Config!First
  <2> QED
    BY <2>1, <2>2, <2>3, FileConstants
<1> QED
  BY <1>2, <1>3, <1>4, RunEnds

LEMMA FileCut == ASSUME FileInv, NEW x, Config!Cut(x) PROVE FileInv'
<1> x \in DOMAIN writer
  BY DEF Config!Cut, Config!At, Config!Busy
<1>1. PICK w : w = writer[x]
  OBVIOUS
<1>2. w \in FileRun /\ Shaped(w) /\ w.pc = "cut" /\ Wrote(w)
  BY <1>1, RunIs DEF Config!Cut, Config!At
<1>3. w.kind = "purge" /\ Config!KeysOf(w) = Purged
  BY <1>2, KeysAre DEF Shaped, FileRun, Kinds
<1>4. PICK read : read = Config!ReadSecrets
  OBVIOUS
<1>5. read \in Config!Doc
  BY <1>4, ReadIs DEF FileInv
<1>6. PICK kept : kept = [read EXCEPT !.secret = Without(read.secret, Secret)]
  OBVIOUS
<1>7. kept \in Config!Doc /\ kept.secret = Without(read.secret, Secret) /\ kept.cred = read.cred
  BY <1>5, <1>6, PurgedParts
<1>8. \A s \in Secret : kept.secret[s] = IF s \in Purged THEN Null ELSE read.secret[s]
  BY <1>7 DEF Without
<1>9. UNCHANGED <<yaml, secrets, panel, hand>>
  BY DEF Config!Cut
<1>10. CASE kept = read
  <2>1. Config!Ended(x, "secrets" \notin torn)
    BY <1>4, <1>6, <1>10 DEF Config!Cut, Without
  <2>2. /\ writer' = [y \in Config!Others(x) |-> writer[y]] /\ want' = Config!Asked(w)
        /\ spoiled \subseteq spoiled'
        /\ "secrets" \in torn => Config!KeysOf(w) \subseteq spoiled'
    BY <1>1, <2>1 DEF Config!Ended, Config!Leave
  <2>3. ASSUME NEW s \in Secret \ spoiled', s \in Purged PROVE secrets'.secret[s] = Null
    <3>1. "secrets" \notin torn
      BY <1>3, <2>2, <2>3
    <3>2. read = secrets'
      BY <1>4, <1>9, <3>1, ReadIs DEF FileInv
    <3> QED
      BY <1>8, <1>10, <2>3, <3>2
  <2>4. FilesKept(Config!KeysOf(w)) /\ secrets' \in Config!Doc
    BY <1>9, <2>2, FilesSame
  <2> QED
    BY <1>1, <1>2, <1>3, <1>9, <2>2, <2>3, <2>4, PurgeEnds
<1>11. CASE kept # read
  <2>1. PICK v : v = [w EXCEPT !.pc = "cutdump", !.doc = kept]
    OBVIOUS
  <2>2. /\ v \in FileRun /\ v.pc = "cutdump" /\ v.doc = kept /\ v.kind = w.kind
        /\ v.upd = w.upd /\ v.name = w.name
    <3>1. GoesTo(w, v, "cutdump", kept)
      BY <2>1 DEF GoesTo
    <3> QED
      BY <1>2, <1>7, <3>1, RunExcept DEF RunPlaces
  <2>3. writer' = [writer EXCEPT ![x] = v] /\ UNCHANGED <<want, spoiled>>
    BY <1>1, <1>4, <1>6, <1>11, <2>1 DEF Config!Cut, Config!Step, Without
  <2>4. read = secrets'
    <3>1. CASE "secrets" \notin torn
      BY <1>4, <1>9, <3>1, ReadIs DEF FileInv
    <3>2. CASE "secrets" \in torn
      <4>1. read = Config!EmptyDoc
        BY <1>4, <3>2, ReadIs DEF FileInv
      <4>2. Without(read.secret, Secret) = Config!EmptyDoc.secret
        <5>1. \A s \in Secret : Without(read.secret, Secret)[s] = Config!EmptyDoc.secret[s]
          BY <4>1, EmptyParts DEF Without
        <5>2. Config!EmptyDoc.secret = [s \in Secret |-> Null]
          BY DEF Config!EmptyDoc
        <5> QED
          BY <5>1, <5>2 DEF Without
      <4>3. kept = read
        BY <1>6, <4>1, <4>2 DEF Config!EmptyDoc
      <4> QED
        BY <1>11, <4>3
    <3> QED
      BY <3>1, <3>2
  <2>5. Shaped(v)
    BY <1>3, <2>2 DEF Shaped
  <2>6. Agrees(v)'
    <3>1. Config!KeysOf(v) = Purged
      BY <1>3, <2>2, KeysAre
    <3> QED
      BY <1>7, <1>8, <2>2, <2>4, <3>1 DEF Agrees, Free
  <2>7. Says(v)'
    BY <1>8, <2>2 DEF Says
  <2>8. Wrote(v)' /\ ~(v.pc \in {"truncate", "dump"})
    BY <1>2, <1>9, <2>2, <2>3 DEF Wrote
  <2>9. spoiled \subseteq spoiled'
    BY <2>3
  <2> QED
    BY <1>1, <1>9, <2>2, <2>3, <2>5, <2>6, <2>7, <2>8, <2>9, FilesSame, RunMoves
<1> QED
  BY <1>10, <1>11

LEMMA FileCutDump == ASSUME FileInv, NEW x, Config!CutDump(x) PROVE FileInv'
<1> x \in DOMAIN writer
  BY DEF Config!CutDump, Config!At, Config!Busy
<1>1. PICK w : w = writer[x]
  OBVIOUS
<1>2. /\ w \in FileRun /\ Shaped(w) /\ w.pc = "cutdump" /\ w.doc \in Config!Doc
      /\ Agrees(w) /\ Says(w)
  BY <1>1, RunIs DEF Config!CutDump, Config!At
<1>3. w.kind = "purge" /\ Config!KeysOf(w) = Purged
  BY <1>2, KeysAre DEF Shaped, FileRun, Kinds
<1>4. /\ writer' = [y \in Config!Others(x) |-> writer[y]] /\ want' = Config!Asked(w)
      /\ spoiled \subseteq spoiled' /\ secrets' = w.doc /\ UNCHANGED <<yaml, panel, hand>>
  BY <1>1 DEF Config!CutDump, Config!Ended, Config!Leave
<1>5. FilesKept(Config!KeysOf(w))
  BY <1>2, <1>4 DEF FilesKept, Agrees, Free
<1>6. \A s \in Secret : s \in Purged => secrets'.secret[s] = Null
  BY <1>2, <1>4 DEF Says
<1> QED
  BY <1>1, <1>2, <1>3, <1>4, <1>5, <1>6, PurgeEnds

LEMMA FileFails == ASSUME FileInv, NEW x, Config!Fail(x) PROVE FileInv'
<1> x \in DOMAIN writer
  BY DEF Config!Fail, Config!Busy
<1>1. PICK w : w = writer[x]
  OBVIOUS
<1>2. PICK cut : cut = CASE w.pc = "dump" -> {"yaml"} [] w.pc = "cutdump" -> {"secrets"} [] OTHER -> {}
  OBVIOUS
<1>3. /\ writer' = [y \in Config!Others(x) |-> writer[y]] /\ UNCHANGED <<panel, want, hand>>
      /\ yaml' = (IF "yaml" \in cut THEN Config!EmptyDoc ELSE yaml)
      /\ secrets' = (IF "secrets" \in cut THEN Config!EmptyDoc ELSE secrets)
      /\ spoiled' = spoiled \union IF cut # {} THEN Config!Keys
                                   ELSE Config!KeysOf(w) \union Config!Touched(x, w)
  BY <1>1, <1>2 DEF Config!Fail, Config!Leave
<1>4. yaml' \in Config!Doc /\ secrets' \in Config!Doc /\ Tidy(yaml)'
  BY <1>3, EmptyParts DEF FileInv, FileType, Tidy
<1>5. want' = [k \in Config!Keys |-> want'[k]]
  BY <1>3 DEF FileInv, FileType
<1>6. CASE cut = {}
  <2>1. FilesKept(Config!KeysOf(w)) /\ Config!KeysOf(w) \subseteq spoiled'
    BY <1>3, <1>6 DEF FilesKept
  <2> QED
    BY <1>1, <1>3, <1>4, <1>5, <2>1, RunEnds
<1>7. CASE cut # {}
  <2>1. spoiled' = spoiled \union Config!Keys
    BY <1>3, <1>7
  <2>3. FilesKept(Config!KeysOf(w))
    BY <2>1 DEF FilesKept, Config!Keys
  <2> QED
    BY <1>1, <1>3, <1>4, <1>5, <2>1, <2>3, RunEnds
<1> QED
  BY <1>6, <1>7

LEMMA FileEdit ==
  ASSUME FileInv, NEW s \in Secret, NEW v \in Values, Config!HandEdit(s, v)
  PROVE  FileInv'
<1>1. /\ DOMAIN writer = {} /\ yaml' = [yaml EXCEPT !.secret[s] = v] /\ hand' = hand \union {s}
      /\ want' = [want EXCEPT ![s] = <<Config!First(secrets.secret[s], v), Null>>]
      /\ UNCHANGED <<secrets, writer, panel, spoiled>>
  BY DEF Config!HandEdit
<1>2. /\ yaml' \in Config!Doc /\ yaml'.plain = yaml.plain /\ yaml'.entry = yaml.entry
      /\ yaml'.cred = yaml.cred
      /\ \A z \in Secret : yaml'.secret[z] = IF z = s THEN v ELSE yaml.secret[z]
  <2>1. yaml \in Config!Doc
    BY DEF FileInv, FileType
  <2> QED
    BY <1>1, <2>1 DEF Config!Doc, Config!Maybe
<1>3. FileType'
  BY <1>1, <1>2 DEF FileInv, FileType
<1>4. Tidy(yaml)'
  BY <1>1, <1>2 DEF FileInv, Tidy
<1>5. FilesKept({s})
  BY <1>1, <1>2 DEF FilesKept
<1>6. OthersStay(Loop, {s})
  BY <1>1 DEF OthersStay
<1>7. NowAsked({s})
  <2>1. want'[s] = <<Config!First(secrets.secret[s], v), Null>> /\ \A k \in Config!Keys \ {s} : want'[k] = want[k]
    BY <1>1 DEF FileInv, FileType, Config!Keys
  <2>2. (Config!Effective(s) = want[s])'
    BY <1>1, <1>2, <2>1, FileConstants DEF Config!Effective
  <2>3. \A k : k \notin Config!AtWork
    BY <1>1 DEF Config!AtWork
  <2> QED
    BY <2>1, <2>2, <2>3 DEF NowAsked
<1>8. Loop \notin DOMAIN writer' /\ hand \subseteq hand'
  BY <1>1
<1> QED
  BY <1>3, <1>4, <1>5, <1>6, <1>7, <1>8, FileMove

\* The form and the prober touch neither files nor runs.
LEMMA FileQuiet ==
  ASSUME FileInv, UNCHANGED <<yaml, secrets, writer, spoiled, want, hand>>,
         panel' = panel \/ panel' = yaml.plain
  PROVE  FileInv'
<1>1. FileType'
  BY DocParts DEF FileInv, FileType, Shaped
<1>2. Overlap' /\ Tidy(yaml)' /\ \A x \in DOMAIN writer' : Fine(x)'
  BY DEF FileInv, Overlap, Tidy, Fine, Agrees, Says, Wrote, Free, Config!KeysOf
<1>3. Config!AskedIsKept'
  BY DEF FileInv, Config!AskedIsKept, Config!Effective, Config!Delegate, Config!AtWork, Config!KeysOf
<1> QED
  BY <1>1, <1>2, <1>3 DEF FileInv

LEMMA FileStep == FileInv /\ [Next]_vars => FileInv'
<1> SUFFICES ASSUME FileInv, [Config!Next]_fileVars PROVE FileInv'
  BY FileMoves
<1>1. CASE UNCHANGED fileVars
  BY <1>1, FileQuiet DEF fileVars
<1>2. ASSUME NEW x \in Config!Actors,
             \/ Config!SecretsRead(x) \/ Config!SecretsReplace(x) \/ Config!ListRead(x)
             \/ Config!YamlRead(x) \/ Config!Truncate(x) \/ Config!Dump(x)
             \/ Config!Cut(x) \/ Config!CutDump(x) \/ Config!Fail(x)
      PROVE  FileInv'
  BY <1>2, FileSecretsRead, FileSecretsReplace, FileListRead, FileYamlRead, FileTruncate, FileDump,
     FileCut, FileCutDump, FileFails
<1>3. ASSUME NEW x \in Config!Actors,
             \/ \E p \in Plain, v \in Values, form \in BOOLEAN : Config!Save(x, p, v, form)
             \/ \E s \in Secret, v \in Values : Config!SaveSecret(x, s, v)
             \/ Config!Purge(x)
      PROVE  FileInv'
  BY <1>3, FileSave, FileSaveSecret, FilePurge
<1>4. CASE \/ \E m \in Delegated, en \in Values, cred \in Config!Maybe : Config!Upsert(m, en, cred)
           \/ \E m \in Delegated : Config!Delete(m)
           \/ \E s \in Secret, v \in Values : Config!HandEdit(s, v)
  BY <1>4, FileUpsert, FileDelete, FileEdit
<1>5. ASSUME \/ Config!Open \/ Config!SweepBegins \/ Config!SweepEnds
             \/ \E m \in Delegated, v \in Values : Config!Probe(<<m, v>>)
      PROVE  FileInv'
  <2>1. UNCHANGED <<yaml, secrets, writer, spoiled, want, hand>>
    BY <1>5 DEF Config!Open, Config!SweepBegins, Config!SweepEnds, Config!Probe, Config!history
  <2>2. panel' = panel \/ panel' = yaml.plain
    BY <1>5 DEF Config!Open, Config!SweepBegins, Config!SweepEnds, Config!Probe, Config!Shown
  <2> QED
    BY <2>1, <2>2, FileQuiet
<1> QED
  BY <1>1, <1>2, <1>3, <1>4, <1>5 DEF Config!Next

-----------------------------------------------------------------------------
(* The health of delegates *)

\* What a round has found, and what it still has to probe, is of the entries there are.
HealthInv ==
  /\ health = [m \in Delegated |-> health[m]]
  /\ sweep \in [on : BOOLEAN, todo : SUBSET (Delegated \X Config!Maybe), seen : SUBSET Delegated]
  /\ sweep.on => \A m \in Delegated \ changed :
       /\ m \in sweep.seen <=> yaml.entry[m] # Null
       /\ m \in sweep.seen => health[m] = yaml.entry[m] \/ <<m, yaml.entry[m]>> \in sweep.todo
       /\ \A v : <<m, v>> \in sweep.todo => v = yaml.entry[m]
  /\ Config!HealthOfEntry

LEMMA HealthInit == Init => HealthInv
<1> SUFFICES ASSUME Config!Init PROVE HealthInv
  BY DEF Init
<1> QED
  BY EmptyParts DEF Config!Init, HealthInv, Config!HealthOfEntry, Config!EmptyDoc

\* Whoever changes an entry notes it.
LEMMA HealthKept ==
  ASSUME HealthInv, UNCHANGED <<sweep, health>>, changed \subseteq changed',
         \A m \in Delegated \ changed' : yaml'.entry[m] = yaml.entry[m]
  PROVE  HealthInv'
  BY DEF HealthInv, Config!HealthOfEntry

LEMMA HealthBegins == ASSUME FileInv, HealthInv, Config!SweepBegins PROVE HealthInv'
<1>1. PICK there : there = {m \in Delegated : Config!ReadYaml.entry[m] # Null}
  OBVIOUS
<1>2. /\ sweep' = [on |-> TRUE, todo |-> {<<m, yaml.entry[m]>> : m \in there}, seen |-> there]
      /\ changed' = IF "yaml" \in torn THEN Delegated ELSE {}
      /\ UNCHANGED <<yaml, health>>
  BY <1>1 DEF Config!SweepBegins
<1>3. sweep'.on = TRUE /\ sweep'.seen = there /\ sweep'.todo = {<<m, yaml.entry[m]>> : m \in there}
  BY <1>2
<1>4. ASSUME NEW m \in Delegated \ changed'
      PROVE  /\ m \in sweep'.seen <=> yaml'.entry[m] # Null
             /\ m \in sweep'.seen => <<m, yaml'.entry[m]>> \in sweep'.todo
             /\ \A v : <<m, v>> \in sweep'.todo => v = yaml'.entry[m]
  <2>1. "yaml" \notin torn
    BY <1>2, <1>4
  <2>2. Config!ReadYaml = yaml
    BY <2>1 DEF Config!ReadYaml
  <2>3. m \in there <=> yaml.entry[m] # Null
    BY <1>1, <2>2
  <2> QED
    BY <1>2, <1>3, <2>3
<1>5. sweep' \in [on : BOOLEAN, todo : SUBSET (Delegated \X Config!Maybe), seen : SUBSET Delegated]
  <2>1. \A m \in there : m \in Delegated /\ yaml.entry[m] \in Config!Maybe
    BY <1>1, DocParts DEF FileInv, FileType
  <2> QED
    BY <1>2, <2>1
<1> QED
  BY <1>2, <1>3, <1>4, <1>5 DEF HealthInv, Config!HealthOfEntry

LEMMA HealthProbes ==
  ASSUME HealthInv, NEW k \in Delegated, NEW u, Config!Probe(<<k, u>>)
  PROVE  HealthInv'
<1>1. /\ sweep.on /\ <<k, u>> \in sweep.todo
      /\ sweep' = [sweep EXCEPT !.todo = @ \ {<<k, u>>}]
      /\ health' = [health EXCEPT ![k] = u]
      /\ UNCHANGED <<yaml, changed>>
  BY DEF Config!Probe
<1>2. \A m \in Delegated : health'[m] = IF m = k THEN u ELSE health[m]
  BY <1>1 DEF HealthInv
<1>5. /\ sweep' \in [on : BOOLEAN, todo : SUBSET (Delegated \X Config!Maybe), seen : SUBSET Delegated]
      /\ sweep'.on = sweep.on /\ sweep'.seen = sweep.seen /\ sweep'.todo = sweep.todo \ {<<k, u>>}
  BY <1>1 DEF HealthInv
<1>6. health' = [m \in Delegated |-> health'[m]]
  BY <1>1 DEF HealthInv
<1>3. ASSUME NEW m \in Delegated \ changed'
      PROVE  /\ m \in sweep'.seen <=> yaml'.entry[m] # Null
             /\ m \in sweep'.seen =>
                  health'[m] = yaml'.entry[m] \/ <<m, yaml'.entry[m]>> \in sweep'.todo
             /\ \A v : <<m, v>> \in sweep'.todo => v = yaml'.entry[m]
  BY <1>1, <1>2, <1>5 DEF HealthInv
<1> QED
  BY <1>1, <1>3, <1>5, <1>6 DEF HealthInv, Config!HealthOfEntry

LEMMA HealthEnds == ASSUME HealthInv, Config!SweepEnds PROVE HealthInv'
<1>1. /\ sweep.on /\ sweep.todo = {} /\ sweep' = [on |-> FALSE, todo |-> {}, seen |-> {}]
      /\ health' = [m \in Delegated |-> IF m \in sweep.seen THEN health[m] ELSE Null]
      /\ UNCHANGED <<yaml, changed>>
  BY DEF Config!SweepEnds
<1>2. sweep'.on = FALSE
  BY <1>1
<1> QED
  BY <1>1, <1>2 DEF HealthInv, Config!HealthOfEntry

LEMMA HealthStep == FileInv /\ HealthInv /\ [Next]_vars => HealthInv'
<1> SUFFICES ASSUME FileInv, HealthInv, [Config!Next]_fileVars PROVE HealthInv'
  BY FileMoves
<1>1. CASE UNCHANGED fileVars
  BY <1>1, HealthKept DEF fileVars
<1>2. ASSUME UNCHANGED <<yaml, sweep, health, changed>> PROVE HealthInv'
  BY <1>2, HealthKept
<1>3. ASSUME NEW x,
             \/ Config!SecretsRead(x) \/ Config!SecretsReplace(x) \/ Config!ListRead(x)
             \/ Config!YamlRead(x) \/ Config!Truncate(x) \/ Config!Cut(x) \/ Config!CutDump(x)
      PROVE  UNCHANGED <<yaml, sweep, health, changed>>
  BY <1>3 DEF Config!SecretsRead, Config!SecretsReplace, Config!ListRead, Config!YamlRead,
     Config!Truncate, Config!Cut, Config!CutDump, Config!probing
<1>4. ASSUME NEW x, \/ \E p \in Plain, v \in Values, form \in BOOLEAN : Config!Save(x, p, v, form)
                    \/ \E s \in Secret, v \in Values : Config!SaveSecret(x, s, v)
                    \/ Config!Purge(x)
                    \/ \E m \in Delegated, en \in Values, cred \in Config!Maybe : Config!Upsert(m, en, cred)
                    \/ \E m \in Delegated : Config!Delete(m)
      PROVE  UNCHANGED <<yaml, sweep, health, changed>>
  BY <1>4 DEF Config!Save, Config!SaveSecret, Config!Purge, Config!Upsert, Config!Delete,
     Config!Begin, Config!probing
<1>5. ASSUME NEW x, Config!Dump(x) \/ Config!Fail(x) PROVE HealthInv'
  <2>1. UNCHANGED <<sweep, health>> /\ Config!Note(yaml')
    BY <1>5 DEF Config!Dump, Config!Fail, Config!Note
  <2> QED
    BY <2>1, HealthKept DEF Config!Note
<1>6. ASSUME NEW s \in Secret, NEW v, Config!HandEdit(s, v) PROVE HealthInv'
  <2>1. UNCHANGED <<sweep, health, changed>> /\ yaml' = [yaml EXCEPT !.secret[s] = v]
    BY <1>6 DEF Config!HandEdit, Config!probing
  <2>2. yaml'.entry = yaml.entry
    BY <2>1 DEF FileInv, FileType, Config!Doc
  <2> QED
    BY <2>1, <2>2, HealthKept
<1>7. CASE Config!Open
  BY <1>2, <1>7 DEF Config!Open, Config!probing
<1> QED
  BY <1>1, <1>2, <1>3, <1>4, <1>5, <1>6, <1>7, HealthBegins, HealthProbes, HealthEnds DEF Config!Next

\* For any settings, secrets, delegates, threads and number of runs: a key is lost only to a run
\* of the same key, an overlap or a failure; secrets stay out of the tracked file; what is shown
\* of a delegate's health is of its entry.
THEOREM FilesAreSound == Spec => []FilesSound
<1>1. FileInv /\ HealthInv => FilesSound
  BY DEF FileInv, HealthInv, FilesSound, Config!FilesSound, Config!SecretsApart, Tidy
<1> QED
  BY <1>1, FileInit, FileStep, HealthInit, HealthStep, PTL DEF Spec

-----------------------------------------------------------------------------
(* The knowledge base *)

LEMMA BaseMoves == [Next]_vars => [Base!Next]_baseVars
  BY DEF Next, vars

\* What a harvest has still to store, and what its facts are compared with.
Batches == [kind : {"facts"}, ns : Namespaces \union {Null}, facts : Seq(Contents),
            known : SUBSET Contents]
Writes == [kind : {"embed", "store"}, id : Nat, next : {Base!Idle} \union Batches]
Searches == [kind : {"search"}, k : Nat \ {0}, domain : {Null, "general"}, base : Seq(Nat)]
Hydrates(S) == [kind : {"hydrate"}, k : Nat \ {0}, base : Seq(Nat), todo : Seq(S), ids : Seq(S)]

Distinct(s) == \A i, j \in DOMAIN s : s[i] = s[j] => i = j
HasHit(ids, base) == ids # <<>> /\ ids[1] \in Base!ToSet(base)

\* The first thing a search of both kinds has found, or is about to fetch, is a keyword hit.
Hydrating(o) ==
  /\ \E S : o \in Hydrates(S)
  /\ o.base # <<>> => \/ HasHit(o.ids, o.base)
                      \/ o.ids = <<>> /\ HasHit(o.todo, o.base)

BaseOp ==
  \/ op = Base!Idle
  \/ op \in Batches
  \/ op \in Writes /\ op.id \in 1..last
  \/ op \in Searches /\ Distinct(op.base)
  \/ op.kind = "hydrate" /\ Hydrating(op)
  \/ op.kind = "answer" /\ (op.base # <<>> => HasHit(op.ids, op.base))

\* A batch knows the recent facts it is compared with, the ones it stored among them.
Covered(b) ==
  \A i \in DOMAIN chunks :
    /\ chunks[i].domain = "fact" /\ (b.ns = Null \/ chunks[i].ns = b.ns)
    /\ last + 1 - i <= FactLimit
    => chunks[i].text \in b.known
BatchCovered ==
  /\ op \in Batches => Covered(op)
  /\ op \in Writes /\ op.next \in Batches => Covered(op.next)

\* The breaker has counted the calls that failed, and is open for a cooldown after the last.
Counted ==
  /\ failed \in Seq(Nat) /\ breaker.fails = Len(failed)
  /\ \A i, j \in 1..Len(failed) : i <= j => failed[j] <= failed[i] /\ failed[i] <= clock
  /\ Len(failed) >= BreakAfter => breaker.until = failed[1] + Cooldown

BaseTyped ==
  /\ DOMAIN chunks \subseteq 1..last /\ last \in 0..MaxChunk
  /\ \A i \in DOMAIN chunks : chunks[i] \in Base!Chunk
  /\ vectors \subseteq 1..last
  /\ breaker.fails \in Nat /\ breaker.until \in 0..(MaxTime + Cooldown)
  /\ clock \in 0..MaxTime

BaseInv == /\ BaseTyped /\ BaseOp /\ BatchCovered /\ Base!FactsDistinct
           /\ Counted /\ Base!OutageBounded

BaseNumbers == /\ {VectorK, BreakAfter, Cooldown, FactLimit} \subseteq Nat \ {0}
               /\ MaxChunk \in Nat /\ MaxTime \in Nat

LEMMA BaseConstants == BaseNumbers
  BY KnowledgeAssumption DEF KnowledgeAssumption, Base!KnowledgeAssumption, BaseNumbers

-----------------------------------------------------------------------------
(* The fused ranking *)

LEMMA SameCount == \A S : Base!Cardinality(S) = Cardinality(S)
  BY DEF Base!Cardinality, Cardinality

LEMMA FiniteRange ==
  ASSUME NEW r \in Seq(Nat)
  PROVE  IsFiniteSet(Base!ToSet(r))
<1> DEFINE I == 1..Len(r)
           T == Base!ToSet(r)
           f == [i \in I |-> r[i]]
<1>1. IsFiniteSet(I)
  <2>1. 1 \in Int /\ Len(r) \in Int
    OBVIOUS
  <2> QED
    BY <2>1, FS_Interval
<1>2. DOMAIN r = I
  OBVIOUS
<1>3. f \in Surjection(I, T)
  <2>1. \A i \in I : r[i] \in T
    BY <1>2 DEF Base!ToSet
  <2>2. \A x \in T : \E i \in I : r[i] = x
    BY <1>2 DEF Base!ToSet
  <2> HIDE DEF T, I
  <2> QED
    BY <2>1, <2>2 DEF Surjection
<1> HIDE DEF T, I, f
<1> QED
  BY <1>1, <1>3, FS_Surjection DEF T

LEMMA ShareAtMost ==
  ASSUME NEW r \in Seq(Nat), NEW x
  PROVE  Base!Share(r, x) \in Nat /\ Base!Share(r, x) <= 16666
<1>1. CASE x \in Base!ToSet(r)
  <2> DEFINE p == Base!PlaceIn(r, x)
  <2>1. p \in DOMAIN r
    BY <1>1 DEF Base!ToSet, Base!PlaceIn
  <2>2. p \in Nat /\ p >= 1
    BY <2>1
  <2> HIDE DEF p
  <2> DEFINE d == 59 + p
             q == 1000000 \div d
  <2>3. d \in Nat /\ d >= 60
    BY <2>2
  <2> HIDE DEF d
  <2>4. q \in Nat
    BY <2>3, SMT
  <2>5. q * d <= 1000000
    BY <2>3, SMT
  <2>7. q <= 16666
    <3> HIDE DEF q
    <3>1. ASSUME q >= 16667 PROVE FALSE
      <4>1. q * d >= 16667 * 60 /\ q * d \in Nat
        BY <2>3, <2>4, <3>1, SMT
      <4> DEFINE r1 == q * d
      <4>2. r1 >= 16667 * 60 /\ r1 <= 1000000 /\ r1 \in Nat
        BY <2>5, <4>1
      <4> HIDE DEF r1
      <4> QED
        BY <4>2, SMT
    <3> QED
      BY <2>4, <3>1, SMT
  <2> QED
    BY <1>1, <2>4, <2>7, SMT DEF Base!Share, Base!RrfK, p, d
<1>2. CASE x \notin Base!ToSet(r)
  BY <1>2 DEF Base!Share
<1> QED
  BY <1>1, <1>2

LEMMA FirstShare ==
  ASSUME NEW r \in Seq(Nat), r # <<>>, Distinct(r)
  PROVE  Base!Share(r, r[1]) = 16666 /\ r[1] \in Base!ToSet(r) /\ Base!PlaceIn(r, r[1]) = 1
<1>1. 1 \in DOMAIN r
  OBVIOUS
<1>2. r[1] \in Base!ToSet(r)
  BY <1>1 DEF Base!ToSet
<1>3. Base!PlaceIn(r, r[1]) = 1
  BY <1>1 DEF Base!PlaceIn, Distinct
<1>4. 1000000 \div 60 = 16666
  BY SMT
<1> QED
  BY <1>2, <1>3, <1>4, SMT DEF Base!Share, Base!RrfK

\* Who scores at least as much as everyone, and was entered first of those.
Leads(x, ids, score, entry) ==
  \A y \in ids : ~(score[y] > score[x] \/ (score[y] = score[x] /\ entry[y] < entry[x]))
LEMMA SomeoneIsFirst ==
  ASSUME NEW ids, NEW most \in Nat, NEW score \in [ids -> 0..most], NEW entry \in [ids -> Nat],
         NEW some \in ids
  PROVE  \E x \in ids : Leads(x, ids, score, entry)
<1> DEFINE Lack == {most - score[x] : x \in ids}
<1>0. \A x \in ids : score[x] \in Nat /\ entry[x] \in Nat /\ score[x] <= most
  OBVIOUS
<1>1. Lack \in SUBSET Nat /\ most - score[some] \in Lack
  BY <1>0
<1>2. PICK m \in Lack : \A o \in Lack : m <= o
  <2> HIDE DEF Lack
  <2> QED
    BY <1>1, LeastMember
<1>3. PICK best \in ids : m = most - score[best]
  OBVIOUS
<1>4. \A y \in ids : score[y] <= score[best]
  <2> SUFFICES ASSUME NEW y \in ids PROVE score[y] <= score[best]
    OBVIOUS
  <2>1. m <= most - score[y]
    BY <1>2
  <2> QED
    BY <1>0, <1>3, <2>1
<1> DEFINE Best == {x \in ids : score[x] = score[best]}
           Places == {entry[x] : x \in Best}
<1>5. Places \in SUBSET Nat /\ entry[best] \in Places
  BY <1>0
<1>6. PICK n \in Places : \A o \in Places : n <= o
  <2> HIDE DEF Places
  <2> QED
    BY <1>5, LeastMember
<1>7. PICK x \in Best : n = entry[x]
  OBVIOUS
<1>8. \A y \in ids : score[y] = score[best] => entry[x] <= entry[y]
  BY <1>6, <1>7
<1>9. x \in ids /\ score[x] = score[best]
  OBVIOUS
<1>10. ASSUME NEW y \in ids
       PROVE  ~(score[y] > score[x] \/ (score[y] = score[x] /\ entry[y] < entry[x]))
  BY <1>0, <1>4, <1>8, <1>9
<1> QED
  BY <1>9, <1>10 DEF Leads

\* What the fusion of a keyword ranking with another puts first is a keyword hit.
LEMMA FusedFirst ==
  ASSUME NEW base \in Seq(Nat), NEW found \in Seq(Nat), base # <<>>, Distinct(base)
  PROVE  \E S : Base!Fused(base, found) \in Seq(S) /\ HasHit(Base!Fused(base, found), base)
<1> DEFINE ids == Base!ToSet(base) \union Base!ToSet(found)
           Score(x) == Base!Share(base, x) + Base!Share(found, x)
           Entry(x) == IF x \in Base!ToSet(base) THEN Base!PlaceIn(base, x)
                       ELSE Len(base) + Base!PlaceIn(found, x)
           Before(y, x) == Score(y) > Score(x) \/ (Score(y) = Score(x) /\ Entry(y) < Entry(x))
           At(n) == CHOOSE x \in ids : Base!Cardinality({y \in ids : Before(y, x)}) = n - 1
           c == Base!Cardinality(ids)
<1>1. Base!Fused(base, found) = [n \in 1..c |-> At(n)]
  BY DEF Base!Fused
<1>2. IsFiniteSet(ids) /\ c \in Nat /\ c >= 1
  <2>1. IsFiniteSet(DOMAIN base) /\ IsFiniteSet(DOMAIN found)
    <3>1. DOMAIN base = 1..Len(base) /\ DOMAIN found = 1..Len(found)
          /\ Len(base) \in Nat /\ Len(found) \in Nat
      OBVIOUS
    <3> QED
      BY <3>1, FS_Interval
  <2>2. IsFiniteSet(Base!ToSet(base)) /\ IsFiniteSet(Base!ToSet(found))
    BY FiniteRange
  <2>3. IsFiniteSet(ids)
    BY <2>2, FS_Union
  <2>4. base[1] \in ids
    BY FirstShare
  <2> HIDE DEF ids
  <2>5. c \in Nat /\ c # 0
    BY <2>3, <2>4, FS_CardinalityType, FS_EmptySet, SameCount
  <2> QED
    BY <2>3, <2>5
<1>3. \A x : Base!Share(base, x) \in Nat /\ Base!Share(base, x) <= 16666
             /\ Base!Share(found, x) \in Nat /\ Base!Share(found, x) <= 16666
  BY ShareAtMost
<1>4. \A x \in ids : Entry(x) \in Nat /\ Entry(x) >= 1
                     /\ (x \notin Base!ToSet(base) => Entry(x) > 1)
  <2> SUFFICES ASSUME NEW x \in ids PROVE Entry(x) \in Nat /\ Entry(x) >= 1
                     /\ (x \notin Base!ToSet(base) => Entry(x) > 1)
    OBVIOUS
  <2>1. CASE x \in Base!ToSet(base)
    <3>1. Base!PlaceIn(base, x) \in DOMAIN base
      BY <2>1 DEF Base!ToSet, Base!PlaceIn
    <3>2. Base!PlaceIn(base, x) \in Nat /\ Base!PlaceIn(base, x) >= 1
      BY <3>1
    <3> QED
      BY <2>1, <3>2
  <2>2. CASE x \notin Base!ToSet(base)
    <3>0. x \in Base!ToSet(found)
      BY <2>2
    <3>1. Base!PlaceIn(found, x) \in DOMAIN found
      BY <3>0 DEF Base!ToSet, Base!PlaceIn
    <3>2. Base!PlaceIn(found, x) \in Nat /\ Base!PlaceIn(found, x) >= 1
      BY <3>1
    <3>3. Len(base) \in Nat /\ Len(base) >= 1
      OBVIOUS
    <3> QED
      BY <2>2, <3>2, <3>3
  <2> QED
    BY <2>1, <2>2
<1>5. base[1] \in ids /\ Score(base[1]) >= 16666 /\ Entry(base[1]) = 1
  <2>1. Base!Share(base, base[1]) = 16666 /\ base[1] \in Base!ToSet(base)
        /\ Base!PlaceIn(base, base[1]) = 1
    BY FirstShare
  <2>2. Base!Share(found, base[1]) \in Nat
    BY <1>3
  <2> QED
    BY <2>1, <2>2, SMT
<1>6. \A x \in ids : x \notin Base!ToSet(base) => Score(x) <= 16666
  BY <1>3, SMT DEF Base!Share
<1>7. \A x \in ids : Score(x) \in Nat /\ Score(x) <= 33332
  BY <1>3, SMT
<1> HIDE DEF Score, Entry, ids, c
<1>8. \E x \in ids : \A y \in ids : ~Before(y, x)
  <2> DEFINE score == [x \in ids |-> Score(x)]
             entry == [x \in ids |-> Entry(x)]
  <2>1. score \in [ids -> Nat] /\ entry \in [ids -> Nat]
    BY <1>4, <1>7, SMT
  <2>2. \A x \in ids : score[x] = Score(x) /\ entry[x] = Entry(x)
    OBVIOUS
  <2>3. \A x \in ids : score[x] <= 33332
    BY <1>7, <2>2, SMT
  <2>4. 33332 \in Nat
    BY SMT
  <2> HIDE DEF score, entry
  <2>5. \E x \in ids : Leads(x, ids, score, entry)
    <3> DEFINE most == 33332
               some == base[1]
    <3>2. some \in ids
      BY <1>5
    <3>4. most \in Nat
      BY <2>4
    <3>5. \A x \in ids : score[x] <= most
      BY <2>3
    <3> HIDE DEF some, most
    <3>6. \A x \in ids : score[x] \in Nat
      BY <2>1
    <3>3. score \in [ids -> 0..most]
      <4>1. \A x \in ids : score[x] \in 0..most
        BY <3>4, <3>5, <3>6
      <4> QED
        BY <2>1, <4>1
    <3> QED
      BY <2>1, <3>2, <3>3, <3>4, SomeoneIsFirst
  <2> QED
    BY <2>2, <2>5 DEF Leads
<1>9. \A x \in ids : (Base!Cardinality({y \in ids : Before(y, x)}) = 0) <=> \A y \in ids : ~Before(y, x)
  <2> SUFFICES ASSUME NEW x \in ids
               PROVE  (Base!Cardinality({y \in ids : Before(y, x)}) = 0) <=> \A y \in ids : ~Before(y, x)
    OBVIOUS
  <2> DEFINE B == {y \in ids : Before(y, x)}
  <2> HIDE DEF Before
  <2>1. IsFiniteSet(B)
    BY <1>2, FS_Subset
  <2>2. Base!Cardinality(B) = 0 <=> B = {}
    <3> HIDE DEF B
    <3> QED
      BY <2>1, FS_EmptySet, SameCount
  <2> QED
    BY <2>2
<1>10. At(1) \in ids /\ \A y \in ids : ~Before(y, At(1))
  <2> HIDE DEF Before
  <2>1. \E x \in ids : Base!Cardinality({y \in ids : Before(y, x)}) = 1 - 1
    BY <1>8, <1>9
  <2>2. At(1) \in ids /\ Base!Cardinality({y \in ids : Before(y, At(1))}) = 1 - 1
    <3> DEFINE None(x) == Base!Cardinality({y \in ids : Before(y, x)}) = 1 - 1
    <3>1. At(1) = CHOOSE x \in ids : None(x)
      OBVIOUS
    <3>2. \E x \in ids : None(x)
      BY <2>1
    <3> HIDE DEF None, At
    <3>3. At(1) \in ids /\ None(At(1))
      BY <3>1, <3>2
    <3> QED
      BY <3>3 DEF None
  <2> HIDE DEF At
  <2> QED
    BY <1>9, <2>2
<1>11. At(1) \in Base!ToSet(base)
  <2> DEFINE x1 == At(1)
  <2> HIDE DEF At, Before
  <2>1. x1 \in ids /\ ~Before(base[1], x1)
    BY <1>5, <1>10
  <2> HIDE DEF x1
  <2>2. ASSUME x1 \notin Base!ToSet(base) PROVE FALSE
    <3>1. Score(x1) <= 16666 /\ Score(x1) \in Nat /\ Entry(x1) > 1 /\ Entry(x1) \in Nat
      BY <1>4, <1>6, <1>7, <2>1, <2>2
    <3>2. Score(base[1]) >= 16666 /\ Score(base[1]) \in Nat /\ Entry(base[1]) = 1
      BY <1>5, <1>7
    <3> QED
      BY <2>1, <3>1, <3>2, SMT DEF Before
  <2> QED
    BY <2>2 DEF x1
<1> DEFINE S == {At(n) : n \in 1..c}
           fused == [n \in 1..c |-> At(n)]
<1>12. fused \in Seq(S) /\ fused # <<>> /\ fused[1] = At(1)
  <2> HIDE DEF At
  <2>1. \A n \in 1..c : At(n) \in S
    OBVIOUS
  <2>2. fused \in [1..c -> S] /\ 1 \in 1..c
    BY <1>2, <2>1
  <2>4. fused[1] = At(1)
    BY <2>2
  <2>5. c \in Nat /\ c >= 1
    BY <1>2
  <2> HIDE DEF fused, S
  <2>3. fused \in Seq(S) /\ Len(fused) = c
    BY <2>5, <2>2
  <2> QED
    BY <2>5, <2>3, <2>4
<1> QED
  BY <1>1, <1>11, <1>12 DEF HasHit

-----------------------------------------------------------------------------
(* Rankings *)

LEMMA LesserIs ==
  ASSUME NEW m \in Nat, NEW l \in Nat
  PROVE  Base!Min({m, l}) \in {m, l} /\ Base!Min({m, l}) <= m /\ Base!Min({m, l}) <= l
<1>1. CASE m <= l
  <2>1. m \in {m, l} /\ \A y \in {m, l} : m <= y
    BY <1>1
  <2> QED
    BY <2>1 DEF Base!Min
<1>2. CASE ~(m <= l)
  <2>1. l \in {m, l} /\ \A y \in {m, l} : l <= y
    BY <1>2
  <2> QED
    BY <2>1 DEF Base!Min
<1> QED
  BY <1>1, <1>2

\* A ranking names each of what it ranks at most once.
LEMMA RankingIs ==
  ASSUME NEW n \in Nat, NEW S \in SUBSET (1..n), NEW m \in Nat \ {0},
         NEW r \in Base!Rankings(S, m)
  PROVE  r \in Seq(Nat) /\ Distinct(r)
<1>1. IsFiniteSet(S) /\ Cardinality(S) \in Nat
  BY PlacesCount
<1> DEFINE c == Cardinality(S)
<1>2. PICK w \in Base!SetToSeqs(S) : r = Base!First(w, m)
  BY DEF Base!Rankings
<1>3. w \in [1..c -> S] /\ \A i, j \in 1..c : w[i] = w[j] => i = j
  BY <1>2, SameCount DEF Base!SetToSeqs, Base!IsInjective
<1>4. w \in Seq(Nat) /\ Len(w) = c /\ c \in Nat
  <2>3. \A i \in 1..c : w[i] \in S
    BY <1>3
  <2>4. \A x \in S : x \in Nat
    OBVIOUS
  <2>1. \A i \in 1..c : w[i] \in Nat
    BY <2>3, <2>4
  <2>2. w \in [1..c -> Nat] /\ c \in Nat
    BY <1>1, <1>3, <2>1
  <2> HIDE DEF c
  <2> QED
    BY <2>2
<1> DEFINE k == Base!Min({m, Len(w)})
<1>5. k \in Nat /\ k <= Len(w)
  BY <1>4, LesserIs
<1>6. r = SubSeq(w, 1, k)
  BY <1>2 DEF Base!First
<1> HIDE DEF k, c
<1>7. r \in Seq(Nat) /\ Len(r) = k /\ \A i \in 1..k : r[i] = w[i]
  BY <1>4, <1>5, <1>6
<1> QED
  BY <1>3, <1>4, <1>5, <1>7 DEF Distinct

\* Of a sequence that is not empty, the first k have its first.
LEMMA FirstIs ==
  ASSUME NEW S, NEW s \in Seq(S), NEW k \in Nat \ {0}
  PROVE  /\ Base!First(s, k) \in Seq(S)
         /\ s # <<>> => Base!First(s, k) # <<>> /\ Base!First(s, k)[1] = s[1]
<1> DEFINE l == Base!Min({k, Len(s)})
<1>1. Len(s) \in Nat
  OBVIOUS
<1>2. l \in Nat /\ l <= Len(s) /\ (Len(s) # 0 => l # 0)
  BY <1>1, LesserIs
<1>3. Base!First(s, k) = SubSeq(s, 1, l)
  BY DEF Base!First
<1> HIDE DEF l
<1> QED
  BY <1>1, <1>2, <1>3

-----------------------------------------------------------------------------
(* Steps *)

LEMMA OpIs ==
  ASSUME BaseOp
  PROVE  /\ op.kind \in {"embed", "store"} => op \in Writes /\ op.id \in 1..last
         /\ op.kind = "facts" => op \in Batches
         /\ op.kind = "search" => op \in Searches /\ Distinct(op.base)
         /\ op.kind = "hydrate" => Hydrating(op)
         /\ op = Base!Idle => op \notin Batches /\ op \notin Writes
<1>1. CASE op = Base!Idle
  BY <1>1 DEF Base!Idle, Batches, Writes
<1>2. CASE op \in Batches
  BY <1>2 DEF Base!Idle, Batches, Writes
<1>3. CASE op \in Writes /\ op.id \in 1..last
  BY <1>3 DEF Base!Idle, Writes
<1>4. CASE op \in Searches /\ Distinct(op.base)
  BY <1>4 DEF Base!Idle, Searches
<1>5. CASE op.kind = "hydrate" /\ Hydrating(op)
  BY <1>5 DEF Base!Idle
<1>6. CASE op.kind = "answer" /\ (op.base # <<>> => HasHit(op.ids, op.base))
  BY <1>6 DEF Base!Idle
<1> QED
  BY <1>1, <1>2, <1>3, <1>4, <1>5, <1>6 DEF BaseOp

LEMMA BaseInit == Init => BaseInv
<1> SUFFICES ASSUME Init PROVE BaseInv
  OBVIOUS
<1>1. /\ chunks = <<>> /\ last = 0 /\ vectors = {} /\ clock = 0
      /\ breaker = [fails |-> 0, until |-> 0] /\ failed = <<>> /\ op = Base!Idle
  BY DEF Init, Base!Init, Base!Closed
<1>2. DOMAIN chunks = {} /\ Len(failed) = 0 /\ failed \in Seq(Nat)
  BY <1>1
<1>3. BaseTyped
  BY <1>1, <1>2, BaseConstants DEF BaseTyped, BaseNumbers
<1>4. BaseOp /\ BatchCovered
  <2>1. op \notin Batches /\ op \notin Writes
    BY <1>1 DEF Base!Idle, Batches, Writes
  <2> QED
    BY <1>1, <2>1 DEF BaseOp, BatchCovered
<1>5. Base!FactsDistinct
  BY <1>2 DEF Base!FactsDistinct
<1>6. Counted /\ Base!OutageBounded
  BY <1>1, <1>2, BaseConstants DEF Counted, Base!OutageBounded, BaseNumbers
<1> QED
  BY <1>3, <1>4, <1>5, <1>6 DEF BaseInv

\* A call that fails is counted; one that answers starts the count again.
LEMMA EmbedCounts ==
  ASSUME BaseInv, NEW v \in BOOLEAN, Base!Embed(v), clock' = clock
  PROVE  /\ Counted' /\ Base!OutageBounded'
         /\ breaker'.fails \in Nat /\ breaker'.until \in 0..(MaxTime + Cooldown)
<1>0. /\ failed \in Seq(Nat) /\ clock \in Nat /\ clock <= MaxTime /\ MaxTime \in Nat
      /\ Cooldown \in Nat /\ BreakAfter \in Nat /\ BreakAfter # 0 /\ Len(failed) \in Nat
      /\ breaker.fails \in Nat /\ breaker.until \in 0..(MaxTime + Cooldown)
  BY BaseConstants DEF BaseInv, BaseTyped, Counted, BaseNumbers
<1>1. CASE UNCHANGED <<breaker, failed>>
  BY <1>1, <1>0 DEF BaseInv, Counted, Base!OutageBounded
<1>2. CASE breaker' = Base!Closed /\ failed' = <<>>
  <2>1. breaker'.fails = 0 /\ breaker'.until = 0 /\ Len(failed') = 0 /\ failed' \in Seq(Nat)
    BY <1>2 DEF Base!Closed
  <2> QED
    BY <1>0, <2>1 DEF Counted, Base!OutageBounded
<1>3. CASE /\ ~Base!BreakerOpen /\ Base!RecordFailure /\ failed' = <<clock>> \o failed
  <2> DEFINE n == Len(failed)
             after == failed'
  <2>1. /\ after \in Seq(Nat) /\ Len(after) = n + 1 /\ after[1] = clock
        /\ \A i \in 1..n : after[i + 1] = failed[i]
    BY <1>0, <1>3
  <2>2. /\ breaker'.fails = breaker.fails + 1
        /\ breaker'.until = IF breaker.fails + 1 >= BreakAfter THEN clock + Cooldown
                            ELSE breaker.until
        /\ breaker.until <= clock
    BY <1>0, <1>3 DEF Base!RecordFailure, Base!BreakerOpen
  <2>3. /\ breaker.fails = n
        /\ \A i, j \in 1..n : i <= j => failed[j] <= failed[i] /\ failed[i] <= clock
        /\ \A i \in 1..n : failed[i] \in Nat
        /\ n >= BreakAfter => breaker.until = failed[1] + Cooldown
    BY DEF BaseInv, Counted
  <2>4. \A i \in 1..(n + 1) : i = 1 \/ (i - 1 \in 1..n /\ after[i] = failed[i - 1])
    <3> SUFFICES ASSUME NEW i \in 1..(n + 1), i # 1 PROVE i - 1 \in 1..n /\ after[i] = failed[i - 1]
      OBVIOUS
    <3>1. i - 1 \in 1..n /\ (i - 1) + 1 = i
      BY <1>0
    <3>2. after[(i - 1) + 1] = failed[i - 1]
      BY <2>1, <3>1
    <3> QED
      BY <3>1, <3>2
  <2>5. ASSUME NEW i \in 1..(n + 1), NEW j \in 1..(n + 1), i <= j
        PROVE  after[j] <= after[i] /\ after[i] <= clock
    <3>1. CASE i = 1
      <4>1. after[i] = clock
        BY <2>1, <3>1
      <4>2. j = 1 \/ (j - 1 \in 1..n /\ after[j] = failed[j - 1])
        BY <2>4
      <4>3. \A h \in 1..n : failed[h] <= clock
        BY <1>0, <2>3
      <4> QED
        BY <1>0, <2>1, <4>1, <4>2, <4>3, SMTT(30)
    <3>2. CASE i # 1
      <4>1. j # 1 /\ i - 1 <= j - 1
        BY <1>0, <2>5, <3>2
      <4>2. i - 1 \in 1..n /\ after[i] = failed[i - 1] /\ j - 1 \in 1..n /\ after[j] = failed[j - 1]
        BY <2>4, <3>2, <4>1
      <4> QED
        BY <2>3, <4>1, <4>2
    <3> QED
      BY <3>1, <3>2
  <2>6. Counted'
    <3>1. Len(after) >= BreakAfter => breaker'.until = after[1] + Cooldown
      BY <1>0, <2>1, <2>2, <2>3
    <3>2. breaker'.fails = Len(after) /\ after \in Seq(Nat)
      BY <2>1, <2>2, <2>3
    <3>3. \A i, j \in 1..Len(after) : i <= j => after[j] <= after[i] /\ after[i] <= clock
      BY <2>1, <2>5
    <3> HIDE DEF after
    <3> QED
      BY <3>1, <3>2, <3>3 DEF Counted, after
  <2>7. Base!OutageBounded'
    <3>1. ASSUME Len(after) > BreakAfter PROVE after[1] >= after[1 + BreakAfter] + Cooldown
      <4>1. n >= BreakAfter /\ BreakAfter \in 1..n /\ 1 \in 1..n
        BY <1>0, <2>1, <3>1, SMTT(30)
      <4>2. after[BreakAfter + 1] = failed[BreakAfter]
        BY <2>1, <4>1
      <4>3. failed[BreakAfter] <= failed[1] /\ failed[BreakAfter] \in Nat /\ failed[1] \in Nat
        BY <1>0, <2>3, <4>1
      <4>4. failed[1] + Cooldown <= clock
        BY <2>2, <2>3, <4>1
      <4>5. BreakAfter + 1 = 1 + BreakAfter
        BY <1>0
      <4>6. after[1 + BreakAfter] = failed[BreakAfter] /\ after[1] = clock
        BY <2>1, <4>2, <4>5
      <4> HIDE DEF after
      <4> QED
        BY <1>0, <4>3, <4>4, <4>6, SMTT(30)
    <3> HIDE DEF after
    <3> QED
      BY <3>1 DEF Base!OutageBounded, after
  <2>8. breaker'.fails \in Nat /\ breaker'.until \in 0..(MaxTime + Cooldown)
    BY <1>0, <2>2
  <2> QED
    BY <2>6, <2>7, <2>8
<1> QED
  BY <1>1, <1>2, <1>3 DEF Base!Embed

\* A chunk that is no near-duplicate of a recent fact of its owner.
Fresh(t, d, o) ==
  d = "fact" => \A i \in DOMAIN chunks :
    chunks[i].domain = "fact" /\ chunks[i].ns = o /\ last + 1 - i <= FactLimit
    => <<t, chunks[i].text>> \notin Near

LEMMA InsertIs ==
  ASSUME BaseInv, NEW t \in Contents, NEW d \in {"general", "fact"}, NEW o \in Namespaces \union {Null},
         NEW next, Base!Insert(t, d, o, next)
  PROVE  /\ last' = last + 1 /\ last \in Nat /\ last' <= MaxChunk
         /\ DOMAIN chunks' = DOMAIN chunks \union {last + 1}
         /\ chunks'[last + 1] = [text |-> t, domain |-> d, ns |-> o]
         /\ \A i \in DOMAIN chunks : i \in Nat /\ i <= last /\ chunks'[i] = chunks[i]
<1>1. last \in Nat /\ last \in Int /\ DOMAIN chunks \subseteq 1..last /\ MaxChunk \in Nat
  BY BaseConstants DEF BaseInv, BaseTyped, BaseNumbers
<1>2. \A i \in DOMAIN chunks : i \in Nat /\ i <= last /\ i # last + 1
  BY <1>1
<1>3. chunks' = [i \in DOMAIN chunks \union {last + 1} |->
                   IF i = last + 1 THEN [text |-> t, domain |-> d, ns |-> o] ELSE chunks[i]]
      /\ last' = last + 1 /\ last < MaxChunk
  BY DEF Base!Insert
<1> QED
  BY <1>1, <1>2, <1>3

LEMMA InsertKeeps ==
  ASSUME BaseInv, NEW t \in Contents, NEW d \in {"general", "fact"}, NEW o \in Namespaces \union {Null},
         NEW next, Base!Insert(t, d, o, next), Fresh(t, d, o)
  PROVE  BaseTyped' /\ Base!FactsDistinct' /\ Counted' /\ Base!OutageBounded'
<1>1. /\ last' = last + 1 /\ last \in Nat /\ last' <= MaxChunk
      /\ DOMAIN chunks' = DOMAIN chunks \union {last + 1}
      /\ chunks'[last + 1] = [text |-> t, domain |-> d, ns |-> o]
      /\ \A i \in DOMAIN chunks : i \in Nat /\ i <= last /\ chunks'[i] = chunks[i]
  BY InsertIs
<1>2. UNCHANGED <<vectors, breaker, failed, clock>>
  BY DEF Base!Insert
<1>3. BaseTyped'
  <2>1. \A i \in DOMAIN chunks' : chunks'[i] \in Base!Chunk
    <3>1. chunks'[last + 1] \in Base!Chunk
      BY <1>1 DEF Base!Chunk, Base!Domains
    <3>2. \A i \in DOMAIN chunks : chunks[i] \in Base!Chunk
      BY DEF BaseInv, BaseTyped
    <3> QED
      BY <1>1, <3>1, <3>2
  <2>2. DOMAIN chunks' \subseteq 1..last' /\ last' \in 0..MaxChunk /\ vectors' \subseteq 1..last'
    <3>1. DOMAIN chunks \subseteq 1..last /\ vectors \subseteq 1..last /\ MaxChunk \in Nat
      BY BaseConstants DEF BaseInv, BaseTyped, BaseNumbers
    <3>2. \A i \in 1..last : i \in 1..last'
      BY <1>1
    <3>3. last + 1 \in 1..last' /\ last' \in 0..MaxChunk
      BY <1>1, <3>1
    <3> QED
      BY <1>1, <1>2, <3>1, <3>2, <3>3
  <2> QED
    BY <1>2, <2>1, <2>2 DEF BaseInv, BaseTyped
<1>4. Base!FactsDistinct'
  <2> SUFFICES ASSUME NEW i \in DOMAIN chunks', NEW j \in DOMAIN chunks', i < j, j - i <= FactLimit,
                      chunks'[i].domain = "fact", chunks'[j].domain = "fact",
                      chunks'[i].ns = chunks'[j].ns
               PROVE  <<chunks'[j].text, chunks'[i].text>> \notin Near
    BY DEF Base!FactsDistinct
  <2>1. i \in DOMAIN chunks
    BY <1>1
  <2>2. CASE j \in DOMAIN chunks
    <3>1. chunks'[i] = chunks[i] /\ chunks'[j] = chunks[j]
      BY <1>1, <2>1, <2>2
    <3> QED
      BY <2>1, <2>2, <3>1 DEF BaseInv, Base!FactsDistinct
  <2>3. CASE j = last + 1
    <3>1. chunks'[i] = chunks[i] /\ chunks'[j].text = t /\ chunks'[j].domain = d /\ chunks'[j].ns = o
      BY <1>1, <2>1, <2>3
    <3>2. d = "fact" /\ chunks[i].domain = "fact" /\ chunks[i].ns = o
      BY <3>1
    <3>3. last + 1 - i <= FactLimit
      <4>1. j - i <= FactLimit
        OBVIOUS
      <4> QED
        BY <1>1, <2>1, <2>3, <4>1
    <3>4. <<t, chunks[i].text>> \notin Near
      BY <2>1, <3>2, <3>3 DEF Fresh
    <3> QED
      BY <3>1, <3>4
  <2> QED
    BY <1>1, <2>2, <2>3
<1>5. Counted' /\ Base!OutageBounded'
  BY <1>2 DEF BaseInv, Counted, Base!OutageBounded
<1> QED
  BY <1>3, <1>4, <1>5

\* What is left alone when nothing is written and nothing embedded.
LEMMA StoreKept ==
  ASSUME BaseInv, UNCHANGED <<chunks, last, breaker, failed, clock>>, vectors' \subseteq 1..last
  PROVE  BaseTyped' /\ Base!FactsDistinct' /\ Counted' /\ Base!OutageBounded'
  BY DEF BaseInv, BaseTyped, Base!FactsDistinct, Counted, Base!OutageBounded

LEMMA VectorsKept == BaseInv => vectors \subseteq 1..last
  BY DEF BaseInv, BaseTyped

\* An insertion without a batch behind it, and one with.
LEMMA InsertOp ==
  ASSUME BaseInv, NEW t \in Contents, NEW d \in {"general", "fact"}, NEW o \in Namespaces \union {Null},
         NEW next \in {Base!Idle} \union Batches, Base!Insert(t, d, o, next), Fresh(t, d, o),
         next \in Batches =>
           \A i \in DOMAIN chunks' :
             /\ chunks'[i].domain = "fact" /\ (next.ns = Null \/ chunks'[i].ns = next.ns)
             /\ last' + 1 - i <= FactLimit
             => chunks'[i].text \in next.known
  PROVE  BaseInv'
<1>1. BaseTyped' /\ Base!FactsDistinct' /\ Counted' /\ Base!OutageBounded'
  BY InsertKeeps
<1>2. last' = last + 1 /\ last \in Nat
  BY InsertIs
<1>3. op' = IF hybrid THEN [kind |-> "embed", id |-> last + 1, next |-> next] ELSE next
  BY DEF Base!Insert
<1>4. Base!Idle \notin Batches /\ Base!Idle \notin Writes
  BY DEF Base!Idle, Batches, Writes
<1>5. \A b \in Batches : b \notin Writes
  BY DEF Batches, Writes
<1>6. CASE hybrid
  <2>1. op' \in Writes /\ op'.id \in 1..last' /\ op'.next = next /\ op' \notin Batches
    BY <1>2, <1>3, <1>6 DEF Writes, Batches
  <2>2. BaseOp'
    BY <2>1 DEF BaseOp
  <2>3. BatchCovered'
    BY <2>1 DEF BatchCovered, Covered
  <2> QED
    BY <1>1, <2>2, <2>3 DEF BaseInv
<1>7. CASE ~hybrid
  <2>1. op' = next
    BY <1>3, <1>7
  <2>2. BaseOp'
    BY <2>1 DEF BaseOp
  <2>3. op' \notin Writes
    BY <1>4, <1>5, <2>1
  <2>4. BatchCovered'
    BY <2>1, <2>3 DEF BatchCovered, Covered
  <2> QED
    BY <1>1, <2>2, <2>4 DEF BaseInv
<1> QED
  BY <1>6, <1>7

LEMMA AddKeeps ==
  ASSUME BaseInv, NEW t \in Contents, Base!AddChunk(t)
  PROVE  BaseInv'
<1>1. Base!Insert(t, "general", Null, Base!Idle)
  BY DEF Base!AddChunk
<1>2. Base!Idle \notin Batches /\ Base!Idle \in {Base!Idle} \union Batches
  BY DEF Base!Idle, Batches
<1>3. Fresh(t, "general", Null)
  BY DEF Fresh
<1>4. Null \in Namespaces \union {Null} /\ "general" \in {"general", "fact"}
  OBVIOUS
<1> QED
  BY <1>1, <1>2, <1>3, <1>4, InsertOp

\* After the write the batch goes on.
LEMMA NextOp ==
  ASSUME BaseInv, op \in Writes, op' = op.next, UNCHANGED <<chunks, last>>
  PROVE  BaseOp' /\ BatchCovered'
<1>1. op.next \in {Base!Idle} \union Batches /\ (op.next \in Batches => Covered(op.next))
  BY DEF BaseInv, BatchCovered, Writes
<1>2. Base!Idle \notin Writes /\ \A b \in Batches : b \notin Writes
  BY DEF Base!Idle, Batches, Writes
<1>3. op' \notin Writes
  BY <1>1, <1>2
<1>4. BaseOp'
  BY <1>1 DEF BaseOp
<1>5. BatchCovered'
  BY <1>1, <1>3 DEF BatchCovered, Covered
<1> QED
  BY <1>4, <1>5

LEMMA EmbedKeeps ==
  ASSUME BaseInv, Base!EmbedChunk
  PROVE  BaseInv'
<1>1. PICK v \in BOOLEAN : /\ Base!Embed(v)
                           /\ op' = IF v THEN [op EXCEPT !.kind = "store"] ELSE op.next
  BY DEF Base!EmbedChunk
<1>2. op.kind = "embed" /\ UNCHANGED <<hybrid, chunks, last, vectors, clock>>
  BY DEF Base!EmbedChunk
<1>3. op \in Writes /\ op.id \in 1..last
  BY <1>2, OpIs DEF BaseInv
<1>4. /\ Counted' /\ Base!OutageBounded'
      /\ breaker'.fails \in Nat /\ breaker'.until \in 0..(MaxTime + Cooldown)
  <2>1. clock' = clock
    BY <1>2
  <2> QED
    BY <1>1, <2>1, EmbedCounts
<1>5. BaseTyped' /\ Base!FactsDistinct'
  BY <1>2, <1>4 DEF BaseInv, BaseTyped, Base!FactsDistinct
<1>6. BaseOp' /\ BatchCovered'
  <2>1. CASE v
    <3>1. op' \in Writes /\ op'.id = op.id /\ op'.next = op.next
      BY <1>1, <1>3, <2>1 DEF Writes
    <3>2. op' \notin Batches
      BY <3>1 DEF Writes, Batches
    <3> QED
      BY <1>2, <1>3, <3>1, <3>2 DEF BaseInv, BaseOp, BatchCovered, Covered
  <2>2. CASE ~v
    BY <1>1, <1>2, <1>3, <2>2, NextOp
  <2> QED
    BY <2>1, <2>2
<1> QED
  BY <1>4, <1>5, <1>6 DEF BaseInv

LEMMA StoreKeeps ==
  ASSUME BaseInv, Base!StoreVector
  PROVE  BaseInv'
<1>1. op \in Writes /\ op.id \in 1..last
  BY OpIs DEF BaseInv, Base!StoreVector
<1>2. UNCHANGED <<chunks, last, breaker, failed, clock>> /\ vectors' \subseteq 1..last /\ op' = op.next
  BY <1>1, VectorsKept DEF Base!StoreVector
<1>3. BaseTyped' /\ Base!FactsDistinct' /\ Counted' /\ Base!OutageBounded'
  BY <1>2, StoreKept
<1>4. BaseOp' /\ BatchCovered'
  BY <1>1, <1>2, NextOp
<1> QED
  BY <1>3, <1>4 DEF BaseInv

\* The recent facts a harvest starts with are those within FactLimit of its first.
LEMMA ConsolidateKeeps ==
  ASSUME BaseInv, NEW o \in Namespaces \union {Null}, NEW facts \in [1..2 -> Contents],
         Base!Consolidate(o, facts)
  PROVE  BaseInv'
<1>1. /\ op' = [kind |-> "facts", ns |-> o, facts |-> facts, known |-> Base!Recent(o)]
      /\ UNCHANGED <<hybrid, chunks, last, vectors, breaker, failed, clock>>
  BY DEF Base!Consolidate
<1>2. BaseTyped' /\ Base!FactsDistinct' /\ Counted' /\ Base!OutageBounded'
  BY <1>1, StoreKept, VectorsKept
<1> DEFINE mine == {i \in DOMAIN chunks : chunks[i].domain = "fact" /\ (o = Null \/ chunks[i].ns = o)}
<1>3. Base!Recent(o) = {chunks[i].text : i \in {j \in mine : Cardinality({k \in mine : k > j}) < FactLimit}}
  BY SameCount DEF Base!Recent
<1>4. \A i \in DOMAIN chunks : chunks[i].text \in Contents /\ i \in 1..last
  BY DEF BaseInv, BaseTyped, Base!Chunk
<1>5. last \in Nat /\ FactLimit \in Nat
  BY BaseConstants DEF BaseInv, BaseTyped, BaseNumbers
<1>6. op' \in Batches
  <2>1. facts \in Seq(Contents)
    <3> DEFINE n == 2
    <3>1. n \in Nat /\ facts \in [1..n -> Contents]
      OBVIOUS
    <3> HIDE DEF n
    <3> QED
      BY <3>1
  <2>2. Base!Recent(o) \in SUBSET Contents
    BY <1>3, <1>4
  <2> QED
    BY <1>1, <2>1, <2>2 DEF Batches
<1>7. ASSUME NEW i \in mine, last + 1 - i <= FactLimit
      PROVE  chunks[i].text \in Base!Recent(o)
  <2> DEFINE later == {k \in mine : k > i}
  <2>1. i \in 1..last
    BY <1>4
  <2>2. later \subseteq (i + 1)..last
    BY <1>4, <1>5, <2>1
  <2>3. IsFiniteSet((i + 1)..last) /\ Cardinality((i + 1)..last) <= last - i
    <3>1. i + 1 \in Int /\ last \in Int /\ i \in Int /\ i <= last
      BY <1>5, <2>1
    <3>2. IsFiniteSet((i + 1)..last)
          /\ Cardinality((i + 1)..last) = IF i + 1 > last THEN 0 ELSE last - (i + 1) + 1
      BY <3>1, FS_Interval
    <3> QED
      BY <3>1, <3>2
  <2> HIDE DEF later
  <2>4. IsFiniteSet(later) /\ Cardinality(later) <= Cardinality((i + 1)..last)
    BY <2>2, <2>3, FS_Subset
  <2>5. Cardinality(later) \in Nat /\ Cardinality((i + 1)..last) \in Nat
    BY <2>3, <2>4, FS_CardinalityType
  <2>6. Cardinality(later) < FactLimit
    BY <1>5, <1>7, <2>1, <2>3, <2>4, <2>5
  <2> QED
    BY <1>3, <2>6 DEF later
<1>8. BaseOp' /\ BatchCovered'
  <2>1. op' \notin Writes
    BY <1>1 DEF Writes
  <2>2. \A i \in DOMAIN chunks : chunks[i].domain = "fact" /\ (op'.ns = Null \/ chunks[i].ns = op'.ns)
          /\ last + 1 - i <= FactLimit => chunks[i].text \in op'.known
    <3>1. op'.ns = o /\ op'.known = Base!Recent(o)
      BY <1>1
    <3> QED
      BY <1>7, <3>1
  <2>3. BaseOp'
    BY <1>6 DEF BaseOp
  <2> QED
    BY <1>1, <2>1, <2>2, <2>3 DEF BatchCovered, Covered
<1> QED
  BY <1>2, <1>8 DEF BaseInv

LEMMA NextFactKeeps ==
  ASSUME BaseInv, Base!NextFact
  PROVE  BaseInv'
<1> DEFINE fact == Head(op.facts)
           rest == [op EXCEPT !.facts = Tail(op.facts)]
<1>1. op \in Batches /\ op.facts # <<>> /\ Covered(op)
  BY OpIs DEF BaseInv, BatchCovered, Base!NextFact
<1>2. fact \in Contents /\ Tail(op.facts) \in Seq(Contents)
  BY <1>1 DEF Batches
<1>3. rest \in Batches /\ rest.ns = op.ns /\ rest.known = op.known
  BY <1>1, <1>2 DEF Batches
<1>4. CASE op' = rest /\ UNCHANGED <<hybrid, chunks, last, vectors, breaker, failed, clock>>
  <2>1. BaseTyped' /\ Base!FactsDistinct' /\ Counted' /\ Base!OutageBounded'
    BY <1>4, StoreKept, VectorsKept
  <2>2. op' \in Batches /\ op' \notin Writes /\ op'.ns = op.ns /\ op'.known = op.known
    <3>1. rest \notin Writes
      BY <1>3 DEF Batches, Writes
    <3> HIDE DEF rest
    <3> QED
      BY <1>3, <1>4, <3>1
  <2>3. BaseOp' /\ BatchCovered'
    BY <1>1, <1>4, <2>2 DEF BaseOp, BatchCovered, Covered
  <2> QED
    BY <2>1, <2>3 DEF BaseInv
<1>5. CASE ~Base!Known(fact) /\ Base!Insert(fact, "fact", op.ns, [rest EXCEPT !.known = @ \union {fact}])
  <2> DEFINE next == [rest EXCEPT !.known = @ \union {fact}]
  <2>1. next \in Batches /\ next.ns = op.ns /\ next.known = op.known \union {fact}
    BY <1>1, <1>2, <1>3 DEF Batches
  <2>2. op.ns \in Namespaces \union {Null}
    BY <1>1 DEF Batches
  <2>3. \A t \in op.known : <<fact, t>> \notin Near
    BY <1>5 DEF Base!Known
  <2>4. Fresh(fact, "fact", op.ns)
    <3> HIDE DEF fact
    <3> QED
      BY <1>1, <2>3 DEF Fresh, Covered
  <2>5. Base!Insert(fact, "fact", op.ns, next)
    BY <1>5
  <2> HIDE DEF fact, next, rest
  <2>6. /\ last' = last + 1 /\ last \in Nat
        /\ DOMAIN chunks' = DOMAIN chunks \union {last + 1}
        /\ chunks'[last + 1] = [text |-> fact, domain |-> "fact", ns |-> op.ns]
        /\ \A i \in DOMAIN chunks : i \in Nat /\ i <= last /\ chunks'[i] = chunks[i]
    BY <1>2, <2>2, <2>5, InsertIs
  <2>7. ASSUME NEW i \in DOMAIN chunks', chunks'[i].domain = "fact",
               next.ns = Null \/ chunks'[i].ns = next.ns, last' + 1 - i <= FactLimit
        PROVE  chunks'[i].text \in next.known
    <3>1. CASE i = last + 1
      BY <2>1, <2>6, <3>1
    <3>2. CASE i \in DOMAIN chunks
      <4>1. chunks'[i] = chunks[i] /\ last + 1 - i <= FactLimit
        <5>1. FactLimit \in Nat
          BY BaseConstants DEF BaseNumbers
        <5>2. chunks'[i] = chunks[i] /\ i \in Nat /\ last \in Nat /\ last' = last + 1
          BY <2>6, <3>2
        <5> QED
          BY <2>7, <5>1, <5>2
      <4>2. chunks[i].text \in op.known
        BY <1>1, <2>1, <2>7, <3>2, <4>1 DEF Covered
      <4> QED
        BY <2>1, <4>1, <4>2
    <3> QED
      BY <2>6, <3>1, <3>2
  <2>8. next \in {Base!Idle} \union Batches
    BY <2>1
  <2>9. next \in Batches =>
           \A i \in DOMAIN chunks' :
             /\ chunks'[i].domain = "fact" /\ (next.ns = Null \/ chunks'[i].ns = next.ns)
             /\ last' + 1 - i <= FactLimit
             => chunks'[i].text \in next.known
    BY <2>7
  <2> QED
    BY <1>2, <2>2, <2>4, <2>5, <2>8, <2>9, InsertOp
<1> QED
  BY <1>4, <1>5 DEF Base!NextFact

LEMMA FusedIsSeq ==
  ASSUME NEW base \in Seq(Nat), NEW found \in Seq(Nat)
  PROVE  \E S : Base!Fused(base, found) \in Seq(S)
<1> DEFINE ids == Base!ToSet(base) \union Base!ToSet(found)
           c == Base!Cardinality(ids)
           fused == Base!Fused(base, found)
           Score(x) == Base!Share(base, x) + Base!Share(found, x)
           Entry(x) == IF x \in Base!ToSet(base) THEN Base!PlaceIn(base, x)
                       ELSE Len(base) + Base!PlaceIn(found, x)
           Before(y, x) == Score(y) > Score(x) \/ (Score(y) = Score(x) /\ Entry(y) < Entry(x))
           At(n) == CHOOSE x \in ids : Base!Cardinality({y \in ids : Before(y, x)}) = n - 1
           S == {At(n) : n \in 1..c}
<1>1. IsFiniteSet(ids)
  BY FiniteRange, FS_Union
<1>2. c \in Nat
  <2> HIDE DEF ids
  <2> QED
    BY <1>1, FS_CardinalityType, SameCount
<1>3. fused = [n \in 1..c |-> At(n)]
  BY DEF Base!Fused
<1> HIDE DEF c, fused, At
<1>4. fused \in [1..c -> S]
  BY <1>3
<1> HIDE DEF S
<1>5. fused \in Seq(S)
  BY <1>2, <1>4
<1> QED
  BY <1>5 DEF fused

\* A step that writes and embeds nothing, and leaves no batch.
LEMMA SearchStep ==
  ASSUME BaseInv, UNCHANGED <<hybrid, chunks, last, vectors, breaker, failed, clock>>,
         BaseOp', op' \notin Batches, op' \notin Writes
  PROVE  BaseInv'
<1>1. BaseTyped' /\ Base!FactsDistinct' /\ Counted' /\ Base!OutageBounded'
  BY StoreKept, VectorsKept
<1> QED
  BY <1>1 DEF BaseInv, BatchCovered

LEMMA IdleStep ==
  ASSUME BaseInv, UNCHANGED <<hybrid, chunks, last, vectors, breaker, failed, clock>>, op' = Base!Idle
  PROVE  BaseInv'
<1>1. op' \notin Batches /\ op' \notin Writes
  BY DEF Base!Idle, Batches, Writes
<1>2. BaseOp'
  BY DEF BaseOp
<1> QED
  BY <1>1, <1>2, SearchStep

LEMMA SearchKeeps ==
  ASSUME BaseInv, NEW q, NEW k \in 1..2, NEW d \in {Null, "general"}, Base!SearchBase(q, k, d)
  PROVE  BaseInv'
<1>1. PICK base \in Base!Rankings(Base!Matching(q, d), VectorK) :
        op' = [kind |-> "search", k |-> k, domain |-> d, base |-> base]
  BY DEF Base!SearchBase
<1>2. UNCHANGED <<hybrid, chunks, last, vectors, breaker, failed, clock>>
  BY DEF Base!SearchBase
<1>3. last \in Nat /\ VectorK \in Nat \ {0} /\ DOMAIN chunks \subseteq 1..last
  BY BaseConstants DEF BaseInv, BaseTyped, BaseNumbers
<1>4. Base!Matching(q, d) \in SUBSET (1..last)
  BY <1>3 DEF Base!Matching
<1>5. base \in Seq(Nat) /\ Distinct(base)
  BY <1>3, <1>4, RankingIs
<1>6. op' \in Searches /\ op'.base = base /\ op' \notin Batches /\ op' \notin Writes
  <2>1. k \in Nat \ {0}
    OBVIOUS
  <2> QED
    BY <1>1, <1>5, <2>1 DEF Searches, Batches, Writes
<1>7. BaseOp'
  BY <1>5, <1>6 DEF BaseOp
<1> QED
  BY <1>2, <1>6, <1>7, SearchStep

\* What is answered from a base alone begins with its first.
LEMMA AnswerOp ==
  ASSUME NEW ids, NEW k, NEW base, base # <<>> => HasHit(ids, base),
         op' = [kind |-> "answer", ids |-> ids, k |-> k, base |-> base]
  PROVE  BaseOp' /\ op' \notin Batches /\ op' \notin Writes
<1>1. op'.kind = "answer" /\ op'.ids = ids /\ op'.base = base
  OBVIOUS
<1>2. op' \notin Batches /\ op' \notin Writes
  BY <1>1 DEF Batches, Writes
<1> QED
  BY <1>1, <1>2 DEF BaseOp

LEMMA HydrateRecord ==
  ASSUME NEW S, NEW k \in Nat \ {0}, NEW base \in Seq(Nat), NEW todo \in Seq(S), NEW ids \in Seq(S)
  PROVE  [kind |-> "hydrate", k |-> k, base |-> base, todo |-> todo, ids |-> ids] \in Hydrates(S)
  BY DEF Hydrates

LEMMA FuseOp ==
  ASSUME BaseInv, op.kind = "search", NEW v \in BOOLEAN, NEW found \in Base!VectorSearch(op.domain),
         op' = IF ~v \/ found = <<>> THEN Base!Answer(Base!First(op.base, op.k))
               ELSE [kind |-> "hydrate", k |-> op.k, base |-> op.base,
                     todo |-> Base!First(Base!Fused(op.base, found), op.k), ids |-> <<>>]
  PROVE  BaseOp' /\ op' \notin Batches /\ op' \notin Writes
<1>1. op \in Searches /\ Distinct(op.base) /\ op.base \in Seq(Nat) /\ op.k \in Nat \ {0}
  BY OpIs DEF BaseInv, Searches
<1>2. CASE ~v \/ found = <<>>
  <2> DEFINE ids == Base!First(op.base, op.k)
  <2>1. op' = [kind |-> "answer", ids |-> ids, k |-> op.k, base |-> op.base]
    BY <1>2 DEF Base!Answer
  <2>2. op.base # <<>> => ids # <<>> /\ ids[1] = op.base[1]
    BY <1>1, FirstIs
  <2>3. op.base # <<>> => HasHit(ids, op.base)
    BY <1>1, <2>2, FirstShare DEF HasHit
  <2> HIDE DEF ids
  <2> QED
    BY <2>1, <2>3, AnswerOp
<1>3. CASE ~(~v \/ found = <<>>)
  <2> DEFINE fused == Base!Fused(op.base, found)
             todo == Base!First(fused, op.k)
  <2>1. op' = [kind |-> "hydrate", k |-> op.k, base |-> op.base, todo |-> todo, ids |-> <<>>]
    BY <1>3
  <2>2. found \in Seq(Nat)
    <3>1. last \in Nat /\ VectorK \in Nat \ {0} /\ vectors \in SUBSET (1..last)
          /\ {i \in vectors \cap DOMAIN chunks : chunks[i].domain = op.domain} \in SUBSET (1..last)
      BY BaseConstants DEF BaseInv, BaseTyped, BaseNumbers
    <3>2. \A S \in SUBSET (1..last) : \A r \in Base!Rankings(S, VectorK) : r \in Seq(Nat)
      BY <3>1, RankingIs
    <3> QED
      BY <3>1, <3>2 DEF Base!VectorSearch
  <2> HIDE DEF fused, todo
  <2>3. \E S : todo \in Seq(S) /\ (op.base # <<>> => HasHit(todo, op.base))
    <3>1. CASE op.base # <<>>
      <4>1. PICK S : fused \in Seq(S) /\ HasHit(fused, op.base)
        BY <1>1, <2>2, <3>1, FusedFirst DEF fused
      <4>2. todo \in Seq(S) /\ todo # <<>> /\ todo[1] = fused[1]
        BY <1>1, <4>1, FirstIs DEF todo, HasHit
      <4> QED
        BY <4>1, <4>2 DEF HasHit
    <3>2. CASE op.base = <<>>
      <4>1. \E S : fused \in Seq(S)
        BY <1>1, <2>2, FusedIsSeq DEF fused
      <4>2. PICK S : fused \in Seq(S)
        BY <4>1
      <4>3. todo \in Seq(S)
        BY <1>1, <4>2, FirstIs DEF todo
      <4> QED
        BY <3>2, <4>3
    <3> QED
      BY <3>1, <3>2
  <2>4. PICK S : todo \in Seq(S) /\ (op.base # <<>> => HasHit(todo, op.base))
    BY <2>3
  <2>5. <<>> \in Seq(S)
    OBVIOUS
  <2>6. op' \in Hydrates(S)
    BY <1>1, <2>1, <2>4, <2>5, HydrateRecord
  <2>7. op'.kind = "hydrate" /\ op'.base = op.base /\ op'.ids = <<>> /\ op'.todo = todo
    BY <2>1
  <2>8. Hydrating(op')
    BY <2>4, <2>6, <2>7 DEF Hydrating
  <2>9. BaseOp'
    BY <2>7, <2>8 DEF BaseOp
  <2>10. op' \notin Batches /\ op' \notin Writes
    BY <2>7 DEF Batches, Writes
  <2> QED
    BY <2>9, <2>10
<1> QED
  BY <1>2, <1>3

LEMMA FuseKeeps ==
  ASSUME BaseInv, Base!SearchFuse
  PROVE  BaseInv'
<1>1. op.kind = "search" /\ UNCHANGED <<hybrid, chunks, last, vectors, clock>>
  BY DEF Base!SearchFuse
<1>2. PICK v \in BOOLEAN, found \in Base!VectorSearch(op.domain) :
        /\ Base!Embed(v)
        /\ op' = IF ~v \/ found = <<>> THEN Base!Answer(Base!First(op.base, op.k))
                 ELSE [kind |-> "hydrate", k |-> op.k, base |-> op.base,
                       todo |-> Base!First(Base!Fused(op.base, found), op.k), ids |-> <<>>]
  BY DEF Base!SearchFuse
<1>3. BaseOp' /\ op' \notin Batches /\ op' \notin Writes
  BY <1>1, <1>2, FuseOp
<1>4. /\ Counted' /\ Base!OutageBounded'
      /\ breaker'.fails \in Nat /\ breaker'.until \in 0..(MaxTime + Cooldown)
  <2>1. clock' = clock
    BY <1>1
  <2> QED
    BY <1>2, <2>1, EmbedCounts
<1>5. BaseTyped' /\ Base!FactsDistinct'
  BY <1>1, <1>4 DEF BaseInv, BaseTyped, Base!FactsDistinct
<1> QED
  BY <1>3, <1>4, <1>5 DEF BaseInv, BatchCovered

LEMMA HydrateKeeps ==
  ASSUME BaseInv, Base!Hydrate
  PROVE  BaseInv'
<1>1. op.kind = "hydrate" /\ UNCHANGED <<hybrid, chunks, last, vectors, breaker, failed, clock>>
  BY DEF Base!Hydrate
<1>2. Hydrating(op)
  BY <1>1, OpIs DEF BaseInv
<1>3. PICK S : op \in Hydrates(S)
  BY <1>2 DEF Hydrating
<1>4. op.todo \in Seq(S) /\ op.ids \in Seq(S) /\ op.base \in Seq(Nat)
  BY <1>3 DEF Hydrates
<1>5. CASE op.todo = <<>>
  <2>1. op' = [kind |-> "answer", ids |-> op.ids, k |-> op.k, base |-> op.base]
    BY <1>1, <1>5 DEF Base!Hydrate, Base!Answer
  <2>2. op.base # <<>> => HasHit(op.ids, op.base)
    BY <1>2, <1>5 DEF Hydrating, HasHit
  <2>3. BaseOp' /\ op' \notin Batches /\ op' \notin Writes
    BY <2>1, <2>2, AnswerOp
  <2> QED
    BY <1>1, <2>3, SearchStep
<1>6. CASE op.todo # <<>>
  <2> DEFINE id == Head(op.todo)
             stays == id \in Base!ToSet(op.base) \/ id \in DOMAIN chunks
             after == IF stays THEN Append(op.ids, id) ELSE op.ids
  <2>1. op' = [op EXCEPT !.todo = Tail(op.todo), !.ids = after]
    BY <1>6 DEF Base!Hydrate
  <2>2. id = op.todo[1] /\ id \in S /\ Tail(op.todo) \in Seq(S)
    BY <1>4, <1>6
  <2>3. after \in Seq(S)
    BY <1>4, <2>2
  <2>4. op' \in Hydrates(S) /\ op'.kind = "hydrate" /\ op'.base = op.base /\ op'.ids = after
    <3> HIDE DEF after
    <3> QED
      BY <1>3, <2>1, <2>2, <2>3 DEF Hydrates
  <2>5. op.base # <<>> => HasHit(after, op.base)
    <3>1. CASE HasHit(op.ids, op.base)
      <4>1. op.ids # <<>> /\ op.ids[1] \in Base!ToSet(op.base)
        BY <3>1 DEF HasHit
      <4>2. after # <<>> /\ after[1] = op.ids[1]
        BY <1>4, <2>2, <4>1
      <4> QED
        BY <4>1, <4>2 DEF HasHit
    <3>2. CASE op.ids = <<>> /\ HasHit(op.todo, op.base)
      <4>1. stays
        BY <2>2, <3>2 DEF HasHit
      <4>2. after = <<id>>
        BY <3>2, <4>1
      <4>3. after # <<>> /\ after[1] = id
        BY <4>2
      <4> QED
        BY <2>2, <3>2, <4>3 DEF HasHit
    <3> QED
      BY <1>2, <3>1, <3>2 DEF Hydrating
  <2> HIDE DEF after
  <2>6. BaseOp'
    <3>1. Hydrating(op')
      BY <2>4, <2>5 DEF Hydrating
    <3> QED
      BY <2>4, <3>1 DEF BaseOp
  <2>7. op' \notin Batches /\ op' \notin Writes
    BY <2>4 DEF Batches, Writes
  <2> QED
    BY <1>1, <2>6, <2>7, SearchStep
<1> QED
  BY <1>5, <1>6

LEMMA DeleteKeeps ==
  ASSUME BaseInv, NEW dead, Base!Delete(dead)
  PROVE  BaseInv'
<1>1. /\ DOMAIN chunks' = DOMAIN chunks \ dead /\ \A i \in DOMAIN chunks' : chunks'[i] = chunks[i]
      /\ UNCHANGED <<hybrid, last, vectors, breaker, failed, clock, op>>
  BY DEF Base!Delete
<1>2. BaseTyped' /\ Base!FactsDistinct'
  BY <1>1 DEF BaseInv, BaseTyped, Base!FactsDistinct
<1>3. BaseOp' /\ Counted' /\ Base!OutageBounded'
  BY <1>1 DEF BaseInv, BaseOp, Hydrating, Counted, Base!OutageBounded
<1>4. BatchCovered'
  BY <1>1 DEF BaseInv, BatchCovered, Covered
<1> QED
  BY <1>2, <1>3, <1>4 DEF BaseInv

LEMMA RestartKeeps ==
  ASSUME BaseInv, Base!Restart
  PROVE  BaseInv'
<1>1. /\ op' = Base!Idle /\ breaker' = Base!Closed /\ failed' = <<>>
      /\ UNCHANGED <<hybrid, chunks, last, vectors, clock>>
  BY DEF Base!Restart
<1>2. breaker'.fails = 0 /\ breaker'.until = 0 /\ Len(failed') = 0 /\ failed' \in Seq(Nat)
  BY <1>1 DEF Base!Closed
<1>3. Counted' /\ Base!OutageBounded'
  BY <1>2, BaseConstants DEF Counted, Base!OutageBounded, BaseNumbers
<1>4. BaseTyped' /\ Base!FactsDistinct'
  BY <1>1, <1>2, BaseConstants DEF BaseInv, BaseTyped, Base!FactsDistinct, BaseNumbers
<1>5. op' \notin Batches /\ op' \notin Writes
  BY <1>1 DEF Base!Idle, Batches, Writes
<1>6. BaseOp' /\ BatchCovered'
  BY <1>1, <1>5 DEF BaseOp, BatchCovered
<1> QED
  BY <1>3, <1>4, <1>6 DEF BaseInv

LEMMA BaseTickKeeps ==
  ASSUME BaseInv, Base!Tick
  PROVE  BaseInv'
<1>1. /\ clock < MaxTime /\ clock' = clock + 1
      /\ UNCHANGED <<hybrid, chunks, last, vectors, breaker, failed, op>>
  BY DEF Base!Tick
<1>2. clock \in Nat /\ MaxTime \in Nat
  BY BaseConstants DEF BaseInv, BaseTyped, BaseNumbers
<1>3. BaseTyped' /\ Base!FactsDistinct' /\ BaseOp' /\ BatchCovered' /\ Base!OutageBounded'
  BY <1>1, <1>2 DEF BaseInv, BaseTyped, Base!FactsDistinct, BaseOp, Hydrating, BatchCovered, Covered,
                    Base!OutageBounded
<1>4. Counted'
  <2>1. \A i \in 1..Len(failed) : failed[i] \in Nat
    BY DEF BaseInv, Counted
  <2> QED
    BY <1>1, <1>2, <2>1 DEF BaseInv, Counted
<1> QED
  BY <1>3, <1>4 DEF BaseInv

LEMMA BaseQuiet ==
  ASSUME BaseInv, UNCHANGED baseVars
  PROVE  BaseInv'
<1>1. UNCHANGED <<hybrid, chunks, last, vectors, breaker, failed, clock, op>>
  BY DEF baseVars
<1> QED
  BY <1>1 DEF BaseInv, BaseTyped, Base!FactsDistinct, BaseOp, Hydrating, BatchCovered, Covered,
              Base!OutageBounded, Counted

LEMMA BaseStep ==
  ASSUME BaseInv, [Base!Next]_baseVars
  PROVE  BaseInv'
<1>1. ASSUME NEW t \in Contents, Base!AddChunk(t) PROVE BaseInv'
  BY <1>1, AddKeeps
<1>2. CASE Base!EmbedChunk \/ Base!StoreVector
  BY <1>2, EmbedKeeps, StoreKeeps
<1>3. ASSUME NEW ns \in Namespaces \union {Null}, NEW facts \in [1..2 -> Contents],
             Base!Consolidate(ns, facts)
      PROVE  BaseInv'
  BY <1>3, ConsolidateKeeps
<1>4. CASE Base!NextFact
  BY <1>4, NextFactKeeps
<1>5. CASE Base!FactsDone \/ Base!Deliver
  <2>1. op' = Base!Idle /\ UNCHANGED <<hybrid, chunks, last, vectors, breaker, failed, clock>>
    BY <1>5 DEF Base!FactsDone, Base!Deliver
  <2> QED
    BY <2>1, IdleStep
<1>6. ASSUME NEW q \in Contents, NEW k \in 1..2, NEW d \in {Null, "general"}, Base!SearchBase(q, k, d)
      PROVE  BaseInv'
  BY <1>6, SearchKeeps
<1>7. CASE Base!SearchFuse \/ Base!Hydrate
  BY <1>7, FuseKeeps, HydrateKeeps
<1>8. ASSUME NEW dead \in SUBSET DOMAIN chunks, Base!Delete(dead) PROVE BaseInv'
  BY <1>8, DeleteKeeps
<1>9. CASE Base!Restart \/ Base!Tick
  BY <1>9, RestartKeeps, BaseTickKeeps
<1>10. CASE UNCHANGED baseVars
  BY <1>10, BaseQuiet
<1> QED
  BY <1>1, <1>2, <1>3, <1>4, <1>5, <1>6, <1>7, <1>8, <1>9, <1>10 DEF Base!Next

\* For any texts, similarity, sizes of rankings, thresholds, limits and bounds: a search that
\* had keyword hits answers with one of them first, near-duplicate facts of a namespace are
\* never stored within FactLimit chunks, and an outage sees at most Threshold failing calls
\* in a cooldown.
THEOREM KnowledgeIsSound == Spec => []KnowledgeSound
<1>1. BaseInv /\ [Next]_vars => BaseInv'
  BY BaseMoves, BaseStep
<1>2. BaseInv => KnowledgeSound
  BY DEF KnowledgeSound, Base!KnowledgeSound, BaseInv, Base!HitsSurvive, BaseOp, HasHit,
         Base!Idle, Batches, Writes, Searches
<1> QED
  BY <1>1, <1>2, BaseInit, PTL DEF Spec

-----------------------------------------------------------------------------
(* The kinds of values the other stores' variables hold *)

\* The clock has a bound, and what was read or written was so by now.
TurnTimes ==
  /\ now <= MaxTime
  /\ \A m \in DOMAIN cache : cache[m] = Null \/ cache[m].at \in 0..now

LEMMA TurnTimesInit == Turn!Init => TurnTimes
<1>1. MaxTime \in Nat
  BY ContextAssumption DEF ContextAssumption, Turn!ContextAssumption
<1> QED
  BY <1>1 DEF Turn!Init, TurnTimes

LEMMA TurnTimesStep ==
  ASSUME TurnInv, TurnTimes, [Turn!Next]_turnVars
  PROVE  TurnTimes'
<1>1. now \in Nat /\ MaxTime \in Nat
  BY ContextAssumption DEF TurnInv, TurnType, ContextAssumption, Turn!ContextAssumption
<1>2. CASE UNCHANGED <<now, cache>>
  BY <1>2 DEF TurnTimes
<1>3. CASE Turn!Tick
  BY <1>1, <1>3 DEF Turn!Tick, TurnTimes
<1>4. ASSUME NEW s \in Sessions, NEW heard \in SUBSET Turn!Parts, Turn!ModelCall(s, heard)
      PROVE  TurnTimes'
  <2>1. UNCHANGED now
    BY <1>4 DEF Turn!ModelCall
  <2>2. ASSUME NEW m \in DOMAIN cache, NEW block
        PROVE  Turn!Read(m, block) = Null \/ Turn!Read(m, block).at \in 0..now
    BY <1>1 DEF Turn!Read, TurnTimes
  <2>3. cache' = [m \in DOMAIN cache |->
                    IF m = "knowledge"
                    THEN IF Turn!HasKnowledge THEN Turn!Read(m, Turn!LoadMemory) ELSE cache[m]
                    ELSE IF Turn!MemoryActs(running[s].goal) THEN Turn!Read(m, Turn!LoadPriorSessions)
                         ELSE cache[m]]
    BY <1>4 DEF Turn!ModelCall
  <2>4. ASSUME NEW m \in DOMAIN cache PROVE cache'[m] = Null \/ cache'[m].at \in 0..now
    <3>1. cache'[m] = cache[m] \/ \E block : cache'[m] = Turn!Read(m, block)
      BY <2>3
    <3> QED
      BY <2>2, <3>1 DEF TurnTimes
  <2> QED
    BY <2>1, <2>3, <2>4 DEF TurnTimes
<1>5. ASSUME NEW s \in Sessions,
             \/ \E goal \in BOOLEAN : Turn!StartTurn(s, goal)
             \/ \E found \in SUBSET Tools \ {{}} : Turn!SearchTools(s, found)
             \/ Turn!Answer(s) \/ Turn!Abort(s)
      PROVE  TurnTimes'
  BY <1>2, <1>5 DEF Turn!StartTurn, Turn!SearchTools, Turn!Answer, Turn!Abort
<1>6. CASE UNCHANGED turnVars
  BY <1>2, <1>6 DEF turnVars
<1> QED
  BY <1>3, <1>4, <1>5, <1>6 DEF Turn!Next

LEMMA TurnTypeHolds == TurnInv /\ TurnTimes => Turn!TypeOK
<1> SUFFICES ASSUME TurnInv, TurnTimes PROVE Turn!TypeOK
  OBVIOUS
<1>1. now \in 0..MaxTime
  BY ContextAssumption DEF TurnInv, TurnType, TurnTimes, ContextAssumption, Turn!ContextAssumption
<1>2. \A s \in Sessions : \A i \in DOMAIN thread[s] : thread[s][i] \in Turn!Messages
  BY DEF TurnInv, TurnType
<1>3. DOMAIN files \subseteq Sessions /\ \A s \in DOMAIN files : files[s].at \in 0..now
  BY <1>1 DEF TurnInv, Written
<1> QED
  BY <1>1, <1>2, <1>3 DEF Turn!TypeOK, TurnInv, TurnType, TurnTimes

-----------------------------------------------------------------------------
\* A script asks no more than it may; what the parent holds is its own.
CodeHolds == child.asked <= MaxAsked /\ fds \subseteq Code!Fds /\ file \in BOOLEAN

LEMMA CodeHoldsInit == Code!Init => CodeHolds
<1>1. MaxAsked \in Nat
  BY CodeAssumption DEF CodeAssumption, Code!CodeAssumption
<1> SUFFICES ASSUME Code!Init PROVE CodeHolds
  OBVIOUS
<1>2. child.asked <= MaxAsked
  BY <1>1 DEF Code!Init, Code!Absent
<1>3. fds = {} /\ file = FALSE
  BY Zenon DEF Code!Init
<1>4. fds \subseteq Code!Fds /\ file \in BOOLEAN
  BY <1>3, Zenon
<1> QED
  BY <1>2, <1>4, Zenon DEF CodeHolds

LEMMA CodeHoldsStep ==
  ASSUME CodeInv, CodeHolds, [Code!Next]_codeVars
  PROVE  CodeHolds'
<1>1. MaxAsked \in Nat /\ child.asked \in Nat
  BY CodeAssumption DEF CodeAssumption, Code!CodeAssumption, CodeInv, CodeType
<1>2. child'.asked \in {0, child.asked} \/ (child'.asked = child.asked + 1 /\ child.asked < MaxAsked)
  <2>1. CASE Code!Begin \/ Code!Spawn
    BY <2>1 DEF Code!Begin, Code!Spawn, Code!Absent
  <2>2. CASE Code!TimeOut \/ Code!ChildReads \/ Code!ChildSeesEof \/ Code!ChildExits
    <3>1. PICK x : child' = [child EXCEPT !.at = x]
      BY <2>2 DEF Code!TimeOut, Code!ChildReads, Code!ChildSeesEof, Code!ChildExits
    <3> QED
      BY <3>1 DEF CodeInv, CodeType
  <2>3. CASE Code!ChildCalls
    BY <2>3 DEF Code!ChildCalls
  <2>4. CASE UNCHANGED child
    BY <2>4
  <2>5. CASE UNCHANGED codeVars
    BY <2>5 DEF codeVars
  <2>6. ASSUME \/ Code!SpawnFails \/ Code!ChildIsDone \/ Code!Reaped \/ Code!Cancelled \/ Code!Leave
               \/ Code!ServiceReads \/ Code!ToolEnds \/ Code!ServiceWrites \/ Code!ServiceEnds
        PROVE  UNCHANGED child
    BY <2>6 DEF Code!SpawnFails, Code!ChildIsDone, Code!Reaped, Code!Cancelled, Code!Leave,
       Code!ServiceReads, Code!ToolEnds, Code!ServiceWrites, Code!ServiceEnds
  <2> QED
    BY <2>1, <2>2, <2>3, <2>4, <2>5, <2>6 DEF Code!Next
<1>3. fds' \in {fds, Code!Fds, {"req_r", "resp_w"}, {}} /\ file' \in {file, TRUE, FALSE}
  <2>1. CASE UNCHANGED <<fds, file>>
    BY <2>1
  <2>2. CASE Code!Begin \/ Code!SpawnFails \/ Code!Spawn \/ Code!Leave
    BY <2>2 DEF Code!Begin, Code!SpawnFails, Code!Spawn, Code!Leave, Code!CleanUp
  <2>3. ASSUME \/ Code!ChildIsDone \/ Code!TimeOut \/ Code!Reaped \/ Code!Cancelled
               \/ Code!ServiceReads \/ Code!ToolEnds \/ Code!ServiceWrites \/ Code!ServiceEnds
               \/ Code!ChildCalls \/ Code!ChildReads \/ Code!ChildSeesEof \/ Code!ChildExits
        PROVE  UNCHANGED <<fds, file>>
    BY <2>3 DEF Code!ChildIsDone, Code!TimeOut, Code!Reaped, Code!Cancelled,
       Code!ServiceReads, Code!ToolEnds, Code!ServiceWrites, Code!ServiceEnds,
       Code!ChildCalls, Code!ChildReads, Code!ChildSeesEof, Code!ChildExits
  <2>4. CASE UNCHANGED codeVars
    BY <2>1, <2>4 DEF codeVars
  <2> QED
    BY <2>1, <2>2, <2>3, <2>4 DEF Code!Next
<1>4. child'.asked <= MaxAsked
  BY <1>1, <1>2 DEF CodeHolds
<1>5. fds' \subseteq Code!Fds /\ file' \in BOOLEAN
  BY <1>3 DEF CodeHolds, Code!Fds
<1> QED
  BY <1>4, <1>5 DEF CodeHolds

LEMMA CodeTypeHolds == CodeInv /\ CodeHolds => Code!TypeOK
<1>1. MaxAsked \in Nat
  BY CodeAssumption DEF CodeAssumption, Code!CodeAssumption
<1> QED
  BY <1>1 DEF CodeInv, CodeType, CodeHolds, Code!TypeOK

-----------------------------------------------------------------------------
\* Every task is one that was asked for, or answered.
TasksFit ==
  /\ skills \subseteq Delegates!Texts
  /\ \A c \in Calls : \A j \in DOMAIN task[c] : task[c][j].spec \in Delegates!Specs \union {"answered"}

\* The end of what one element closes.
LEMMA LastOf ==
  ASSUME NEW p, NEW u, NEW l
  PROVE  LET short == <<p>> \o << >> \o <<l>>
             long == <<p>> \o <<u>> \o <<l>>
         IN  short[Len(short)] = l /\ long[Len(long)] = l
<1> DEFINE S == {p, u, l}
<1>1. <<p>> \in Seq(S) /\ <<u>> \in Seq(S) /\ <<l>> \in Seq(S) /\ << >> \in Seq(S)
  OBVIOUS
<1>2. Len(<<p>>) = 1 /\ Len(<<u>>) = 1 /\ Len(<<l>>) = 1 /\ <<l>>[1] = l /\ Len(<< >>) = 0
  OBVIOUS
<1>3. ASSUME NEW s \in Seq(S) PROVE (s \o <<l>>)[Len(s \o <<l>>)] = l
  <2> HIDE DEF S
  <2>1. Len(s \o <<l>>) = Len(s) + 1 /\ Len(s) \in Nat
    BY <1>1, <1>2
  <2> QED
    BY <1>1, <1>2, <2>1
<1>4. <<p>> \o << >> \in Seq(S) /\ <<p>> \o <<u>> \in Seq(S)
  <2> HIDE DEF S
  <2> QED
    BY <1>1
<1> HIDE DEF S
<1> QED
  BY <1>3, <1>4

\* A subagent's last message is one of the three.
LEMMA LastText ==
  ASSUME NEW msgs \in Delegates!Histories
  PROVE  msgs[Len(msgs)].text \in Delegates!Texts
<1> DEFINE M == [from : STRING, text : Delegates!Texts]
<1>1. PICK tools \in {<< >>} \union {<<Delegates!Message("tool", u)>> : u \in Delegates!Texts},
           t \in Delegates!Texts :
        msgs = <<Delegates!Message("prompt", "good")>> \o tools \o <<Delegates!Message("model", t)>>
  BY DEF Delegates!Histories
<1> DEFINE p == Delegates!Message("prompt", "good")
           l == Delegates!Message("model", t)
<1>2. l.text = t
  BY DEF Delegates!Message
<1> HIDE DEF p, l
<1>3. CASE tools = << >>
  <2>1. msgs = <<p>> \o << >> \o <<l>>
    BY <1>1, <1>3 DEF p, l
  <2> QED
    BY <1>2, <2>1, LastOf
<1>4. ASSUME NEW u, tools = <<u>> PROVE msgs[Len(msgs)].text \in Delegates!Texts
  <2>1. msgs = <<p>> \o <<u>> \o <<l>>
    BY <1>1, <1>4 DEF p, l
  <2> QED
    BY <1>2, <2>1, LastOf
<1> QED
  BY <1>1, <1>3, <1>4

LEMMA TasksFitStep ==
  ASSUME DelegInv, TasksFit, [Delegates!Next]_jobVars
  PROVE  TasksFit'
<1> DEFINE Asks == Delegates!Specs \union {"answered"}
           Fits(ts) == \A j \in DOMAIN ts : ts[j].spec \in Asks
<1>1. task = [c \in Calls |-> task[c]] /\ \A c \in Calls : Fits(task[c])
  BY DEF DelegInv, TasksFit
<1>2. ASSUME NEW c \in Calls, NEW ts, Fits(ts), task' = [task EXCEPT ![c] = ts],
             skills' \subseteq Delegates!Texts
      PROVE  TasksFit'
  <2> HIDE DEF Fits
  <2>1. \A d \in Calls : Fits(task'[d])
    BY <1>1, <1>2
  <2> QED
    BY <1>2, <2>1 DEF TasksFit, Fits
<1>3. CASE UNCHANGED <<task, skills>>
  BY <1>3 DEF TasksFit
<1>4. skills \subseteq Delegates!Texts
  BY DEF TasksFit
<1>5. ASSUME NEW specs \in [Delegates!Jobs -> Delegates!Specs] PROVE Fits(Delegates!New(specs))
  BY <1>5 DEF Delegates!New
<1>6. Fits(<< >>)
  OBVIOUS
<1>7. ASSUME NEW c \in Calls, NEW j \in DOMAIN task[c], NEW r, r.spec \in Asks
      PROVE  Fits([task[c] EXCEPT ![j] = r])
  BY <1>1, <1>7
<1> HIDE DEF Fits
<1>8. ASSUME NEW c \in Calls, NEW specs \in [Delegates!Jobs -> Delegates!Specs],
             Delegates!TaskBatch(c, specs) \/ Delegates!ManualBatch(c, specs)
      PROVE  TasksFit'
  <2>1. UNCHANGED skills
    BY <1>8 DEF Delegates!TaskBatch, Delegates!ManualBatch
  <2>2. UNCHANGED task \/ task' = [task EXCEPT ![c] = Delegates!New(specs)]
    BY <1>8 DEF Delegates!TaskBatch, Delegates!ManualBatch, Delegates!Enforce
  <2> QED
    BY <1>2, <1>3, <1>4, <1>5, <2>1, <2>2
<1>9. ASSUME NEW c \in Calls, Delegates!BatchReturns(c) \/ Delegates!Cancel(c) PROVE TasksFit'
  <2>1. UNCHANGED skills /\ task' = [task EXCEPT ![c] = << >>]
    BY <1>9 DEF Delegates!BatchReturns, Delegates!Cancel
  <2> QED
    BY <1>2, <1>4, <1>6, <2>1
<1>10. ASSUME NEW c \in Calls, NEW j \in DOMAIN task[c], NEW out, Delegates!Finish(c, j, out),
              skills' \subseteq Delegates!Texts
       PROVE  TasksFit'
  <2> DEFINE r == [spec |-> "answered", at |-> "done", out |-> out]
  <2>1. task' = [task EXCEPT ![c] = [task[c] EXCEPT ![j] = r]]
    BY <1>1, <1>10 DEF Delegates!Finish
  <2>2. r.spec \in Asks
    OBVIOUS
  <2> HIDE DEF r
  <2> QED
    BY <1>2, <1>7, <1>10, <2>1, <2>2
<1>11. ASSUME NEW c \in Calls, NEW j \in DOMAIN task[c],
              Delegates!Refuse(c, j) \/ Delegates!SubagentRaises(c, j)
       PROVE  TasksFit'
  BY <1>4, <1>10, <1>11 DEF Delegates!Refuse, Delegates!SubagentRaises
<1>12. ASSUME NEW c \in Calls, NEW j \in DOMAIN task[c], Delegates!Acquire(c, j) PROVE TasksFit'
  <2>1. UNCHANGED skills
    BY <1>12 DEF Delegates!Acquire
  <2>2. CASE Delegates!Finish(c, j, "error")
    BY <1>4, <1>10, <2>1, <2>2
  <2>3. CASE task' = [task EXCEPT ![c][j].at = "running"]
    <3> DEFINE r == [task[c][j] EXCEPT !.at = "running"]
    <3>1. task' = [task EXCEPT ![c] = [task[c] EXCEPT ![j] = r]]
      BY <1>1, <2>3
    <3>2. r.spec = task[c][j].spec
      <4>1. Permitted(task[c])
        BY <1>12 DEF Delegates!Acquire, DelegInv, Started
      <4>2. j \in 1..Tasks
        BY <4>1 DEF Permitted, Batch
      <4>3. task[c][j] = [spec |-> task[c][j].spec, at |-> task[c][j].at, out |-> task[c][j].out]
        BY <4>1, <4>2 DEF Permitted, Batch
      <4> QED
        BY <4>3
    <3>3. r.spec \in Asks
      BY <1>1, <3>2 DEF Fits
    <3> HIDE DEF r
    <3> QED
      BY <1>2, <1>4, <1>7, <2>1, <3>1, <3>3
  <2> QED
    BY <1>12, <2>2, <2>3 DEF Delegates!Acquire
<1>13. ASSUME NEW c \in Calls, NEW j \in DOMAIN task[c], NEW msgs \in Delegates!Histories,
              Delegates!SubagentEnds(c, j, msgs)
       PROVE  TasksFit'
  <2>1. skills' \subseteq Delegates!Texts
    BY <1>4, <1>13, LastText DEF Delegates!SubagentEnds
  <2> QED
    BY <1>10, <1>13, <2>1 DEF Delegates!SubagentEnds
<1>14. CASE Delegates!Tick \/ UNCHANGED jobVars
  BY <1>3, <1>14 DEF Delegates!Tick, jobVars
<1> QED
  BY <1>8, <1>9, <1>11, <1>12, <1>13, <1>14 DEF Delegates!Next

LEMMA DelegTypeHolds == DelegInv /\ TasksFit => Delegates!TypeOK
<1> SUFFICES ASSUME DelegInv, TasksFit PROVE Delegates!TypeOK
  OBVIOUS
<1>1. \A c \in DOMAIN ran : ran[c] \in 0..time
  BY DEF DelegInv, Listed
<1> QED
  BY <1>1 DEF DelegInv, Listed, CallRecords, TasksFit, Delegates!TypeOK

-----------------------------------------------------------------------------
\* The install's jobs, what the agents were told, and how often they called.
RemoteTyped ==
  /\ jobs \in [Remote!FullIds -> {Remote!Absent} \union [is : {"kept"}, prompt : Prompts, agent : Agents]]
  /\ told \in [Agents -> [Remote!FullIds -> {Remote!Nothing, Remote!Unsure, Remote!Removed}
                                              \union [is : {"added"}, prompt : Prompts]]]
  /\ calls \in 0..MaxPublished

LEMMA RemoteTypedInit == Remote!Init => RemoteTyped
<1>1. MaxPublished \in Nat
  BY RemoteAssumption DEF RemoteAssumption, Remote!RemoteAssumption
<1> QED
  BY <1>1 DEF Remote!Init, RemoteTyped

LEMMA RemoteTypedStep ==
  ASSUME RemoteInv, RemoteTyped, [Remote!Next]_remoteVars
  PROVE  RemoteTyped'
<1> DEFINE Answers == {Remote!Nothing, Remote!Unsure, Remote!Removed} \union [is : {"added"}, prompt : Prompts]
           Jobs == {Remote!Absent} \union [is : {"kept"}, prompt : Prompts, agent : Agents]
<1>1. calls \in Nat /\ MaxPublished \in Nat /\ calls <= MaxPublished
  BY RemoteAssumption DEF RemoteAssumption, Remote!RemoteAssumption, RemoteTyped
<1>2. ASSUME Remote!Counted PROVE calls' \in 0..MaxPublished
  BY <1>1, <1>2 DEF Remote!Counted
<1>3. ASSUME NEW command, command.id \in Remote!FullIds, NEW a \in Agents, NEW answer \in Answers,
             Remote!Publish(command, a, answer)
      PROVE  told' \in [Agents -> [Remote!FullIds -> Answers]]
  <2>1. PICK x \in Answers : told' = [told EXCEPT ![a][command.id] = x]
    BY <1>3 DEF Remote!Publish
  <2> HIDE DEF Answers
  <2>2. told \in [Agents -> [Remote!FullIds -> Answers]]
    BY DEF RemoteTyped, Answers
  <2> QED
    BY <1>3, <2>1, <2>2
<1>4. ASSUME NEW a \in Agents, NEW id \in JobIds PROVE Remote!NamespacedId(a, id) \in Remote!FullIds
  BY DEF Remote!FullIds
<1>5. ASSUME NEW a \in Agents, NEW id \in JobIds, NEW p \in Prompts, Remote!AddJob(a, id, p)
      PROVE  RemoteTyped'
  <2> DEFINE c == [action |-> "add", id |-> Remote!NamespacedId(a, id), prompt |-> p, agent |-> a]
  <2>1. Remote!Publish(c, a, Remote!Added(p)) /\ UNCHANGED jobs /\ Remote!Counted
    BY <1>5 DEF Remote!AddJob
  <2>2. c.id \in Remote!FullIds
    BY <1>4
  <2>3. Remote!Added(p) \in Answers
    BY DEF Remote!Added
  <2> HIDE DEF c, Answers
  <2>4. told' \in [Agents -> [Remote!FullIds -> Answers]]
    BY <1>3, <2>1, <2>2, <2>3
  <2> QED
    BY <1>2, <2>1, <2>4 DEF RemoteTyped, Answers
<1>6. ASSUME NEW a \in Agents, NEW id \in JobIds, Remote!CancelJob(a, id) PROVE RemoteTyped'
  <2> DEFINE c == [action |-> "remove", id |-> Remote!NamespacedId(a, id)]
  <2>1. Remote!Publish(c, a, Remote!Removed) /\ UNCHANGED jobs /\ Remote!Counted
    BY <1>6 DEF Remote!CancelJob
  <2>2. c.id \in Remote!FullIds
    BY <1>4
  <2>3. Remote!Removed \in Answers
    OBVIOUS
  <2> HIDE DEF c, Answers
  <2>4. told' \in [Agents -> [Remote!FullIds -> Answers]]
    BY <1>3, <2>1, <2>2, <2>3
  <2> QED
    BY <1>2, <2>1, <2>4 DEF RemoteTyped, Answers
<1>7. CASE Remote!Take
  <2> DEFINE h == Head(bus)
  <2>1. bus # << >> /\ jobs' = [jobs EXCEPT ![h.id] = Remote!Effect(h)] /\ UNCHANGED <<told, calls>>
    BY <1>7 DEF Remote!Take
  <2>2. h \in Commands
    BY <2>1 DEF RemoteInv
  <2> HIDE DEF h
  <2>3. Remote!Effect(h) \in Jobs
    BY <2>2 DEF Commands, Adds, Removes, Remote!Effect
  <2> HIDE DEF Jobs
  <2>4. jobs' \in [Remote!FullIds -> Jobs]
    BY <2>1, <2>3 DEF RemoteTyped, Jobs
  <2> QED
    BY <2>1, <2>4 DEF RemoteTyped, Jobs
<1>8. CASE UNCHANGED remoteVars
  BY <1>8 DEF remoteVars, RemoteTyped
<1> QED
  BY <1>5, <1>6, <1>7, <1>8 DEF Remote!Next, Remote!remoteVars, remoteVars

LEMMA RemoteTypeHolds == RemoteInv /\ RemoteTyped => Remote!TypeOK
<1> SUFFICES ASSUME RemoteInv, RemoteTyped PROVE Remote!TypeOK
  OBVIOUS
<1>1. \A n \in DOMAIN bus : bus[n] \in Commands
  BY DEF RemoteInv
<1>2. \A n \in DOMAIN bus : bus[n].id \in Remote!FullIds /\ bus[n].action \in {"add", "remove"}
  BY <1>1 DEF Commands, Adds, Removes
<1> QED
  BY <1>2 DEF RemoteTyped, Remote!TypeOK

-----------------------------------------------------------------------------
(* The kinds of values the configuration files' variables hold *)

FileMore ==
  /\ torn \subseteq Config!Files /\ DOMAIN writer \subseteq Config!Actors /\ saves \in 0..MaxSaves
  /\ \A m \in Delegated : health[m] \in Config!Maybe
  /\ \A k \in Config!Keys : want[k] \in Config!Maybe \X Config!Maybe
  /\ spoiled \subseteq Config!Keys /\ hand \subseteq Secret /\ changed \subseteq Delegated

LEMMA FileMoreInit == Config!Init => FileMore
<1>1. MaxSaves \in Nat
  BY FilesAssumption DEF FilesAssumption, Config!FilesAssumption
<1> QED
  BY <1>1, EmptyParts DEF Config!Init, FileMore

\* A run has keys of its own, or those of the plugin it removes.
LEMMA KeysOfIn ==
  ASSUME NEW w, w.kind \in {"upsert", "delete"} => w.name \in Delegated
  PROVE  Config!KeysOf(w) \subseteq Config!Keys
<1>1. CASE w.kind = "save"
  <2>1. Config!KeysOf(w) = {p \in Plain : w.upd.plain[p] # Null} \union {s \in Secret : w.upd.secret[s] # Null}
    BY <1>1 DEF Config!KeysOf
  <2> QED
    BY <2>1 DEF Config!Keys
<1>2. CASE w.kind \in {"upsert", "delete"}
  BY <1>2, KeysAre DEF Config!Keys
<1>3. CASE w.kind = "purge"
  BY <1>3, KeysAre, FileConstants DEF Config!Keys
<1>4. CASE w.kind \notin {"save", "upsert", "delete", "purge"}
  BY <1>4 DEF Config!KeysOf
<1> QED
  BY <1>1, <1>2, <1>3, <1>4

LEMMA RunKeysIn ==
  ASSUME FileInv, NEW x \in DOMAIN writer
  PROVE  Config!KeysOf(writer[x]) \subseteq Config!Keys
  BY RunIs, KeysOfIn DEF Shaped

LEMMA TouchedIn ==
  ASSUME FileInv, NEW x, NEW w, w.kind \in {"upsert", "delete"} => w.name \in Delegated
  PROVE  Config!Touched(x, w) \subseteq Config!Keys
  BY KeysOfIn, RunKeysIn DEF Config!Touched, Config!Others

\* Whoever steps: the files, the runs and what is noted of them.
LEMMA FileMoreKept ==
  ASSUME FileMore, NEW x \in Config!Actors, torn' \subseteq torn \union Config!Files,
         DOMAIN writer' \subseteq DOMAIN writer \union {x},
         \/ saves' = saves
         \/ saves < MaxSaves /\ saves' = saves + 1,
         spoiled' \subseteq spoiled \union Config!Keys, hand' \subseteq hand \union Secret,
         changed' \subseteq changed \union Delegated,
         UNCHANGED health \/ \A m \in Delegated : health'[m] \in Config!Maybe,
         UNCHANGED want \/ \A k \in Config!Keys : want'[k] \in Config!Maybe \X Config!Maybe
  PROVE  FileMore'
<1>1. MaxSaves \in Nat
  BY FilesAssumption DEF FilesAssumption, Config!FilesAssumption
<1>2. saves' \in 0..MaxSaves
  BY <1>1 DEF FileMore
<1>3. \A m \in Delegated : health'[m] \in Config!Maybe
  BY DEF FileMore
<1>4. \A k \in Config!Keys : want'[k] \in Config!Maybe \X Config!Maybe
  BY DEF FileMore
<1>5. /\ torn' \subseteq Config!Files /\ DOMAIN writer' \subseteq Config!Actors
      /\ spoiled' \subseteq Config!Keys /\ hand' \subseteq Secret /\ changed' \subseteq Delegated
  BY DEF FileMore
<1> QED
  BY <1>2, <1>3, <1>4, <1>5 DEF FileMore

LEMMA BeginMore ==
  ASSUME FileInv, FileMore, NEW x \in Config!Actors, NEW w, Config!Begin(x, w),
         w.kind \in {"upsert", "delete"} => w.name \in Delegated
  PROVE  FileMore'
<1>1. /\ saves < MaxSaves /\ saves' = saves + 1 /\ DOMAIN writer' = DOMAIN writer \union {x}
      /\ spoiled' = spoiled \union Config!Touched(x, w)
      /\ UNCHANGED <<torn, health, changed, want, hand>>
  BY DEF Config!Begin, Config!probing
<1> QED
  BY <1>1, TouchedIn, FileMoreKept

\* What is asked for is of values.
LEMMA AskedMore ==
  ASSUME FileInv, FileMore, NEW x \in DOMAIN writer, want' = Config!Asked(writer[x])
  PROVE  \A k \in Config!Keys : want'[k] \in Config!Maybe \X Config!Maybe
<1> DEFINE w == writer[x]
<1>0. w \in FileRun /\ Shaped(w) /\ w.upd \in Config!Doc
  BY RunIs
<1>1. /\ w.upd.plain \in [Plain -> Config!Maybe] /\ w.upd.secret \in [Secret -> Config!Maybe]
      /\ w.upd.entry \in [Delegated -> Config!Maybe] /\ w.upd.cred \in [Delegated -> Config!Maybe]
      /\ secrets.cred \in [Delegated -> Config!Maybe] /\ Null \in Config!Maybe
  BY <1>0, DocParts, EmptyParts DEF FileInv, FileType
<1>2. w.kind \in Kinds /\ (w.kind \in {"upsert", "delete"} => w.name \in Delegated)
  BY <1>0 DEF FileRun, Shaped
<1>3. w.kind \in {"upsert", "delete"} => Config!KeysOf(w) = {w.name}
  BY KeysAre
<1>4. w.kind = "save" => Config!KeysOf(w) \subseteq Plain \union Secret
  BY DEF Config!KeysOf
<1> HIDE DEF w
<1>5. want' = Config!Asked(w)
  BY DEF w
<1> SUFFICES ASSUME NEW k \in Config!Keys PROVE want'[k] \in Config!Maybe \X Config!Maybe
  OBVIOUS
<1>6. CASE k \notin Config!KeysOf(w)
  BY <1>5, <1>6, AskedIs DEF FileMore
<1>7. CASE k \in Config!KeysOf(w) /\ w.kind \in {"purge", "delete"}
  <2>1. want'[k] = <<Null, Null>>
    BY <1>5, <1>7, AskedIs
  <2> QED
    BY <1>1, <2>1
<1>8. CASE k \in Config!KeysOf(w) /\ w.kind = "save"
  <2>1. want'[k] = <<IF k \in Plain THEN w.upd.plain[k] ELSE w.upd.secret[k], Null>>
    BY <1>5, <1>8, AskedIs
  <2> QED
    BY <1>1, <1>4, <1>8, <2>1
<1>9. CASE k \in Config!KeysOf(w) /\ w.kind = "upsert"
  <2>1. want'[k] = <<w.upd.entry[k], Config!First(w.upd.cred[k], secrets.cred[k])>>
    BY <1>5, <1>9, AskedIs
  <2>2. k \in Delegated
    BY <1>2, <1>3, <1>9
  <2> QED
    BY <1>1, <2>1, <2>2 DEF Config!First
<1> QED
  BY <1>2, <1>6, <1>7, <1>8, <1>9 DEF Kinds

LEMMA EndedMore ==
  ASSUME FileInv, FileMore, NEW x \in DOMAIN writer, NEW alone, Config!Ended(x, alone)
  PROVE  /\ DOMAIN writer' \subseteq DOMAIN writer
         /\ spoiled' \subseteq spoiled \union Config!Keys
         /\ \A k \in Config!Keys : want'[k] \in Config!Maybe \X Config!Maybe
<1>1. /\ DOMAIN writer' = Config!Others(x) /\ want' = Config!Asked(writer[x])
      /\ spoiled' \subseteq spoiled \union Config!KeysOf(writer[x]) \union Config!Stripped(writer[x])
  BY DEF Config!Ended, Config!Leave
<1>2. Config!Stripped(writer[x]) \subseteq Config!Keys
  BY DEF Config!Stripped, Config!Keys
<1> QED
  BY <1>1, <1>2, RunKeysIn, AskedMore DEF Config!Others

LEMMA LostIn == \A f : Config!Lost(f) \subseteq Config!Keys
  BY DEF Config!Lost

LEMMA NoteIn ==
  ASSUME NEW d, Config!Note(d) PROVE changed' \subseteq changed \union Delegated
  BY DEF Config!Note

LEMMA FileMoreRun ==
  ASSUME FileInv, FileMore, NEW x \in Config!Actors,
         \/ Config!SecretsRead(x) \/ Config!SecretsReplace(x) \/ Config!ListRead(x)
         \/ Config!YamlRead(x) \/ Config!Truncate(x)
  PROVE  FileMore'
<1>1. DOMAIN writer' = DOMAIN writer
  BY DEF Config!SecretsRead, Config!SecretsReplace, Config!ListRead, Config!YamlRead,
     Config!Truncate, Config!Step
<1>2. torn' \subseteq torn \union Config!Files
  BY DEF Config!SecretsRead, Config!SecretsReplace, Config!ListRead, Config!YamlRead,
     Config!Truncate, Config!Files
<1>3. spoiled' \subseteq spoiled \union Config!Keys
  BY LostIn DEF Config!SecretsRead, Config!SecretsReplace, Config!ListRead, Config!YamlRead,
     Config!Truncate, Config!history
<1>4. UNCHANGED <<saves, want, hand, health, changed>>
  BY DEF Config!SecretsRead, Config!SecretsReplace, Config!ListRead, Config!YamlRead,
     Config!Truncate, Config!history, Config!probing
<1> QED
  BY <1>1, <1>2, <1>3, <1>4, FileMoreKept

LEMMA FileMoreEnd ==
  ASSUME FileInv, FileMore, NEW x \in Config!Actors,
         Config!Dump(x) \/ Config!Cut(x) \/ Config!CutDump(x)
  PROVE  FileMore'
<1>1. x \in DOMAIN writer
  BY DEF Config!Dump, Config!Cut, Config!CutDump, Config!At, Config!Busy
<1>2. \/ DOMAIN writer' = DOMAIN writer /\ UNCHANGED <<want, spoiled>>
      \/ \E alone : Config!Ended(x, alone)
  <2>1. CASE Config!Dump(x)
    BY <2>1 DEF Config!Dump, Config!Step
  <2>2. CASE Config!Cut(x)
    BY <2>2 DEF Config!Cut, Config!Step
  <2>3. CASE Config!CutDump(x)
    BY <2>3 DEF Config!CutDump
  <2> QED
    BY <2>1, <2>2, <2>3
<1>3. torn' \subseteq torn \union Config!Files
  BY DEF Config!Dump, Config!Cut, Config!CutDump, Config!Files
<1>4. UNCHANGED <<saves, hand, health>>
  BY DEF Config!Dump, Config!Cut, Config!CutDump, Config!probing
<1>5. changed' \subseteq changed \union Delegated
  BY NoteIn DEF Config!Dump, Config!Cut, Config!CutDump, Config!probing
<1> QED
  BY <1>1, <1>2, <1>3, <1>4, <1>5, EndedMore, FileMoreKept

LEMMA FileMoreFails ==
  ASSUME FileInv, FileMore, NEW x \in Config!Actors, Config!Fail(x)
  PROVE  FileMore'
<1>1. x \in DOMAIN writer /\ DOMAIN writer' = Config!Others(x)
  BY DEF Config!Fail, Config!Busy, Config!Leave
<1>2. torn' \subseteq torn /\ UNCHANGED <<saves, hand, health, want>>
  BY DEF Config!Fail
<1>3. changed' \subseteq changed \union Delegated
  BY NoteIn DEF Config!Fail
<1>4. spoiled' \subseteq
        spoiled \union Config!Keys \union Config!KeysOf(writer[x]) \union Config!Touched(x, writer[x])
  BY DEF Config!Fail
<1>5. Config!KeysOf(writer[x]) \subseteq Config!Keys /\ Config!Touched(x, writer[x]) \subseteq Config!Keys
  BY <1>1, RunIs, RunKeysIn, TouchedIn DEF Shaped
<1> QED
  BY <1>1, <1>2, <1>3, <1>4, <1>5, FileMoreKept DEF Config!Others

\* The kind and the name of a run that starts.
LEMMA BlankWith ==
  ASSUME NEW pc, NEW kind, NEW u, NEW m
  PROVE  /\ [Config!Blank EXCEPT !.pc = pc, !.kind = kind].kind = kind
         /\ [Config!Blank EXCEPT !.pc = pc, !.kind = kind, !.upd = u].kind = kind
         /\ [Config!Blank EXCEPT !.pc = pc, !.kind = kind, !.name = m].name = m
         /\ [Config!Blank EXCEPT !.pc = pc, !.kind = kind, !.name = m, !.upd = u].name = m
  BY DEF Config!Blank

LEMMA FileMoreStep ==
  ASSUME FileInv, HealthInv, FileMore, [Config!Next]_fileVars
  PROVE  FileMore'
<1>1. Loop \in Config!Actors
  BY DEF Config!Actors
<1>2. CASE UNCHANGED fileVars
  BY <1>2 DEF fileVars, FileMore
<1>3. ASSUME NEW x \in Config!Actors,
             \/ \E p \in Plain, v \in Values, form \in BOOLEAN : Config!Save(x, p, v, form)
             \/ \E s \in Secret, v \in Values : Config!SaveSecret(x, s, v)
             \/ Config!Purge(x)
      PROVE  FileMore'
  <2>1. ASSUME NEW p, NEW v, NEW form, Config!Save(x, p, v, form) PROVE FileMore'
    <3>1. PICK u : Config!Begin(x, [Config!Blank EXCEPT !.pc = "load", !.kind = "save", !.upd = u])
      BY <2>1 DEF Config!Save
    <3>2. [Config!Blank EXCEPT !.pc = "load", !.kind = "save", !.upd = u].kind = "save"
      BY BlankWith
    <3>3. PICK w : Config!Begin(x, w) /\ w.kind = "save"
      BY <3>1, <3>2, Zenon
    <3> QED
      BY <3>3, BeginMore
  <2>2. ASSUME NEW s, NEW v, Config!SaveSecret(x, s, v) PROVE FileMore'
    <3>1. PICK u : Config!Begin(x, [Config!Blank EXCEPT !.pc = "secrets", !.kind = "save", !.upd = u])
      BY <2>2 DEF Config!SaveSecret
    <3>2. [Config!Blank EXCEPT !.pc = "secrets", !.kind = "save", !.upd = u].kind = "save"
      BY BlankWith
    <3>3. PICK w : Config!Begin(x, w) /\ w.kind = "save"
      BY <3>1, <3>2, Zenon
    <3> QED
      BY <3>3, BeginMore
  <2>3. ASSUME Config!Purge(x) PROVE FileMore'
    <3>1. Config!Begin(x, [Config!Blank EXCEPT !.pc = "load", !.kind = "purge"])
      BY <2>3 DEF Config!Purge
    <3>2. [Config!Blank EXCEPT !.pc = "load", !.kind = "purge"].kind = "purge"
      BY BlankWith
    <3>3. PICK w : Config!Begin(x, w) /\ w.kind = "purge"
      BY <3>1, <3>2, Zenon
    <3> QED
      BY <3>3, BeginMore
  <2> QED
    BY <1>3, <2>1, <2>2, <2>3
<1>4. ASSUME NEW m \in Delegated,
             \/ \E en \in Values, cred \in Config!Maybe : Config!Upsert(m, en, cred)
             \/ Config!Delete(m)
      PROVE  FileMore'
  <2>1. ASSUME NEW en, NEW cred, Config!Upsert(m, en, cred) PROVE FileMore'
    <3>1. PICK pc, u :
            Config!Begin(Loop, [Config!Blank EXCEPT !.pc = pc, !.kind = "upsert", !.name = m, !.upd = u])
      BY <2>1 DEF Config!Upsert
    <3>2. [Config!Blank EXCEPT !.pc = pc, !.kind = "upsert", !.name = m, !.upd = u].name = m
      BY BlankWith
    <3>3. PICK w : Config!Begin(Loop, w) /\ w.name = m
      BY <3>1, <3>2, Zenon
    <3> QED
      BY <1>1, <3>3, BeginMore
  <2>2. ASSUME Config!Delete(m) PROVE FileMore'
    <3>1. Config!Begin(Loop, [Config!Blank EXCEPT !.pc = "list", !.kind = "delete", !.name = m])
      BY <2>2 DEF Config!Delete
    <3>2. [Config!Blank EXCEPT !.pc = "list", !.kind = "delete", !.name = m].name = m
      BY BlankWith
    <3>3. PICK w : Config!Begin(Loop, w) /\ w.name = m
      BY <3>1, <3>2, Zenon
    <3> QED
      BY <1>1, <3>3, BeginMore
  <2> QED
    BY <1>4, <2>1, <2>2
<1>5. CASE Config!Open
  <2>1. UNCHANGED <<torn, writer, saves, health, want, spoiled, hand, changed>>
    BY <1>5 DEF Config!Open, Config!probing, Config!history
  <2> QED
    BY <2>1 DEF FileMore
<1>6. ASSUME NEW s \in Secret, NEW v \in Values, Config!HandEdit(s, v) PROVE FileMore'
  <2>1. /\ saves < MaxSaves /\ saves' = saves + 1 /\ hand' = hand \union {s}
        /\ want' = [want EXCEPT ![s] = <<Config!First(secrets.secret[s], v), Null>>]
        /\ UNCHANGED <<torn, writer, health, spoiled, changed>>
    BY <1>6 DEF Config!HandEdit, Config!probing
  <2>2. Config!First(secrets.secret[s], v) \in Config!Maybe /\ Null \in Config!Maybe
    BY DocParts DEF FileInv, FileType, Config!First, Config!Maybe
  <2>3. \A k \in Config!Keys : want'[k] \in Config!Maybe \X Config!Maybe
    BY <2>1, <2>2 DEF FileInv, FileType, FileMore
  <2> QED
    BY <1>1, <2>1, <2>3, FileMoreKept
<1>7. CASE Config!SweepBegins
  <2>1. UNCHANGED <<torn, writer, saves, health, want, spoiled, hand>> /\ changed' \subseteq Delegated
    BY <1>7 DEF Config!SweepBegins, Config!history
  <2> QED
    BY <2>1 DEF FileMore
<1>8. ASSUME NEW m \in Delegated, NEW v \in Values, Config!Probe(<<m, v>>) PROVE FileMore'
  <2>1. health' = [health EXCEPT ![m] = v] /\ UNCHANGED <<torn, writer, saves, want, spoiled, hand, changed>>
    BY <1>8 DEF Config!Probe, Config!history
  <2>2. \A k \in Delegated : health'[k] \in Config!Maybe
    BY <2>1 DEF HealthInv, FileMore, Config!Maybe
  <2> QED
    BY <2>1, <2>2 DEF FileMore
<1>9. CASE Config!SweepEnds
  <2>1. /\ health' = [m \in Delegated |-> IF m \in sweep.seen THEN health[m] ELSE Null]
        /\ UNCHANGED <<torn, writer, saves, want, spoiled, hand, changed>>
    BY <1>9 DEF Config!SweepEnds, Config!history
  <2>2. \A k \in Delegated : health'[k] \in Config!Maybe
    BY <2>1, EmptyParts DEF FileMore
  <2> QED
    BY <2>1, <2>2 DEF FileMore
<1> QED
  BY <1>2, <1>3, <1>4, <1>5, <1>6, <1>7, <1>8, <1>9, FileMoreRun, FileMoreEnd, FileMoreFails
     DEF Config!Next

LEMMA FileTypeHolds == FileInv /\ HealthInv /\ FileMore => Config!TypeOK
<1> SUFFICES ASSUME FileInv, HealthInv, FileMore PROVE Config!TypeOK
  OBVIOUS
<1>1. \A x \in DOMAIN writer :
        /\ writer[x].pc \in {"secrets", "replace", "list", "load", "truncate", "dump", "cut", "cutdump"}
        /\ writer[x].upd \in Config!Doc /\ writer[x].doc \in Config!Doc
  BY RunIs DEF FileRun
<1>2. yaml \in Config!Doc /\ secrets \in Config!Doc
      /\ panel \in [Plain -> Config!Maybe] \union {Null}
  BY DEF FileInv, FileType
<1>3. health \in [Delegated -> Config!Maybe] /\ want \in [Config!Keys -> Config!Maybe \X Config!Maybe]
  BY DEF FileMore, FileInv, FileType, HealthInv
<1> QED
  BY <1>1, <1>2, <1>3 DEF FileMore, Config!TypeOK

-----------------------------------------------------------------------------
(* The types of all nine *)

LEMMA SkillTypeHolds == SkillInv => Skills!TypeOK
<1> SUFFICES ASSUME SkillInv PROVE Skills!TypeOK
  OBVIOUS
<1>1. DOMAIN rows \subseteq Skills!Ids /\ \A i \in DOMAIN rows : rows[i] \in Skills!Skill
  BY DEF SkillInv, SkillType, Table, Skills!Ids
<1>2. day \in Days /\ seeds \in 0..MaxSeeds /\ emitting \in Names \union {Null}
  BY DEF SkillInv, SkillType
<1>3. seeding = Null \/ seeding \subseteq DiskNames \X Skills!Roots
  BY DEF SkillInv, SkillType, Skills!Roots
<1>4. curator.at \in {"idle", "judged", "deleting", "updating", "saved"}
      /\ DOMAIN curator.kept \subseteq DOMAIN curator.loaded
  BY DEF SkillInv, CuratorTyped, Ats, KeptFits
<1> QED
  BY <1>1, <1>2, <1>3, <1>4 DEF Skills!TypeOK

LEMMA BaseTypeHolds == BaseInv => Base!TypeOK
  BY DEF BaseInv, BaseTyped, Base!TypeOK

LEMMA PeerTypeHolds == PeerInv => Peers!TypeOK
  BY DEF PeerInv, Consults, PeerTasks, Peers!TypeOK

LEMMA PlugTypeHolds == PlugInv => Plug!TypeOK
<1> SUFFICES ASSUME PlugInv PROVE Plug!TypeOK
  OBVIOUS
<1>1. \A a \in Installers :
        /\ actor[a].pc \in {"idle", "cleared", "moved", "record", "gone", "forget", "unref", "sync"}
        /\ actor[a].copy \subseteq Plug!Entry /\ actor[a].todo \subseteq Plug!Entry
  BY DEF PlugInv, PlugType, RunRecord, RunPcs
<1> QED
  BY <1>1 DEF PlugInv, PlugType, Plug!TypeOK

OneOfNine ==
  pick \in {"skills", "turn", "base", "delegates", "peers", "remote", "code", "plugins", "config"}

\* What the nine components keep, of values and of each other's state.
StoresHold ==
  /\ OneOfNine
  /\ SkillInv
  /\ TurnInv /\ TurnTimes
  /\ BaseInv
  /\ DelegInv /\ TasksFit
  /\ PeerInv
  /\ RemoteInv /\ RemoteTyped
  /\ CodeInv /\ CodeHolds
  /\ PlugInv
  /\ FileInv /\ HealthInv /\ FileMore

LEMMA StoresHoldInit == Init => StoresHold
<1> SUFFICES ASSUME Init PROVE StoresHold
  OBVIOUS
<1>1. /\ OneOfNine /\ Turn!Init /\ Delegates!Init /\ Remote!Init /\ Code!Init /\ Config!Init
  BY DEF Init, OneOfNine
<1>2. TasksFit
  BY <1>1 DEF Delegates!Init, TasksFit
<1> QED
  BY <1>1, <1>2, SkillInit, TurnInit, TurnTimesInit, BaseInit, DelegInit, PeerInit, RemoteInit,
     RemoteTypedInit, CodeInit, CodeHoldsInit, PlugInit, FileInit, HealthInit, FileMoreInit
     DEF StoresHold

LEMMA StoresHoldStep == StoresHold /\ [Next]_vars => StoresHold'
<1> SUFFICES ASSUME StoresHold, [Next]_vars PROVE StoresHold'
  OBVIOUS
<1>1. OneOfNine'
  BY DEF StoresHold, OneOfNine, Next, vars
<1>2. SkillInv' /\ BaseInv' /\ PlugInv'
  BY SkillMoves, SkillStep, BaseMoves, BaseStep, PlugMoves, PlugStep DEF StoresHold
<1>3. (TurnInv /\ TurnTimes)'
  BY TurnMoves, TurnStep, TurnTimesStep DEF StoresHold
<1>4. (DelegInv /\ TasksFit)'
  BY DelegMoves, DelegStep, TasksFitStep DEF StoresHold
<1>5. PeerInv' /\ (RemoteInv /\ RemoteTyped)'
  BY PeerStep, RemoteMoves, RemoteStep, RemoteTypedStep DEF StoresHold
<1>6. (CodeInv /\ CodeHolds)'
  BY CodeMoves, CodeStep, CodeHoldsStep DEF StoresHold
<1>7. (FileInv /\ HealthInv /\ FileMore)'
  BY FileMoves, FileStep, HealthStep, FileMoreStep DEF StoresHold
<1> QED
  BY <1>1, <1>2, <1>3, <1>4, <1>5, <1>6, <1>7 DEF StoresHold

LEMMA StoresTypesHold == StoresHold => TypeOK
<1> SUFFICES ASSUME StoresHold PROVE TypeOK
  OBVIOUS
<1>1. /\ Skills!TypeOK /\ Turn!TypeOK /\ Base!TypeOK /\ Delegates!TypeOK /\ Peers!TypeOK
      /\ Remote!TypeOK /\ Code!TypeOK /\ Plug!TypeOK /\ Config!TypeOK
  BY SkillTypeHolds, TurnTypeHolds, BaseTypeHolds, DelegTypeHolds, PeerTypeHolds, RemoteTypeHolds,
     CodeTypeHolds, PlugTypeHolds, FileTypeHolds DEF StoresHold
<1>2. OneOfNine
  BY DEF StoresHold
<1> QED
  BY <1>1, <1>2 DEF OneOfNine, TypeOK

\* For any values of the constants: the skill index, what a model call is shown, the knowledge
\* base, the delegated tasks, the peers and the remote scheduler, the scripts, the plugins and the
\* configuration files hold only what they may: rows, blocks and ids of their kinds, counters and
\* clocks in their bounds, tasks somebody gave, runs of those who write.
THEOREM StoresTyped == Spec => []TypeOK
  BY StoresHoldInit, StoresHoldStep, StoresTypesHold, PTL DEF Spec
=============================================================================

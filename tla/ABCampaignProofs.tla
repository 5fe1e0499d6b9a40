------------------------- MODULE ABCampaignProofs ----------------------------
(***************************************************************************)
(* Why the evidence of a promotion campaign can be relied on: files of     *)
(* different names stay apart, each attempt owns its claim from the        *)
(* exclusive open on and its output likewise, and what it owns is as far   *)
(* on the disk as the last sync it made says.  A promotion is earned: a    *)
(* row that passes is the row the model computed, a request whose routes   *)
(* pass ran on its own arm, and the gates leave no room for another log.   *)
(***************************************************************************)
EXTENDS ABCampaign, FiniteSetTheorems, WellFoundedInduction, TLAPS

Camp(a)  == args[a].campaign
OutOf(a) == args[a].output

\* Reported: the attempt has ended with a decision.
Done(a) == pc[a] = "over" /\ code[a] \in {0, 2, 3}

Working == {"load", "request", "attest", "confirm",
            "verify", "temp", "sync", "replace"}

OwnsOutput(a) ==
    \/ pc[a] \in {"outFill", "outFlush", "outSettle", "settle"} \cup Working
    \/ Done(a)

OwnsClaim(a) ==
    \/ OwnsOutput(a)
    \/ pc[a] \in {"claimFill", "claimFlush", "claimSettle", "outOpen"}
    \/ log[a] # <<>>

\* How far the contents c of name n have got: seen, synced, and synced under
\* a synced name.
Shows(n, c) == dir[n] \in Inodes /\ data[dir[n]] = c
Saved(n, c) == Shows(n, c) /\ safe[dir[n]] = {c}
Firm(n, c)  == Saved(n, c) /\ disk[n] = {dir[n]}

ClaimProgress(a) ==
    /\ OwnsClaim(a) => dir[Camp(a)] \in Inodes
    /\ log[a] # <<>> => NoInode \notin disk[Camp(a)]
    /\ pc[a] = "claimFlush" => Shows(Camp(a), Claimed(a))
    /\ pc[a] = "claimSettle" => Saved(Camp(a), Claimed(a))
    /\ pc[a] = "outOpen" \/ OwnsOutput(a) => Firm(Camp(a), Claimed(a))

OutputProgress(a) ==
    /\ OwnsOutput(a) => dir[OutOf(a)] \in Inodes
    /\ pc[a] = "outFill" => Shows(OutOf(a), Blank)
    /\ pc[a] = "outFlush" => Shows(OutOf(a), Reserved(a))
    /\ pc[a] = "outSettle" => Saved(OutOf(a), Reserved(a))
    /\ pc[a] \in Working => Firm(OutOf(a), Reserved(a))
    /\ pc[a] = "settle" => Saved(OutOf(a), final[a])
    /\ Done(a) => Firm(OutOf(a), final[a])

TempProgress(a) ==
    /\ pc[a] = "sync" => Shows(a, final[a])
    /\ pc[a] = "replace" => Saved(a, final[a])

Progress(a) == ClaimProgress(a) /\ OutputProgress(a) /\ TempProgress(a)

\* The decision is made once, and the exit status tells it.
Verdict(a) ==
    /\ pc[a] \notin {"verify", "temp", "sync", "replace", "settle", "over", "dead"}
          => final[a] = Nothing
    /\ final[a] # Nothing => final[a] \in Reports /\ final[a].by = a
    /\ pc[a] \in {"verify", "temp", "sync", "replace", "settle"} \/ Done(a) =>
          /\ final[a] # Nothing
          /\ code[a] = 0 => final[a].decision = "PROMOTION PASS"

Exclusive ==
    \A a, b \in Attempts : a # b =>
        /\ Camp(a) = Camp(b) => ~(OwnsClaim(a) /\ OwnsClaim(b))
        /\ OutOf(a) = OutOf(b) => ~(OwnsOutput(a) /\ OwnsOutput(b))

\* The files a name may lead to, now or after a crash, and what is in them.
Entries(n)  == disk[n] \cup {dir[n]}
Contents(i) == safe[i] \cup {data[i]}

\* The output a name belongs to: a temporary file's is its attempt's.
Place(n) == IF n \in Attempts THEN OutOf(n) ELSE n

\* What may ever be read under name n.
Texts(n) ==
    {Blank, Torn}
    \cup {Claimed(a) : a \in {b \in Attempts : Camp(b) = n}}
    \cup {Reserved(a) : a \in {b \in Attempts : OutOf(b) = Place(n)}}
    \cup {final[a] : a \in {b \in Attempts : final[b] # Nothing /\ OutOf(b) = Place(n)}}

Sound ==
    \A n \in Names : \A i \in Inodes :
        i \in Entries(n) => Contents(i) \subseteq Texts(n)

\* Two names lead to one file only across a rename that is not yet synced.
Apart ==
    \A n, m \in Names : \A i \in Inodes :
        n # m /\ i \in Entries(n) /\ i \in Entries(m) =>
            \/ n \in Attempts /\ m = OutOf(n)
            \/ m \in Attempts /\ n = OutOf(m)

IInv == /\ TypeOK /\ Sound /\ Apart /\ Exclusive
        /\ \A a \in Attempts : Progress(a) /\ Verdict(a)

------------------------------------------------------------------------------
(* Names and papers. *)

LEMMA NamesApart ==
    /\ Attempts \subseteq Names /\ Campaigns \subseteq Names /\ Outputs \subseteq Names
    /\ Attempts \cap Campaigns = {} /\ Attempts \cap Outputs = {}
    /\ Campaigns \cap Outputs = {}
    /\ Names = Attempts \cup Campaigns \cup Outputs
    /\ NoInode \notin Inodes
    /\ Blank # Torn /\ Torn # Absent /\ Absent # Blank
    /\ Blank \notin Reports /\ Torn \notin Reports /\ Absent \notin Reports
BY CampaignAssumption

LEMMA Papers ==
    ASSUME NEW a \in Attempts
    PROVE  /\ Claimed(a) = [by |-> a, status |-> "campaign_claimed", decision |-> "none"]
           /\ Reserved(a) = [by |-> a, status |-> "attempt_reserved", decision |-> "INCONCLUSIVE"]
           /\ Claimed(a) \in Reports /\ Reserved(a) \in Reports
PROOF
  <1>1. Claimed(a) = [by |-> a, status |-> "campaign_claimed", decision |-> "none"]
    BY DEF Claimed, Paper
  <1>2. Reserved(a) = [by |-> a, status |-> "attempt_reserved", decision |-> "INCONCLUSIVE"]
    BY DEF Reserved, Paper
  <1> QED BY <1>1, <1>2 DEF Reports

LEMMA Verdicts ==
    ASSUME NEW nll, NEW kl, NEW integrity
    PROVE  Decision(nll, kl, integrity) \in {"FAIL", "INCONCLUSIVE", "PROMOTION PASS"}
BY DEF Decision

LEMMA CampNames ==
    ASSUME TypeOK, NEW a \in Attempts
    PROVE  /\ Camp(a) \in Campaigns /\ OutOf(a) \in Outputs
           /\ Camp(a) \in Names /\ OutOf(a) \in Names /\ a \in Names
           /\ Camp(a) \notin Attempts /\ OutOf(a) \notin Attempts
           /\ Camp(a) \notin Outputs /\ OutOf(a) \notin Campaigns
BY NamesApart DEF TypeOK, Camp, OutOf

------------------------------------------------------------------------------
(* What the calls of the operating system do to names and files. *)

FsTypeOK ==
    /\ dir \in [Names -> Inodes \cup {NoInode}]
    /\ disk \in [Names -> SUBSET (Inodes \cup {NoInode})]
    /\ data \in [Inodes -> Reports \cup {Blank, Torn}]
    /\ safe \in [Inodes -> SUBSET (Reports \cup {Blank, Torn})]

\* What a name shows stays, and is no further from the disk than before.
Steady(n) ==
    /\ dir'[n] = dir[n] /\ disk'[n] \in {disk[n], {dir[n]}}
    /\ dir[n] \in Inodes =>
           /\ data'[dir[n]] = data[dir[n]]
           /\ safe'[dir[n]] \in {safe[dir[n]], {data[dir[n]]}}

\* Nothing new can be read, except under a file that is new itself.
Shrinks ==
    /\ \A n \in Names : Entries(n)' \subseteq Entries(n) \cup {NoInode}
    /\ \A i \in Inodes : Contents(i)' \subseteq Contents(i)

LEMMA Fresh ==
    ASSUME Unused({}) # {}
    PROVE  /\ FreshInode({}) \in Inodes
           /\ \A n \in Names : FreshInode({}) \notin Entries(n)
PROOF
  <1>1. FreshInode({}) \in Unused({})
    BY DEF FreshInode
  <1> QED BY <1>1 DEF Unused, Entries

LEMMA CreateEffect ==
    ASSUME FsTypeOK, NEW n \in Names, NEW i \in Inodes,
           NEW c \in Reports \cup {Blank, Torn},
           NEW may \in SUBSET (Reports \cup {Blank, Torn}),
           \A m \in Names : i \notin Entries(m),
           CreateAs(n, i, c, may)
    PROVE  /\ FsTypeOK'
           /\ \A m \in Names : m # n => Steady(m) /\ Entries(m)' = Entries(m)
           /\ Entries(n)' \subseteq Entries(n) \cup {i}
           /\ \A j \in Inodes : j # i => Contents(j)' = Contents(j)
           /\ Contents(i)' = may \cup {c}
           /\ dir'[n] = i /\ data'[i] = c
PROOF
  <1> USE DEF FsTypeOK, CreateAs
  <1>1. FsTypeOK'
    OBVIOUS
  <1>2. ASSUME NEW m \in Names, m # n
        PROVE  /\ dir'[m] = dir[m] /\ disk'[m] = disk[m]
               /\ dir[m] # i
    BY <1>2 DEF Entries
  <1>3. ASSUME NEW j \in Inodes, j # i
        PROVE  data'[j] = data[j] /\ safe'[j] = safe[j]
    BY <1>3
  <1>4. dir'[n] = i /\ data'[i] = c /\ safe'[i] = may
        /\ disk'[n] = disk[n] \cup {i}
    OBVIOUS
  <1> QED BY <1>1, <1>2, <1>3, <1>4 DEF Steady, Entries, Contents

LEMMA WriteEffect ==
    ASSUME FsTypeOK, NEW i \in Inodes, NEW c \in Reports \cup {Blank, Torn},
           WriteFile(i, c)
    PROVE  /\ FsTypeOK'
           /\ dir' = dir /\ disk' = disk /\ data'[i] = c
           /\ \A m \in Names : dir[m] # i => Steady(m)
           /\ \A m : Entries(m)' = Entries(m)
           /\ \A j \in Inodes : j # i => Contents(j)' = Contents(j)
           /\ Contents(i)' \subseteq Contents(i) \cup {c, Torn}
PROOF
  <1> USE DEF FsTypeOK, WriteFile
  <1>1. FsTypeOK'
    OBVIOUS
  <1>2. ASSUME NEW j \in Inodes, j # i
        PROVE  data'[j] = data[j] /\ safe'[j] = safe[j]
    BY <1>2
  <1>3. data'[i] = c /\ safe'[i] = safe[i] \cup {c, Torn}
    OBVIOUS
  <1> QED BY <1>1, <1>2, <1>3 DEF Steady, Entries, Contents

LEMMA SyncFileEffect ==
    ASSUME FsTypeOK, NEW i \in Inodes, SyncFile(i)
    PROVE  /\ FsTypeOK' /\ Shrinks
           /\ dir' = dir /\ disk' = disk /\ data' = data
           /\ safe'[i] = {data[i]}
           /\ \A m \in Names : Steady(m)
PROOF
  <1> USE DEF FsTypeOK, SyncFile
  <1>1. FsTypeOK'
    OBVIOUS
  <1>2. \A j \in Inodes : safe'[j] = IF j = i THEN {data[i]} ELSE safe[j]
    OBVIOUS
  <1> QED BY <1>1, <1>2 DEF Steady, Entries, Contents, Shrinks

LEMMA ReplaceEffect ==
    ASSUME FsTypeOK, NEW old \in Names, NEW new \in Names, old # new,
           Replace(old, new)
    PROVE  /\ FsTypeOK'
           /\ data' = data /\ safe' = safe
           /\ dir'[new] = dir[old] /\ dir'[old] = NoInode
           /\ \A m \in Names : m \notin {old, new} => Steady(m) /\ Entries(m)' = Entries(m)
           /\ Entries(new)' \subseteq Entries(new) \cup {dir[old]}
           /\ Entries(old)' \subseteq Entries(old) \cup {NoInode}
PROOF
  <1> USE DEF FsTypeOK, Replace
  <1>1. FsTypeOK'
    OBVIOUS
  <1>2. \A m \in Names :
            /\ dir'[m] = IF m = old THEN NoInode ELSE IF m = new THEN dir[old] ELSE dir[m]
            /\ disk'[m] = IF m = old THEN disk[m] \cup {NoInode}
                          ELSE IF m = new THEN disk[m] \cup {dir[old]} ELSE disk[m]
    OBVIOUS
  <1> QED BY <1>1, <1>2 DEF Steady, Entries

LEMMA UnlinkEffect ==
    ASSUME FsTypeOK, NEW n \in Names, Unlink(n)
    PROVE  /\ FsTypeOK' /\ Shrinks
           /\ data' = data
           /\ \A m \in Names : m # n => Steady(m) /\ dir'[m] = dir[m]
PROOF
  <1> USE DEF FsTypeOK, Unlink
  <1>1. FsTypeOK'
    OBVIOUS
  <1>2. \A m \in Names :
            /\ dir'[m] = IF m = n THEN NoInode ELSE dir[m]
            /\ disk'[m] = IF m = n THEN disk[m] \cup {NoInode} ELSE disk[m]
    OBVIOUS
  <1> QED BY <1>1, <1>2 DEF Steady, Entries, Contents, Shrinks

LEMMA SyncDirEffect ==
    ASSUME FsTypeOK, SyncDir
    PROVE  /\ FsTypeOK' /\ Shrinks
           /\ dir' = dir /\ data' = data /\ safe' = safe
           /\ \A m \in Names : disk'[m] = {dir[m]}
           /\ \A m \in Names : Steady(m)
PROOF
  <1> USE DEF FsTypeOK, SyncDir
  <1>1. FsTypeOK'
    OBVIOUS
  <1> QED BY <1>1 DEF Steady, Entries, Contents, Shrinks

LEMMA QuietEffect ==
    ASSUME FsTypeOK, UNCHANGED fsvars
    PROVE  /\ FsTypeOK' /\ Shrinks
           /\ \A m \in Names : Steady(m)
BY DEF FsTypeOK, fsvars, Steady, Entries, Contents, Shrinks

\* A crash leaves of every name and file one thing it could be.
LEMMA CrashEffect ==
    ASSUME FsTypeOK, HostCrash
    PROVE  /\ FsTypeOK' /\ Shrinks
           /\ \A n \in Names :
                 /\ dir'[n] \in Entries(n) /\ disk'[n] = {dir'[n]}
                 /\ disk[n] = {dir[n]} => dir'[n] = dir[n]
                 /\ NoInode \notin disk[n] => dir'[n] \in Inodes
           /\ \A i \in Inodes :
                 /\ safe'[i] = {data'[i]}
                 /\ safe[i] = {data[i]} => data'[i] = data[i]
PROOF
  <1> DEFINE loose == {n \in Names : disk[n] # {dir[n]}}
             unsaved == {i \in Inodes : safe[i] # {data[i]}}
  <1>1. PICK e \in [loose -> UNION {disk[n] : n \in loose}],
             f \in [unsaved -> UNION {safe[i] : i \in unsaved}] :
          /\ \A n \in loose : e[n] \in disk[n]
          /\ \A i \in unsaved : f[i] \in safe[i]
          /\ dir' = [n \in Names |-> IF n \in loose THEN e[n] ELSE dir[n]]
          /\ data' = [i \in Inodes |-> IF i \in unsaved THEN f[i] ELSE data[i]]
          /\ disk' = [n \in Names |-> {dir'[n]}]
          /\ safe' = [i \in Inodes |-> {data'[i]}]
    BY DEF HostCrash
  <1>2. ASSUME NEW n \in Names
        PROVE  /\ disk'[n] = {dir'[n]}
               /\ IF disk[n] # {dir[n]} THEN dir'[n] \in disk[n] ELSE dir'[n] = dir[n]
    BY <1>1
  <1>3. ASSUME NEW i \in Inodes
        PROVE  /\ safe'[i] = {data'[i]}
               /\ IF safe[i] # {data[i]} THEN data'[i] \in safe[i] ELSE data'[i] = data[i]
    BY <1>1
  <1>4. dir' \in [Names -> Inodes \cup {NoInode}]
    <2>1. dir' = [n \in Names |-> dir'[n]]
      BY <1>1
    <2>2. \A n \in Names : dir'[n] \in Inodes \cup {NoInode}
      BY <1>2 DEF FsTypeOK
    <2> QED BY <2>1, <2>2
  <1>5. data' \in [Inodes -> Reports \cup {Blank, Torn}]
    <2>1. data' = [i \in Inodes |-> data'[i]]
      BY <1>1
    <2>2. \A i \in Inodes : data'[i] \in Reports \cup {Blank, Torn}
      BY <1>3 DEF FsTypeOK
    <2> QED BY <2>1, <2>2
  <1>6. /\ disk' \in [Names -> SUBSET (Inodes \cup {NoInode})]
        /\ safe' \in [Inodes -> SUBSET (Reports \cup {Blank, Torn})]
    BY <1>1, <1>4, <1>5
  <1>7. FsTypeOK'
    BY <1>4, <1>5, <1>6 DEF FsTypeOK
  <1>8. Shrinks
    BY <1>2, <1>3 DEF Shrinks, Entries, Contents
  <1>9. \A n \in Names :
            /\ dir'[n] \in Entries(n) /\ disk'[n] = {dir'[n]}
            /\ disk[n] = {dir[n]} => dir'[n] = dir[n]
            /\ NoInode \notin disk[n] => dir'[n] \in Inodes
    <2> SUFFICES ASSUME NEW n \in Names
                 PROVE  /\ dir'[n] \in Entries(n) /\ disk'[n] = {dir'[n]}
                        /\ disk[n] = {dir[n]} => dir'[n] = dir[n]
                        /\ NoInode \notin disk[n] => dir'[n] \in Inodes
      OBVIOUS
    <2>1. dir'[n] \in Inodes \cup {NoInode} /\ dir[n] \in Inodes \cup {NoInode}
          /\ disk[n] \subseteq Inodes \cup {NoInode}
      BY <1>4 DEF FsTypeOK
    <2> QED BY <1>2, <2>1 DEF Entries
  <1> QED BY <1>3, <1>7, <1>8, <1>9

------------------------------------------------------------------------------
(* Soundness and separation of the files. *)

LEMMA FsTypes == TypeOK => FsTypeOK
BY DEF TypeOK, FsTypeOK

LEMMA NoText ==
    ASSUME NEW n
    PROVE  Blank \in Texts(n) /\ Torn \in Texts(n)
BY DEF Texts

\* A decision that stands is not taken back, so nothing written becomes wrong.
LEMMA TextsGrow ==
    ASSUME args' = args, NEW n,
           \A a \in Attempts : final[a] # Nothing => final'[a] = final[a]
    PROVE  Texts(n) \subseteq Texts(n)'
PROOF
  <1>1. \A a : Camp(a)' = Camp(a) /\ OutOf(a)' = OutOf(a)
    BY DEF Camp, OutOf
  <1>2. Place(n)' = Place(n)
    BY DEF Place, OutOf
  <1>3. \A a \in {b \in Attempts : final[b] # Nothing /\ OutOf(b) = Place(n)} :
            /\ a \in {b \in Attempts : final'[b] # Nothing /\ OutOf(b)' = Place(n)'}
            /\ final'[a] = final[a]
    BY <1>1, <1>2
  <1> QED BY <1>1, <1>2, <1>3 DEF Texts

LEMMA ShrinkKeeps ==
    ASSUME TypeOK, Sound, Apart, Shrinks, args' = args,
           \A n \in Names : Texts(n) \subseteq Texts(n)'
    PROVE  Sound' /\ Apart'
PROOF
  <1>1. \A n \in Names : \A i \in Inodes : i \in Entries(n)' => i \in Entries(n)
    BY NamesApart DEF Shrinks
  <1>2. Sound'
    BY <1>1 DEF Sound, Shrinks
  <1>3. Apart'
    BY <1>1 DEF Apart, OutOf
  <1> QED BY <1>2, <1>3

LEMMA CreateKeeps ==
    ASSUME TypeOK, Sound, Apart, args' = args,
           \A n \in Names : Texts(n) \subseteq Texts(n)',
           NEW n \in Names, NEW i \in Inodes,
           \A m \in Names : i \notin Entries(m),
           \A m \in Names : m # n => Entries(m)' = Entries(m),
           Entries(n)' \subseteq Entries(n) \cup {i},
           \A j \in Inodes : j # i => Contents(j)' = Contents(j),
           Contents(i)' \subseteq Texts(n)'
    PROVE  Sound' /\ Apart'
PROOF
  <1>1. ASSUME NEW m \in Names, NEW j \in Inodes, j \in Entries(m)'
        PROVE  \/ j # i /\ j \in Entries(m)
               \/ j = i /\ m = n
    BY <1>1
  <1>2. Sound'
    BY <1>1 DEF Sound
  <1>3. Apart'
    BY <1>1 DEF Apart, OutOf
  <1> QED BY <1>2, <1>3

LEMMA WriteKeeps ==
    ASSUME TypeOK, Sound, Apart, args' = args,
           \A n \in Names : Texts(n) \subseteq Texts(n)',
           NEW i \in Inodes, NEW c,
           \A m \in Names : i \in Entries(m) => c \in Texts(m)',
           \A m : Entries(m)' = Entries(m),
           \A j \in Inodes : j # i => Contents(j)' = Contents(j),
           Contents(i)' \subseteq Contents(i) \cup {c, Torn}
    PROVE  Sound' /\ Apart'
PROOF
  <1>1. \A m \in Names : Torn \in Texts(m)'
    BY DEF Texts
  <1>2. Sound'
    BY <1>1 DEF Sound
  <1>3. Apart'
    BY DEF Apart, OutOf
  <1> QED BY <1>2, <1>3

LEMMA RenameKeeps ==
    ASSUME TypeOK, Sound, Apart, args' = args,
           \A n \in Names : Texts(n) \subseteq Texts(n)',
           NEW b \in Attempts, NEW n \in Names, n = OutOf(b),
           \A m \in Names : m \notin {b, n} => Entries(m)' = Entries(m),
           Entries(n)' \subseteq Entries(n) \cup {dir[b]},
           Entries(b)' \subseteq Entries(b) \cup {NoInode},
           \A j \in Inodes : Contents(j)' = Contents(j)
    PROVE  Sound' /\ Apart'
PROOF
  <1>1. n \in Outputs /\ n \notin Attempts /\ b \in Names
    BY CampNames
  <1>2. ASSUME NEW m \in Names, NEW j \in Inodes, j \in Entries(m)'
        PROVE  j \in Entries(m) \/ (m = n /\ j \in Entries(b))
    BY <1>2, NamesApart DEF Entries
  <1>3. Texts(b) \subseteq Texts(n)
    <2>1. Place(b) = Place(n)
      BY <1>1 DEF Place
    <2>2. \A a \in Attempts : Camp(a) # b
      BY CampNames
    <2> QED BY <2>1, <2>2 DEF Texts
  <1>4. Sound'
    BY <1>1, <1>2, <1>3 DEF Sound
  <1>5. \A m \in Attempts : OutOf(m)' = OutOf(m) /\ OutOf(m) \notin Attempts
    BY CampNames DEF OutOf
  <1>6. Apart'
    <2> SUFFICES ASSUME NEW m \in Names, NEW k \in Names, NEW j \in Inodes,
                        m # k, j \in Entries(m)', j \in Entries(k)'
                 PROVE  \/ m \in Attempts /\ k = OutOf(m)
                        \/ k \in Attempts /\ m = OutOf(k)
      BY <1>5 DEF Apart
    <2>1. CASE j \in Entries(m) /\ j \in Entries(k)
      BY <2>1 DEF Apart
    <2>2. CASE m = n /\ j \in Entries(b)
      <3>1. k = b \/ (k # b /\ j \in Entries(k))
        BY <1>2, <2>2
      <3>2. k # b => OutOf(b) = k \/ (k \in Attempts /\ OutOf(k) = b)
        BY <1>1, <2>2, <3>1 DEF Apart
      <3> QED BY <1>5, <2>2, <3>1, <3>2
    <2>3. CASE k = n /\ j \in Entries(b)
      <3>1. m = b \/ (m # b /\ j \in Entries(m))
        BY <1>2, <2>3
      <3>2. m # b => OutOf(b) = m \/ (m \in Attempts /\ OutOf(m) = b)
        BY <1>1, <2>3, <3>1 DEF Apart
      <3> QED BY <1>5, <2>3, <3>1, <3>2
    <2> QED BY <1>2, <2>1, <2>2, <2>3
  <1> QED BY <1>4, <1>6

------------------------------------------------------------------------------
(* A step of one attempt leaves the others where they were. *)

OthersSame(b) ==
    /\ args' = args
    /\ \A a \in Attempts : a # b =>
           /\ pc'[a] = pc[a] /\ code'[a] = code[a]
           /\ final'[a] = final[a] /\ log'[a] = log[a]

\* The step of b disturbs only names that b owns, or nobody does.
Minds(b) ==
    \A n \in Names :
        \/ Steady(n)
        \/ n = b
        \/ n = Camp(b) /\ (OwnsClaim(b) \/ dir[n] = NoInode)
        \/ n = OutOf(b) /\ (OwnsOutput(b) \/ dir[n] = NoInode)
        \/ n \in Attempts /\ OutOf(n) = OutOf(b) /\ OwnsOutput(b)

LEMMA OthersKeep ==
    ASSUME TypeOK, Exclusive, NEW b \in Attempts, OthersSame(b), Minds(b),
           NEW a \in Attempts, a # b, Progress(a)
    PROVE  Progress(a)'
PROOF
  <1> DEFINE n == Camp(a)
             m == OutOf(a)
  <1>1. /\ n \in Names /\ m \in Names /\ a \in Names
        /\ n \notin Attempts /\ m \notin Attempts /\ n # m
        /\ Camp(b) # m /\ OutOf(b) # n /\ Camp(b) # a /\ OutOf(b) # a
    BY CampNames, NamesApart
  <1>2. /\ OwnsClaim(a) => dir[n] \in Inodes
        /\ OwnsOutput(a) => dir[m] \in Inodes
    BY DEF Progress, ClaimProgress, OutputProgress
  <1>3. OwnsClaim(a) => Steady(n)
    BY <1>1, <1>2, NamesApart DEF Minds, Exclusive
  <1>4. OwnsOutput(a) => Steady(m)
    BY <1>1, <1>2, NamesApart DEF Minds, Exclusive
  <1>5. pc[a] \in {"sync", "replace"} => Steady(a)
    <2>1. pc[a] \in {"sync", "replace"} => OwnsOutput(a)
      BY DEF OwnsOutput, Working
    <2> QED BY <1>1, <2>1 DEF Minds, Exclusive
  <1>6. /\ pc'[a] = pc[a] /\ code'[a] = code[a] /\ final'[a] = final[a] /\ log'[a] = log[a]
        /\ args' = args
    BY DEF OthersSame
  <1>7. /\ OwnsClaim(a)' = OwnsClaim(a) /\ OwnsOutput(a)' = OwnsOutput(a) /\ Done(a)' = Done(a)
    BY <1>6 DEF OwnsClaim, OwnsOutput, Done
  <1>8. OwnsOutput(a) => OwnsClaim(a)
    BY DEF OwnsClaim
  <1>9. ClaimProgress(a)'
    <2>1. CASE ~OwnsClaim(a)
      BY <1>6, <1>7, <1>8, <2>1 DEF ClaimProgress, OwnsClaim
    <2>2. CASE OwnsClaim(a)
      <3>1. Steady(n) /\ dir[n] \in Inodes
        BY <1>2, <1>3, <2>2
      <3>2. ClaimProgress(a)
        BY DEF Progress
      <3> QED BY <1>6, <1>7, <3>1, <3>2, NamesApart
              DEF ClaimProgress, Shows, Saved, Firm, Steady, Camp
    <2> QED BY <2>1, <2>2
  <1>10. OutputProgress(a)'
    <2>1. CASE ~OwnsOutput(a)
      BY <1>6, <1>7, <2>1 DEF OutputProgress, OwnsOutput
    <2>2. CASE OwnsOutput(a)
      <3>1. Steady(m) /\ dir[m] \in Inodes
        BY <1>2, <1>4, <2>2
      <3>2. OutputProgress(a)
        BY DEF Progress
      <3> QED BY <1>6, <1>7, <3>1, <3>2
              DEF OutputProgress, Shows, Saved, Firm, Steady, OutOf
    <2> QED BY <2>1, <2>2
  <1>11. TempProgress(a)'
    <2>1. TempProgress(a)
      BY DEF Progress
    <2> QED BY <1>5, <1>6, <2>1 DEF TempProgress, Shows, Saved, Steady
  <1> QED BY <1>9, <1>10, <1>11 DEF Progress

LEMMA ExclusiveKeeps ==
    ASSUME TypeOK, Exclusive, NEW b \in Attempts, OthersSame(b),
           \A a \in Attempts : Progress(a),
           OwnsClaim(b)' => OwnsClaim(b) \/ dir[Camp(b)] = NoInode,
           OwnsOutput(b)' => OwnsOutput(b) \/ dir[OutOf(b)] = NoInode
    PROVE  Exclusive'
PROOF
  <1>1. ASSUME NEW a \in Attempts, a # b
        PROVE  /\ OwnsClaim(a)' = OwnsClaim(a) /\ OwnsOutput(a)' = OwnsOutput(a)
               /\ Camp(a) = Camp(b) => ~(OwnsClaim(a) /\ OwnsClaim(b)')
               /\ OutOf(a) = OutOf(b) => ~(OwnsOutput(a) /\ OwnsOutput(b)')
    <2>1. OwnsClaim(a)' = OwnsClaim(a) /\ OwnsOutput(a)' = OwnsOutput(a)
      BY <1>1 DEF OthersSame, OwnsClaim, OwnsOutput, Done
    <2>2. /\ OwnsClaim(a) => dir[Camp(a)] \in Inodes
          /\ OwnsOutput(a) => dir[OutOf(a)] \in Inodes
      BY DEF Progress, ClaimProgress, OutputProgress
    <2> QED BY <1>1, <2>1, <2>2, NamesApart DEF Exclusive
  <1>2. \A a : Camp(a)' = Camp(a) /\ OutOf(a)' = OutOf(a)
    BY DEF OthersSame, Camp, OutOf
  <1>3. ASSUME NEW a \in Attempts, NEW c \in Attempts, a # c
        PROVE  /\ Camp(a) = Camp(c) => ~(OwnsClaim(a)' /\ OwnsClaim(c)')
               /\ OutOf(a) = OutOf(c) => ~(OwnsOutput(a)' /\ OwnsOutput(c)')
    BY <1>1, <1>3 DEF Exclusive
  <1> QED BY <1>2, <1>3 DEF Exclusive

\* What is left to show of a step of b.
LEMMA Assemble ==
    ASSUME IInv, NEW b \in Attempts, OthersSame(b), TypeOK', Sound', Apart', Minds(b),
           OwnsClaim(b)' => OwnsClaim(b) \/ dir[Camp(b)] = NoInode,
           OwnsOutput(b)' => OwnsOutput(b) \/ dir[OutOf(b)] = NoInode,
           Progress(b)', Verdict(b)'
    PROVE  IInv'
PROOF
  <1>1. \A a \in Attempts : Progress(a)'
    BY OthersKeep DEF IInv
  <1>2. Exclusive'
    BY ExclusiveKeeps DEF IInv
  <1>3. ASSUME NEW a \in Attempts
        PROVE  Verdict(a)'
    <2>1. CASE a = b
      BY <2>1
    <2>2. CASE a # b
      BY <2>2, ZenonT(30) DEF IInv, OthersSame, Verdict, Done
    <2> QED BY <2>1, <2>2
  <1> QED BY <1>1, <1>2, <1>3 DEF IInv

------------------------------------------------------------------------------
(* Steps that leave the files alone. *)

LeftType == left \in [mishaps : Nat, errors : Nat, crashes : Nat]

LEMMA SpendType ==
    ASSUME LeftType, Spend("mishaps") \/ Spend("errors") \/ Spend("crashes")
    PROVE  LeftType'
BY DEF LeftType, Spend

\* A step of b that only moves it, and perhaps sets its exit status.
LEMMA Moved ==
    ASSUME TypeOK, FsTypeOK', NEW b \in Attempts, NEW to \in Labels, NEW k \in {-1, 0, 1, 2, 3},
           pc' = [pc EXCEPT ![b] = to], code' \in {code, [code EXCEPT ![b] = k]},
           UNCHANGED <<final, log, pilot, args>>, LeftType'
    PROVE  /\ TypeOK' /\ OthersSame(b)
           /\ pc'[b] = to /\ code'[b] \in {code[b], k}
           /\ final'[b] = final[b] /\ log'[b] = log[b]
           /\ \A n : Texts(n) \subseteq Texts(n)'
PROOF
  <1>1. /\ pc' \in [Attempts -> Labels] /\ code' \in [Attempts -> {-1, 0, 1, 2, 3}]
        /\ pc'[b] = to /\ code'[b] \in {code[b], k}
        /\ \A a \in Attempts : a # b => pc'[a] = pc[a] /\ code'[a] = code[a]
    BY ZenonT(30) DEF TypeOK
  <1>2. TypeOK'
    BY <1>1 DEF TypeOK, FsTypeOK, LeftType
  <1> QED BY <1>1, <1>2, TextsGrow DEF OthersSame

\* An attempt gives up, or has nothing to give up yet; or it goes on working.
LEMMA QuietMove ==
    ASSUME IInv, NEW b \in Attempts, UNCHANGED fsvars, OthersSame(b), TypeOK',
           \A n : Texts(n) \subseteq Texts(n)', Verdict(b)',
           \/ /\ \/ pc'[b] \in {"claimOpen", "dead"}
                 \/ pc'[b] = "over" /\ code'[b] = 1
              /\ log'[b] = log[b]
           \/ /\ pc[b] \in Working
              /\ pc'[b] \in {"request", "attest", "confirm", "verify", "temp"}
    PROVE  IInv'
PROOF
  <1>1. TypeOK /\ Sound /\ Apart /\ Progress(b) /\ args' = args
    BY DEF IInv, OthersSame
  <1>2. Shrinks /\ \A n \in Names : Steady(n)
    BY <1>1, FsTypes, QuietEffect
  <1>3. Sound' /\ Apart'
    BY <1>1, <1>2, ShrinkKeeps
  <1>4. Minds(b)
    BY <1>2 DEF Minds
  <1>5. /\ OwnsClaim(b)' => OwnsClaim(b)
        /\ OwnsOutput(b)' => OwnsOutput(b)
        /\ Progress(b)'
    <2>1. CASE /\ pc'[b] \in {"claimOpen", "dead"} \/ (pc'[b] = "over" /\ code'[b] = 1)
               /\ log'[b] = log[b]
      <3>1. ~OwnsOutput(b)' /\ ~Done(b)'
        BY <2>1 DEF OwnsOutput, Done, Working
      <3>2. OwnsClaim(b)' => log[b] # <<>> /\ OwnsClaim(b)
        BY <2>1, <3>1 DEF OwnsClaim
      <3>3. ClaimProgress(b)'
        BY <1>1, <2>1, <3>1, <3>2 DEF Progress, ClaimProgress, Camp, fsvars
      <3>4. OutputProgress(b)' /\ TempProgress(b)'
        BY <2>1, <3>1 DEF OutputProgress, TempProgress, Working
      <3> QED BY <3>1, <3>2, <3>3, <3>4 DEF Progress
    <2>2. CASE /\ pc[b] \in Working
               /\ pc'[b] \in {"request", "attest", "confirm", "verify", "temp"}
      <3>1. /\ OwnsOutput(b) /\ OwnsClaim(b) /\ ~Done(b)'
            /\ Firm(Camp(b), Claimed(b)) /\ Firm(OutOf(b), Reserved(b))
        BY <1>1, <2>2 DEF Progress, ClaimProgress, OutputProgress, OwnsOutput, OwnsClaim, Done
      <3>2. ClaimProgress(b)'
        BY <1>1, <2>2, <3>1, NamesApart
           DEF ClaimProgress, Firm, Saved, Shows, Camp, fsvars, Working
      <3>3. OutputProgress(b)' /\ TempProgress(b)'
        BY <1>1, <2>2, <3>1
           DEF OutputProgress, TempProgress, Firm, Saved, Shows, OutOf, fsvars, Working
      <3> QED BY <3>1, <3>2, <3>3 DEF Progress
    <2> QED BY <2>1, <2>2
  <1> QED BY <1>3, <1>4, <1>5, Assemble

\* One step of loading and measuring: on to the next, or a decision.
Decides(b) ==
    \E status \in {"gate_failed", "inconclusive", "ok"},
       decision \in {"FAIL", "INCONCLUSIVE", "PROMOTION PASS"}, n \in {0, 1, 2, 3} :
        /\ Publish(b, Paper(b, status, decision), n)
        /\ n = 0 => decision = "PROMOTION PASS"

Measures(b) ==
    /\ pc[b] \in {"load", "request", "attest", "confirm"}
    /\ \/ /\ \E to \in {"request", "attest", "confirm"} : Goto(b, to)
          /\ UNCHANGED <<final, code>>
       \/ Decides(b)
    /\ \/ log' = log
       \/ \E e : log' = [log EXCEPT ![b] = e]
    /\ \/ pilot' = pilot
       \/ \E d \in {"FAIL", "INCONCLUSIVE", "PROMOTION PASS"} :
              pilot' = [pilot EXCEPT ![b] = d]
    /\ UNCHANGED fsvars

LEMMA RaiseDecides ==
    ASSUME NEW b \in Attempts, Raise(b) PROVE Decides(b)
PROOF
  <1>1. Publish(b, Paper(b, "gate_failed", "FAIL"), 1)
    BY DEF Raise
  <1>2. /\ "gate_failed" \in {"gate_failed", "inconclusive", "ok"}
        /\ "FAIL" \in {"FAIL", "INCONCLUSIVE", "PROMOTION PASS"}
        /\ 1 \in {0, 1, 2, 3} /\ 1 # 0
    OBVIOUS
  <1> QED BY <1>1, <1>2, ZenonT(30) DEF Decides

LEMMA ReportDecides ==
    ASSUME NEW b \in Attempts, NEW d \in {"FAIL", "INCONCLUSIVE", "PROMOTION PASS"},
           Report(b, d)
    PROVE  Decides(b)
PROOF
  <1>1. Publish(b, Paper(b, Status(d), d), ExitOf(d))
    BY DEF Report
  <1>2. Status(d) \in {"gate_failed", "inconclusive", "ok"}
    BY DEF Status
  <1>3. /\ ExitOf(d) \in {0, 2, 3}
        /\ ExitOf(d) = 0 => d = "PROMOTION PASS"
    <2>1. CASE d = "FAIL"
      BY <2>1 DEF ExitOf
    <2>2. CASE d = "INCONCLUSIVE"
      BY <2>2 DEF ExitOf
    <2>3. CASE d = "PROMOTION PASS"
      BY <2>3 DEF ExitOf
    <2> QED BY <2>1, <2>2, <2>3
  <1>4. ExitOf(d) \in {0, 1, 2, 3}
    BY <1>3
  <1> QED BY <1>1, <1>2, <1>3, <1>4, ZenonT(30) DEF Decides

LEMMA LoadMeasures ==
    ASSUME NEW b \in Attempts, Load(b) PROVE Measures(b)
BY RaiseDecides DEF Load, Measures

LEMMA GenerateMeasures ==
    ASSUME NEW b \in Attempts, Generate(b) PROVE Measures(b)
PROOF
  <1>1. pc[b] \in {"load", "request", "attest", "confirm"}
    BY DEF Generate, RequestDue
  <1>2. (Goto(b, "attest") /\ UNCHANGED <<final, code>>) \/ Raise(b)
    BY DEF Generate
  <1>3. UNCHANGED <<fsvars, log, pilot>>
    BY DEF Generate
  <1> QED BY <1>1, <1>2, <1>3, RaiseDecides DEF Measures

LEMMA AttestMeasures ==
    ASSUME NEW b \in Attempts, Attest(b) PROVE Measures(b)
PROOF
  <1>1. pc[b] = "attest" /\ UNCHANGED <<fsvars, pilot>>
    BY DEF Attest
  <1>2. \/ Raise(b) /\ log' = log
        \/ /\ \E e : log' = [log EXCEPT ![b] = e]
           /\ \E to \in {"request", "attest", "confirm"} : Goto(b, to)
           /\ UNCHANGED <<final, code>>
    BY DEF Attest
  <1> QED BY <1>1, <1>2, RaiseDecides DEF Measures

LEMMA ScreenMeasures ==
    ASSUME NEW b \in Attempts, Screen(b)
    PROVE  /\ Measures(b) /\ pilot' = [pilot EXCEPT ![b] = PilotDecision(b)]
           /\ PilotDecision(b) \in {"FAIL", "INCONCLUSIVE", "PROMOTION PASS"}
PROOF
  <1>1. PilotDecision(b) \in {"FAIL", "INCONCLUSIVE", "PROMOTION PASS"}
    BY Verdicts DEF PilotDecision
  <1>2. /\ pc[b] = "request" /\ UNCHANGED fsvars /\ log' = log
        /\ pilot' = [pilot EXCEPT ![b] = PilotDecision(b)]
        /\ \/ Goto(b, "confirm") /\ UNCHANGED <<final, code>>
           \/ Report(b, "FAIL")
    BY DEF Screen, Requests
  <1> QED BY <1>1, <1>2, ReportDecides DEF Measures

LEMMA ConcludeMeasures ==
    ASSUME NEW b \in Attempts, Conclude(b) PROVE Measures(b)
PROOF
  <1>1. PICK d \in {"FAIL", "INCONCLUSIVE", "PROMOTION PASS"} : Report(b, d)
    BY Verdicts DEF Conclude
  <1>2. pc[b] = "confirm" /\ UNCHANGED <<fsvars, log, pilot>>
    BY DEF Conclude, Measuring, Requests
  <1> QED BY <1>1, <1>2, ReportDecides DEF Measures

LEMMA MeasuresKeeps ==
    ASSUME IInv, NEW b \in Attempts, Measures(b), args' = args, LeftType'
    PROVE  IInv'
PROOF
  <1>1. /\ TypeOK /\ Verdict(b) /\ FsTypeOK' /\ final[b] = Nothing
        /\ pc[b] \in Working
    BY FsTypes, QuietEffect DEF IInv, Verdict, Measures, Working
  <1>2. \E to \in {"request", "attest", "confirm", "verify"}, k \in {-1, 0, 1, 2, 3} :
            /\ pc' = [pc EXCEPT ![b] = to]
            /\ code' \in {code, [code EXCEPT ![b] = k]}
            /\ to # "verify" => final' = final
            /\ to = "verify" =>
                  \E r \in Reports : /\ final' = [final EXCEPT ![b] = r] /\ r.by = b
                                     /\ code' = [code EXCEPT ![b] = k]
                                     /\ k = 0 => r.decision = "PROMOTION PASS"
    <2>1. CASE (\E to \in {"request", "attest", "confirm"} : Goto(b, to))
               /\ UNCHANGED <<final, code>>
      <3>1. PICK to \in {"request", "attest", "confirm"} : Goto(b, to)
        BY <2>1
      <3>2. /\ pc' = [pc EXCEPT ![b] = to] /\ code' = code /\ final' = final
            /\ to # "verify"
            /\ to \in {"request", "attest", "confirm", "verify"} /\ 0 \in {-1, 0, 1, 2, 3}
        BY <2>1, <3>1 DEF Goto
      <3> QED BY <3>2
    <2>2. CASE Decides(b)
      <3>1. PICK status \in {"gate_failed", "inconclusive", "ok"},
                 decision \in {"FAIL", "INCONCLUSIVE", "PROMOTION PASS"}, n \in {0, 1, 2, 3} :
              /\ Publish(b, Paper(b, status, decision), n)
              /\ n = 0 => decision = "PROMOTION PASS"
        BY <2>2 DEF Decides
      <3>2. /\ Paper(b, status, decision) \in Reports
            /\ Paper(b, status, decision).by = b
            /\ Paper(b, status, decision).decision = decision
        BY DEF Paper, Reports
      <3>3. n \in {-1, 0, 1, 2, 3}
        OBVIOUS
      <3> QED BY <3>1, <3>2, <3>3 DEF Publish, Goto
    <2> QED BY <2>1, <2>2 DEF Measures
  <1>3. PICK to \in {"request", "attest", "confirm", "verify"}, k \in {-1, 0, 1, 2, 3} :
            /\ pc' = [pc EXCEPT ![b] = to]
            /\ code' \in {code, [code EXCEPT ![b] = k]}
            /\ to # "verify" => final' = final
            /\ to = "verify" =>
                  \E r \in Reports : /\ final' = [final EXCEPT ![b] = r] /\ r.by = b
                                     /\ code' = [code EXCEPT ![b] = k]
                                     /\ k = 0 => r.decision = "PROMOTION PASS"
    BY <1>2
  <1>4. /\ pc' \in [Attempts -> Labels] /\ code' \in [Attempts -> {-1, 0, 1, 2, 3}] /\ pc'[b] = to
        /\ \A a \in Attempts : a # b => pc'[a] = pc[a] /\ code'[a] = code[a]
    <2>1. /\ pc \in [Attempts -> Labels] /\ code \in [Attempts -> {-1, 0, 1, 2, 3}]
      BY <1>1 DEF TypeOK
    <2>2. to \in Labels
      BY DEF Labels
    <2>3. /\ pc' \in [Attempts -> Labels] /\ pc'[b] = to
          /\ \A a \in Attempts : a # b => pc'[a] = pc[a]
      BY <1>3, <2>1, <2>2
    <2>4. CASE code' = code
      BY <2>1, <2>3, <2>4
    <2>5. CASE code' = [code EXCEPT ![b] = k]
      BY <2>1, <2>3, <2>5
    <2> QED BY <1>3, <2>4, <2>5
  <1>5. /\ final' \in [Attempts -> Reports \cup {Nothing}]
        /\ \A a \in Attempts : a # b => final'[a] = final[a]
        /\ to # "verify" => final'[b] = Nothing
        /\ to = "verify" => /\ final'[b] \in Reports /\ final'[b].by = b
                            /\ code'[b] = 0 => final'[b].decision = "PROMOTION PASS"
    <2>1. final \in [Attempts -> Reports \cup {Nothing}]
          /\ code \in [Attempts -> {-1, 0, 1, 2, 3}]
      BY <1>1 DEF TypeOK
    <2>2. CASE to # "verify"
      BY <1>1, <1>3, <2>1, <2>2
    <2>3. CASE to = "verify"
      <3>1. PICK r \in Reports :
                /\ final' = [final EXCEPT ![b] = r] /\ r.by = b
                /\ code' = [code EXCEPT ![b] = k]
                /\ k = 0 => r.decision = "PROMOTION PASS"
        BY <1>3, <2>3
      <3>2. code'[b] = k /\ final'[b] = r
        BY <2>1, <3>1
      <3> QED BY <2>1, <2>3, <3>1, <3>2
    <2> QED BY <2>2, <2>3
  <1>6. /\ DOMAIN log' = Attempts
        /\ \A a \in Attempts : a # b => log'[a] = log[a]
        /\ pilot' \in [Attempts -> {"none", "FAIL", "INCONCLUSIVE", "PROMOTION PASS"}]
    <2>1. DOMAIN log = Attempts
      BY <1>1 DEF TypeOK
    <2>2. pilot \in [Attempts -> {"none", "FAIL", "INCONCLUSIVE", "PROMOTION PASS"}]
      BY <1>1 DEF TypeOK
    <2>3. /\ DOMAIN log' = Attempts
          /\ \A a \in Attempts : a # b => log'[a] = log[a]
      BY <2>1 DEF Measures
    <2>4. pilot' \in [Attempts -> {"none", "FAIL", "INCONCLUSIVE", "PROMOTION PASS"}]
      <3>1. CASE pilot' = pilot
        BY <2>2, <3>1
      <3>2. CASE \E d \in {"FAIL", "INCONCLUSIVE", "PROMOTION PASS"} :
                     pilot' = [pilot EXCEPT ![b] = d]
        BY <2>2, <3>2
      <3> QED BY <3>1, <3>2 DEF Measures
    <2> QED BY <2>3, <2>4
  <1>7. TypeOK' /\ OthersSame(b)
    BY <1>1, <1>4, <1>5, <1>6 DEF TypeOK, FsTypeOK, LeftType, OthersSame
  <1>8. \A n : Texts(n) \subseteq Texts(n)'
    BY <1>1, <1>5, TextsGrow
  <1>9. Verdict(b)'
    <2>2. CASE to # "verify"
      BY <1>4, <1>5, <2>2 DEF Verdict, Done
    <2>3. CASE to = "verify"
      <3>1. final'[b] # Nothing
        <4>1. Nothing.by = "nobody" /\ Nothing.status = "none"
          BY DEF Nothing
        <4>2. \A r \in Reports : r.status # "none"
          BY DEF Reports
        <4> QED BY <1>5, <2>3, <4>1, <4>2
      <3> QED BY <1>4, <1>5, <2>3, <3>1 DEF Verdict, Done
    <2> QED BY <2>2, <2>3
  <1> QED BY <1>1, <1>3, <1>4, <1>7, <1>8, <1>9, QuietMove DEF Measures

------------------------------------------------------------------------------
(* The steps, one lemma each. *)

Late == {"verify", "temp", "sync", "replace", "settle"}

\* The verdict stands while the attempt moves on, and matters no more to one
\* that gives up.
LEMMA VerdictMoves ==
    ASSUME IInv, NEW b \in Attempts, final'[b] = final[b],
           \/ pc'[b] = "dead"
           \/ pc'[b] = "over" /\ code'[b] = 1
           \/ pc[b] \in Late /\ pc'[b] \in Late \cup {"over"} /\ code'[b] = code[b]
           \/ pc[b] \notin Late \cup {"over", "dead"} /\ pc'[b] \notin Late \cup {"over"}
    PROVE  Verdict(b)'
PROOF
  <1>1. Verdict(b)
    BY DEF IInv
  <1>2. CASE pc'[b] = "dead" \/ (pc'[b] = "over" /\ code'[b] = 1)
    <2>1. ~Done(b)'
      BY <1>2 DEF Done
    <2>2. pc'[b] \in {"over", "dead"}
      BY <1>2
    <2> QED BY <1>1, <2>1, <2>2 DEF Verdict
  <1>3. CASE pc[b] \in Late /\ pc'[b] \in Late \cup {"over"} /\ code'[b] = code[b]
    BY <1>1, <1>3 DEF Verdict, Late, Done
  <1>4. CASE pc[b] \notin Late \cup {"over", "dead"} /\ pc'[b] \notin Late \cup {"over"}
    BY <1>1, <1>4 DEF Verdict, Late, Done
  <1> QED BY <1>2, <1>3, <1>4

LEMMA Facts ==
    ASSUME IInv, NEW b \in Attempts
    PROVE  /\ TypeOK /\ FsTypeOK /\ Sound /\ Apart
           /\ ClaimProgress(b) /\ OutputProgress(b) /\ TempProgress(b) /\ Verdict(b)
           /\ Camp(b) \in Names /\ OutOf(b) \in Names /\ b \in Names
           /\ Camp(b) # OutOf(b) /\ Camp(b) # b /\ OutOf(b) # b
           /\ Camp(b) \notin Attempts /\ OutOf(b) \notin Attempts
           /\ Camp(b) \notin Outputs
BY FsTypes, CampNames, NamesApart DEF IInv, Progress

\* A step of b that syncs something and moves on.
LEMMA SyncMove ==
    ASSUME IInv, NEW b \in Attempts, NEW to \in Labels, pc' = [pc EXCEPT ![b] = to],
           UNCHANGED <<final, code, Measuring, args>>, LeftType',
           FsTypeOK', Shrinks, \A m \in Names : Steady(m),
           pc[b] \notin {"over", "dead", "start"},
           \/ pc[b] \in Late /\ to \in Late \cup {"over"}
           \/ pc[b] \notin Late /\ to \notin Late \cup {"over"},
           OwnsClaim(b)' => OwnsClaim(b), OwnsOutput(b)' => OwnsOutput(b), Progress(b)'
    PROVE  IInv'
PROOF
  <1>1. TypeOK /\ Sound /\ Apart
    BY Facts
  <1>2. /\ TypeOK' /\ OthersSame(b) /\ pc'[b] = to /\ code'[b] = code[b]
        /\ final'[b] = final[b]
        /\ \A n : Texts(n) \subseteq Texts(n)'
    <2>1. 1 \in {-1, 0, 1, 2, 3} /\ code' \in {code, [code EXCEPT ![b] = 1]}
      OBVIOUS
    <2> QED BY <1>1, <2>1, Moved DEF Measuring, Requests
  <1>3. Sound' /\ Apart'
    BY <1>1, <1>2, ShrinkKeeps DEF OthersSame
  <1>4. Verdict(b)'
    BY <1>2, VerdictMoves
  <1>5. Minds(b)
    BY DEF Minds
  <1> QED BY <1>2, <1>3, <1>4, <1>5, Assemble

\* An attempt that gives up keeps only its claim.
LEMMA GivesUp ==
    ASSUME IInv, NEW b \in Attempts, NEW to \in Labels, pc' = [pc EXCEPT ![b] = to],
           \/ to = "dead" /\ code' = code
           \/ to = "over" /\ code' = [code EXCEPT ![b] = 1],
           UNCHANGED <<final, Measuring, args>>, LeftType',
           FsTypeOK', Shrinks, \A m \in Names : m # b => Steady(m)
    PROVE  IInv'
PROOF
  <1>1. /\ TypeOK /\ Sound /\ Apart /\ ClaimProgress(b)
        /\ Camp(b) \in Names /\ Camp(b) # b
    BY Facts
  <1>2. /\ TypeOK' /\ OthersSame(b) /\ pc'[b] = to /\ final'[b] = final[b]
        /\ log'[b] = log[b]
        /\ \A n : Texts(n) \subseteq Texts(n)'
    <2>1. 1 \in {-1, 0, 1, 2, 3} /\ code' \in {code, [code EXCEPT ![b] = 1]}
      OBVIOUS
    <2> QED BY <1>1, <2>1, Moved DEF Measuring, Requests
  <1>3. pc'[b] = "dead" \/ (pc'[b] = "over" /\ code'[b] = 1)
    BY <1>1, <1>2 DEF TypeOK
  <1>4. ~OwnsOutput(b)' /\ ~Done(b)'
    BY <1>3 DEF OwnsOutput, Done, Working
  <1>5. OwnsClaim(b)' => log[b] # <<>> /\ OwnsClaim(b)
    BY <1>2, <1>3, <1>4 DEF OwnsClaim
  <1>6. Progress(b)'
    <2>1. Steady(Camp(b)) /\ args' = args
      BY <1>1
    <2>2. log[b] # <<>> => OwnsClaim(b)
      BY DEF OwnsClaim
    <2>3. ClaimProgress(b)'
      BY <1>1, <1>2, <1>3, <1>4, <1>5, <2>1, <2>2, NamesApart DEF ClaimProgress, Camp, Steady
    <2> QED BY <1>3, <1>4, <2>3 DEF Progress, OutputProgress, TempProgress, Working
  <1>7. Sound' /\ Apart'
    BY <1>1, <1>2, ShrinkKeeps DEF OthersSame
  <1>8. Verdict(b)'
    BY <1>2, <1>3, VerdictMoves
  <1>9. Minds(b)
    BY DEF Minds
  <1> QED BY <1>2, <1>4, <1>5, <1>6, <1>7, <1>8, <1>9, Assemble

LEMMA PrecheckKeeps ==
    ASSUME IInv, NEW b \in Attempts, Precheck(b), args' = args, LeftType'
    PROVE  IInv'
PROOF
  <1>1. TypeOK /\ FsTypeOK
    BY Facts
  <1>2. /\ pc[b] = "start" /\ UNCHANGED <<fsvars, final, Measuring>>
        /\ \/ pc' = [pc EXCEPT ![b] = "over"] /\ code' = [code EXCEPT ![b] = 1]
           \/ pc' = [pc EXCEPT ![b] = "claimOpen"] /\ code' = code
    BY DEF Precheck, Exit, Goto
  <1>3. FsTypeOK' /\ Shrinks /\ \A m \in Names : Steady(m)
    BY <1>1, <1>2, QuietEffect
  <1>4. "over" \in Labels /\ "claimOpen" \in Labels
    BY DEF Labels
  <1>5. CASE pc' = [pc EXCEPT ![b] = "over"] /\ code' = [code EXCEPT ![b] = 1]
    BY <1>2, <1>3, <1>4, <1>5, GivesUp
  <1>6. CASE pc' = [pc EXCEPT ![b] = "claimOpen"] /\ code' = code
    <2>1. /\ TypeOK' /\ OthersSame(b) /\ pc'[b] = "claimOpen" /\ final'[b] = final[b]
          /\ log'[b] = log[b]
          /\ \A n : Texts(n) \subseteq Texts(n)'
      <3>1. 1 \in {-1, 0, 1, 2, 3} /\ code' \in {code, [code EXCEPT ![b] = 1]}
        BY <1>6
      <3> QED BY <1>1, <1>2, <1>3, <1>4, <1>6, <3>1, Moved DEF Measuring, Requests
    <2>2. Verdict(b)'
      BY <1>2, <2>1, VerdictMoves DEF Late
    <2> QED BY <1>2, <2>1, <2>2, QuietMove
  <1> QED BY <1>2, <1>5, <1>6

LEMMA ClaimOpenKeeps ==
    ASSUME IInv, NEW b \in Attempts, ClaimOpen(b), args' = args, LeftType'
    PROVE  IInv'
PROOF
  <1>1. /\ TypeOK /\ FsTypeOK /\ Sound /\ Apart /\ ClaimProgress(b)
        /\ Camp(b) \in Names
    BY Facts
  <1>2. pc[b] = "claimOpen" /\ UNCHANGED <<final, Measuring>>
    BY DEF ClaimOpen
  <1>3. "over" \in Labels /\ "claimFill" \in Labels
    BY DEF Labels
  <1>4. CASE Exists(Camp(b))
    <2>1. /\ UNCHANGED fsvars /\ pc' = [pc EXCEPT ![b] = "over"]
          /\ code' = [code EXCEPT ![b] = 1]
      BY <1>4 DEF ClaimOpen, Exit, Goto, Camp
    <2>2. FsTypeOK' /\ Shrinks /\ \A m \in Names : Steady(m)
      BY <1>1, <2>1, QuietEffect
    <2> QED BY <1>2, <1>3, <2>1, <2>2, GivesUp
  <1>5. CASE ~Exists(Camp(b))
    <2>1. PICK n, i : n \in Names /\ n = Camp(b) /\ i = FreshInode({})
      BY <1>1
    <2>2. /\ Unused({}) # {} /\ CreateAs(n, i, Blank, {Blank})
          /\ pc' = [pc EXCEPT ![b] = "claimFill"] /\ code' = code
      BY <1>5, <2>1 DEF ClaimOpen, Opening, Create, Goto, Camp
    <2>3. i \in Inodes /\ \A m \in Names : i \notin Entries(m)
      BY <2>1, <2>2, Fresh
    <2>4. /\ FsTypeOK'
          /\ \A m \in Names : m # n => Steady(m) /\ Entries(m)' = Entries(m)
          /\ Entries(n)' \subseteq Entries(n) \cup {i}
          /\ \A j \in Inodes : j # i => Contents(j)' = Contents(j)
          /\ Contents(i)' = {Blank} \cup {Blank}
          /\ dir'[n] = i
      <3>1. Blank \in Reports \cup {Blank, Torn} /\ {Blank} \in SUBSET (Reports \cup {Blank, Torn})
        OBVIOUS
      <3> QED BY <1>1, <2>1, <2>2, <2>3, <3>1, CreateEffect
    <2>5. /\ TypeOK' /\ OthersSame(b) /\ pc'[b] = "claimFill"
          /\ final'[b] = final[b] /\ log'[b] = log[b]
          /\ \A m : Texts(m) \subseteq Texts(m)'
      <3>1. 1 \in {-1, 0, 1, 2, 3} /\ code' \in {code, [code EXCEPT ![b] = 1]}
        BY <2>2
      <3> QED BY <1>1, <1>2, <1>3, <2>2, <2>4, <3>1, Moved DEF Measuring, Requests
    <2>6. Sound' /\ Apart'
      <3>1. Blank \in Texts(n)'
        BY DEF Texts
      <3>2. Contents(i)' \subseteq Texts(n)'
        BY <2>4, <3>1
      <3> QED BY <1>1, <2>1, <2>3, <2>4, <2>5, <3>2, CreateKeeps
    <2>7. dir[n] = NoInode /\ Camp(b) = n /\ Camp(b)' = n
      BY <1>5, <2>1 DEF Exists, Camp
    <2>8. Minds(b)
      BY <2>4, <2>7 DEF Minds
    <2>9. log[b] = <<>>
      BY <1>1, <2>7, NamesApart DEF ClaimProgress, OwnsClaim
    <2>10. ~OwnsOutput(b)' /\ ~Done(b)'
      BY <2>5 DEF OwnsOutput, Done, Working
    <2>11. Progress(b)'
      BY <2>3, <2>4, <2>5, <2>7, <2>9, <2>10
         DEF Progress, ClaimProgress, OutputProgress, TempProgress, Working
    <2>12. Verdict(b)'
      BY <1>2, <2>5, VerdictMoves DEF Late
    <2> QED BY <2>5, <2>6, <2>7, <2>8, <2>10, <2>11, <2>12, Assemble
  <1> QED BY <1>4, <1>5

LEMMA ClaimFillKeeps ==
    ASSUME IInv, NEW b \in Attempts, ClaimFill(b), args' = args, LeftType'
    PROVE  IInv'
PROOF
  <1>1. /\ TypeOK /\ FsTypeOK /\ Sound /\ Apart /\ ClaimProgress(b)
        /\ Camp(b) \in Names /\ Camp(b) \notin Attempts /\ Camp(b) \notin Outputs
    BY Facts
  <1>2. PICK n, i : n \in Names /\ n = Camp(b) /\ i = dir[n]
    BY <1>1
  <1>3. /\ pc[b] = "claimFill" /\ pc' = [pc EXCEPT ![b] = "claimFlush"]
        /\ WriteFile(i, Claimed(b)) /\ UNCHANGED <<final, code, Measuring>>
    BY <1>2 DEF ClaimFill, Goto, Camp
  <1>4. i \in Inodes /\ OwnsClaim(b)
    BY <1>1, <1>2, <1>3 DEF ClaimProgress, OwnsClaim
  <1>5. PICK c \in Reports : c = Claimed(b)
    BY Papers
  <1>6. /\ FsTypeOK' /\ dir' = dir /\ disk' = disk /\ data'[i] = c
        /\ \A m \in Names : dir[m] # i => Steady(m)
        /\ \A m : Entries(m)' = Entries(m)
        /\ \A j \in Inodes : j # i => Contents(j)' = Contents(j)
        /\ Contents(i)' \subseteq Contents(i) \cup {c, Torn}
    BY <1>1, <1>3, <1>4, <1>5, WriteEffect
  <1>7. "claimFlush" \in Labels
    BY DEF Labels
  <1>8. /\ TypeOK' /\ OthersSame(b) /\ pc'[b] = "claimFlush"
        /\ final'[b] = final[b] /\ log'[b] = log[b]
        /\ \A m : Texts(m) \subseteq Texts(m)'
    <2>1. 1 \in {-1, 0, 1, 2, 3} /\ code' \in {code, [code EXCEPT ![b] = 1]}
      BY <1>3
    <2> QED BY <1>1, <1>3, <1>6, <1>7, <2>1, Moved DEF Measuring, Requests
  <1>9. \A m \in Names : i \in Entries(m) => m = n
    <2>1. i \in Entries(n)
      BY <1>2 DEF Entries
    <2>2. \A m \in Attempts : OutOf(m) \in Outputs
      BY <1>1, CampNames
    <2> QED BY <1>1, <1>2, <1>4, <2>1, <2>2 DEF Apart
  <1>10. Sound' /\ Apart'
    <2>1. c \in Texts(n)
      BY <1>2, <1>5 DEF Texts
    <2>2. \A m \in Names : i \in Entries(m) => c \in Texts(m)'
      BY <1>8, <1>9, <2>1
    <2> QED BY <1>1, <1>4, <1>6, <1>8, <2>2, WriteKeeps
  <1>11. Minds(b)
    BY <1>2, <1>4, <1>6, <1>9 DEF Minds, Entries
  <1>12. ~OwnsOutput(b)' /\ ~Done(b)'
    BY <1>8 DEF OwnsOutput, Done, Working
  <1>13. Progress(b)'
    <2>1. /\ dir'[n] = i /\ disk'[n] = disk[n] /\ Camp(b)' = n
          /\ Claimed(b)' = c
      BY <1>2, <1>5, <1>6 DEF Camp, Claimed, Paper
    <2> QED BY <1>1, <1>2, <1>4, <1>6, <1>8, <1>12, <2>1
            DEF Progress, ClaimProgress, OutputProgress, TempProgress, Working, Shows
  <1>14. Verdict(b)'
    BY <1>3, <1>8, VerdictMoves DEF Late
  <1> QED BY <1>4, <1>8, <1>10, <1>11, <1>12, <1>13, <1>14, Assemble

LEMMA ClaimFlushKeeps ==
    ASSUME IInv, NEW b \in Attempts, ClaimFlush(b), args' = args, LeftType'
    PROVE  IInv'
PROOF
  <1>1. /\ TypeOK /\ FsTypeOK /\ ClaimProgress(b) /\ Camp(b) \in Names
    BY Facts
  <1>2. PICK n, i : n \in Names /\ n = Camp(b) /\ i = dir[n]
    BY <1>1
  <1>3. /\ pc[b] = "claimFlush" /\ pc' = [pc EXCEPT ![b] = "claimSettle"]
        /\ SyncFile(i) /\ UNCHANGED <<final, code, Measuring>>
    BY <1>2 DEF ClaimFlush, Goto, Camp
  <1>4. i \in Inodes /\ data[i] = Claimed(b)
    BY <1>1, <1>2, <1>3 DEF ClaimProgress, Shows
  <1>5. /\ FsTypeOK' /\ Shrinks /\ dir' = dir /\ disk' = disk /\ data' = data
        /\ safe'[i] = {data[i]} /\ \A m \in Names : Steady(m)
    BY <1>1, <1>3, <1>4, SyncFileEffect
  <1>6. "claimSettle" \in Labels /\ pc'[b] = "claimSettle" /\ log' = log
    BY <1>1, <1>3 DEF Labels, TypeOK, Measuring, Requests
  <1>7. ~OwnsOutput(b)' /\ ~Done(b)' /\ OwnsClaim(b)
    BY <1>3, <1>6 DEF OwnsOutput, Done, Working, OwnsClaim
  <1>8. Progress(b)'
    <2>1. Camp(b)' = n /\ Claimed(b)' = data[i]
      BY <1>2, <1>4 DEF Camp, Claimed, Paper
    <2> QED BY <1>1, <1>2, <1>4, <1>5, <1>6, <1>7, <2>1
            DEF Progress, ClaimProgress, OutputProgress, TempProgress, Working, Shows, Saved
  <1> QED BY <1>3, <1>5, <1>6, <1>7, <1>8, SyncMove DEF Late

LEMMA ClaimSettleKeeps ==
    ASSUME IInv, NEW b \in Attempts, ClaimSettle(b), args' = args, LeftType'
    PROVE  IInv'
PROOF
  <1>1. /\ TypeOK /\ FsTypeOK /\ ClaimProgress(b) /\ Camp(b) \in Names
    BY Facts
  <1>2. PICK n, i : n \in Names /\ n = Camp(b) /\ i = dir[n]
    BY <1>1
  <1>3. /\ pc[b] = "claimSettle" /\ pc' = [pc EXCEPT ![b] = "outOpen"]
        /\ SyncDir /\ UNCHANGED <<final, code, Measuring>>
    BY DEF ClaimSettle, Goto
  <1>4. i \in Inodes /\ data[i] = Claimed(b) /\ safe[i] = {data[i]}
    BY <1>1, <1>2, <1>3 DEF ClaimProgress, Saved, Shows
  <1>5. /\ FsTypeOK' /\ Shrinks /\ dir' = dir /\ data' = data /\ safe' = safe
        /\ \A m \in Names : disk'[m] = {dir[m]}
        /\ \A m \in Names : Steady(m)
    BY <1>1, <1>3, SyncDirEffect
  <1>6. "outOpen" \in Labels /\ pc'[b] = "outOpen" /\ log' = log
    BY <1>1, <1>3 DEF Labels, TypeOK, Measuring, Requests
  <1>7. ~OwnsOutput(b)' /\ ~Done(b)' /\ OwnsClaim(b)
    BY <1>3, <1>6 DEF OwnsOutput, Done, Working, OwnsClaim
  <1>8. Progress(b)'
    <2>1. Camp(b)' = n /\ Claimed(b)' = data[i]
      BY <1>2, <1>4 DEF Camp, Claimed, Paper
    <2> QED BY <1>1, <1>2, <1>4, <1>5, <1>6, <1>7, <2>1, NamesApart
            DEF Progress, ClaimProgress, OutputProgress, TempProgress, Working,
                Shows, Saved, Firm
  <1> QED BY <1>3, <1>5, <1>6, <1>7, <1>8, SyncMove DEF Late

\* What stays of the claim while the attempt works on its output.
LEMMA ClaimStays ==
    ASSUME IInv, NEW b \in Attempts, Steady(Camp(b)), args' = args, log'[b] = log[b],
           pc[b] = "outOpen" \/ OwnsOutput(b),
           pc'[b] \notin {"claimFlush", "claimSettle"}
    PROVE  ClaimProgress(b)'
PROOF
  <1>1. OwnsClaim(b) /\ ClaimProgress(b)
    BY Facts DEF OwnsClaim
  <1>2. PICK n : n = Camp(b) /\ Camp(b)' = n /\ Claimed(b)' = Claimed(b)
    BY DEF Camp, Claimed, Paper
  <1>3. PICK i \in Inodes : i = dir[n]
    BY <1>1, <1>2 DEF ClaimProgress
  <1>4. data[i] = Claimed(b) /\ safe[i] = {data[i]} /\ disk[n] = {i}
    BY <1>1, <1>2, <1>3 DEF ClaimProgress, Firm, Saved, Shows
  <1>5. dir'[n] = i /\ disk'[n] = {i} /\ data'[i] = data[i] /\ safe'[i] = {data[i]}
    BY <1>2, <1>3, <1>4 DEF Steady
  <1>6. i # NoInode
    BY NamesApart
  <1> QED BY <1>2, <1>3, <1>4, <1>5, <1>6 DEF ClaimProgress, Firm, Saved, Shows

LEMMA OutOpenKeeps ==
    ASSUME IInv, NEW b \in Attempts, OutOpen(b), args' = args, LeftType'
    PROVE  IInv'
PROOF
  <1>1. /\ TypeOK /\ FsTypeOK /\ Sound /\ Apart
        /\ OutOf(b) \in Names /\ Camp(b) \in Names /\ Camp(b) # OutOf(b)
    BY Facts
  <1>2. pc[b] = "outOpen" /\ UNCHANGED <<final, Measuring>>
    BY DEF OutOpen
  <1>3. "over" \in Labels /\ "outFill" \in Labels
    BY DEF Labels
  <1>4. CASE Exists(OutOf(b))
    <2>1. /\ UNCHANGED fsvars /\ pc' = [pc EXCEPT ![b] = "over"]
          /\ code' = [code EXCEPT ![b] = 1]
      BY <1>4 DEF OutOpen, Exit, Goto, OutOf
    <2>2. FsTypeOK' /\ Shrinks /\ \A m \in Names : Steady(m)
      BY <1>1, <2>1, QuietEffect
    <2> QED BY <1>2, <1>3, <2>1, <2>2, GivesUp
  <1>5. CASE ~Exists(OutOf(b))
    <2>1. PICK n, i : n \in Names /\ n = OutOf(b) /\ i = FreshInode({})
      BY <1>1
    <2>2. /\ Unused({}) # {} /\ CreateAs(n, i, Blank, {Blank})
          /\ pc' = [pc EXCEPT ![b] = "outFill"] /\ code' = code
      BY <1>5, <2>1 DEF OutOpen, Opening, Create, Goto, OutOf
    <2>3. i \in Inodes /\ \A m \in Names : i \notin Entries(m)
      BY <2>1, <2>2, Fresh
    <2>4. /\ FsTypeOK'
          /\ \A m \in Names : m # n => Steady(m) /\ Entries(m)' = Entries(m)
          /\ Entries(n)' \subseteq Entries(n) \cup {i}
          /\ \A j \in Inodes : j # i => Contents(j)' = Contents(j)
          /\ Contents(i)' = {Blank} \cup {Blank}
          /\ dir'[n] = i /\ data'[i] = Blank
      <3>1. Blank \in Reports \cup {Blank, Torn} /\ {Blank} \in SUBSET (Reports \cup {Blank, Torn})
        OBVIOUS
      <3> QED BY <1>1, <2>1, <2>2, <2>3, <3>1, CreateEffect
    <2>5. /\ TypeOK' /\ OthersSame(b) /\ pc'[b] = "outFill"
          /\ final'[b] = final[b] /\ log'[b] = log[b]
          /\ \A m : Texts(m) \subseteq Texts(m)'
      <3>1. 1 \in {-1, 0, 1, 2, 3} /\ code' \in {code, [code EXCEPT ![b] = 1]}
        BY <2>2
      <3> QED BY <1>1, <1>2, <1>3, <2>2, <2>4, <3>1, Moved DEF Measuring, Requests
    <2>6. Sound' /\ Apart'
      <3>1. Blank \in Texts(n)'
        BY DEF Texts
      <3>2. Contents(i)' \subseteq Texts(n)'
        BY <2>4, <3>1
      <3> QED BY <1>1, <2>1, <2>3, <2>4, <2>5, <3>2, CreateKeeps
    <2>7. dir[n] = NoInode /\ OutOf(b) = n /\ OutOf(b)' = n
      BY <1>5, <2>1 DEF Exists, OutOf
    <2>8. Minds(b)
      BY <2>4, <2>7 DEF Minds
    <2>9. OwnsClaim(b) /\ ~Done(b)'
      BY <1>2, <2>5 DEF OwnsClaim, Done
    <2>10. Progress(b)'
      <3>1. ClaimProgress(b)'
        BY <1>1, <1>2, <2>1, <2>4, <2>5, ClaimStays
      <3>2. OutputProgress(b)' /\ TempProgress(b)'
        BY <2>3, <2>4, <2>5, <2>7, <2>9 DEF OutputProgress, TempProgress, Working, Shows
      <3> QED BY <3>1, <3>2 DEF Progress
    <2>11. Verdict(b)'
      BY <1>2, <2>5, VerdictMoves DEF Late
    <2> QED BY <2>5, <2>6, <2>7, <2>8, <2>9, <2>10, <2>11, Assemble
  <1> QED BY <1>4, <1>5

LEMMA OutFillKeeps ==
    ASSUME IInv, NEW b \in Attempts, OutFill(b), args' = args, LeftType'
    PROVE  IInv'
PROOF
  <1>1. /\ TypeOK /\ FsTypeOK /\ Sound /\ Apart /\ OutputProgress(b)
        /\ OutOf(b) \in Names /\ OutOf(b) \notin Attempts
        /\ Camp(b) \in Names /\ Camp(b) \notin Attempts /\ Camp(b) # OutOf(b)
    BY Facts
  <1>2. PICK n, i : n \in Names /\ n = OutOf(b) /\ i = dir[n]
    BY <1>1
  <1>3. /\ pc[b] = "outFill" /\ pc' = [pc EXCEPT ![b] = "outFlush"]
        /\ WriteFile(i, Reserved(b)) /\ UNCHANGED <<final, code, Measuring>>
    BY <1>2 DEF OutFill, Goto, OutOf
  <1>4. i \in Inodes /\ OwnsClaim(b) /\ OwnsOutput(b)
    BY <1>1, <1>2, <1>3 DEF OutputProgress, OwnsOutput, OwnsClaim
  <1>5. PICK c \in Reports : c = Reserved(b)
    BY Papers
  <1>6. /\ FsTypeOK' /\ dir' = dir /\ disk' = disk /\ data'[i] = c
        /\ \A m \in Names : dir[m] # i => Steady(m)
        /\ \A m : Entries(m)' = Entries(m)
        /\ \A j \in Inodes : j # i => Contents(j)' = Contents(j)
        /\ Contents(i)' \subseteq Contents(i) \cup {c, Torn}
    BY <1>1, <1>3, <1>4, <1>5, WriteEffect
  <1>7. "outFlush" \in Labels
    BY DEF Labels
  <1>8. /\ TypeOK' /\ OthersSame(b) /\ pc'[b] = "outFlush"
        /\ final'[b] = final[b] /\ log'[b] = log[b]
        /\ \A m : Texts(m) \subseteq Texts(m)'
    <2>1. 1 \in {-1, 0, 1, 2, 3} /\ code' \in {code, [code EXCEPT ![b] = 1]}
      BY <1>3
    <2> QED BY <1>1, <1>3, <1>6, <1>7, <2>1, Moved DEF Measuring, Requests
  <1>9. \A m \in Names : i \in Entries(m) => m = n \/ (m \in Attempts /\ OutOf(m) = n)
    <2>1. i \in Entries(n)
      BY <1>2 DEF Entries
    <2> QED BY <1>1, <1>2, <1>4, <2>1 DEF Apart
  <1>10. Sound' /\ Apart'
    <2>1. \A m \in Names : i \in Entries(m) => Place(m) = n
      BY <1>1, <1>2, <1>9 DEF Place
    <2>2. \A m \in Names : Place(m) = n => c \in Texts(m)
      BY <1>2, <1>5 DEF Texts
    <2>3. \A m \in Names : i \in Entries(m) => c \in Texts(m)'
      BY <1>8, <2>1, <2>2
    <2> QED BY <1>1, <1>4, <1>6, <1>8, <2>3, WriteKeeps
  <1>11. \A m \in Names : dir[m] = i => m = n \/ (m \in Attempts /\ OutOf(m) = n)
    BY <1>9 DEF Entries
  <1>12. Minds(b)
    BY <1>2, <1>4, <1>6, <1>11 DEF Minds
  <1>13. ~Done(b)'
    BY <1>8 DEF Done
  <1>14. Progress(b)'
    <2>1. ClaimProgress(b)'
      <3>1. Steady(Camp(b))
        BY <1>1, <1>2, <1>6, <1>11
      <3> QED BY <1>4, <1>8, <3>1, ClaimStays
    <2>2. dir'[n] = i /\ OutOf(b)' = n /\ Reserved(b)' = c
      BY <1>2, <1>5, <1>6 DEF OutOf, Reserved, Paper
    <2>3. OutputProgress(b)' /\ TempProgress(b)'
      BY <1>4, <1>6, <1>8, <1>13, <2>2
         DEF OutputProgress, TempProgress, Working, Shows
    <2> QED BY <2>1, <2>3 DEF Progress
  <1>15. Verdict(b)'
    BY <1>3, <1>8, VerdictMoves DEF Late
  <1> QED BY <1>4, <1>8, <1>10, <1>12, <1>14, <1>15, Assemble

LEMMA OutFlushKeeps ==
    ASSUME IInv, NEW b \in Attempts, OutFlush(b), args' = args, LeftType'
    PROVE  IInv'
PROOF
  <1>1. /\ TypeOK /\ FsTypeOK /\ OutputProgress(b) /\ OutOf(b) \in Names /\ Camp(b) \in Names
    BY Facts
  <1>2. PICK n, i : n \in Names /\ n = OutOf(b) /\ i = dir[n]
    BY <1>1
  <1>3. /\ pc[b] = "outFlush" /\ pc' = [pc EXCEPT ![b] = "outSettle"]
        /\ SyncFile(i) /\ UNCHANGED <<final, code, Measuring>>
    BY <1>2 DEF OutFlush, Goto, OutOf
  <1>4. i \in Inodes /\ data[i] = Reserved(b)
    BY <1>1, <1>2, <1>3 DEF OutputProgress, Shows
  <1>5. /\ FsTypeOK' /\ Shrinks /\ dir' = dir /\ disk' = disk /\ data' = data
        /\ safe'[i] = {data[i]} /\ \A m \in Names : Steady(m)
    BY <1>1, <1>3, <1>4, SyncFileEffect
  <1>6. "outSettle" \in Labels /\ pc'[b] = "outSettle" /\ log' = log
    BY <1>1, <1>3 DEF Labels, TypeOK, Measuring, Requests
  <1>7. OwnsOutput(b) /\ OwnsClaim(b) /\ ~Done(b)'
    BY <1>3, <1>6 DEF OwnsOutput, Done, OwnsClaim
  <1>8. Progress(b)'
    <2>1. ClaimProgress(b)'
      BY <1>1, <1>5, <1>6, <1>7, ClaimStays
    <2>2. OutOf(b)' = n /\ Reserved(b)' = data[i]
      BY <1>2, <1>4 DEF OutOf, Reserved, Paper
    <2>3. OutputProgress(b)' /\ TempProgress(b)'
      BY <1>2, <1>4, <1>5, <1>6, <1>7, <2>2
         DEF OutputProgress, TempProgress, Working, Shows, Saved
    <2> QED BY <2>1, <2>3 DEF Progress
  <1> QED BY <1>3, <1>5, <1>6, <1>7, <1>8, SyncMove DEF Late

LEMMA OutSettleKeeps ==
    ASSUME IInv, NEW b \in Attempts, OutSettle(b), args' = args, LeftType'
    PROVE  IInv'
PROOF
  <1>1. /\ TypeOK /\ FsTypeOK /\ OutputProgress(b) /\ OutOf(b) \in Names /\ Camp(b) \in Names
    BY Facts
  <1>2. PICK n, i : n \in Names /\ n = OutOf(b) /\ i = dir[n]
    BY <1>1
  <1>3. /\ pc[b] = "outSettle" /\ pc' = [pc EXCEPT ![b] = "load"]
        /\ SyncDir /\ UNCHANGED <<final, code, Measuring>>
    BY DEF OutSettle, Goto
  <1>4. i \in Inodes /\ data[i] = Reserved(b) /\ safe[i] = {data[i]}
    BY <1>1, <1>2, <1>3 DEF OutputProgress, Saved, Shows
  <1>5. /\ FsTypeOK' /\ Shrinks /\ dir' = dir /\ data' = data /\ safe' = safe
        /\ \A m \in Names : disk'[m] = {dir[m]}
        /\ \A m \in Names : Steady(m)
    BY <1>1, <1>3, SyncDirEffect
  <1>6. "load" \in Labels /\ pc'[b] = "load" /\ log' = log
    BY <1>1, <1>3 DEF Labels, TypeOK, Measuring, Requests
  <1>7. OwnsOutput(b) /\ OwnsClaim(b) /\ ~Done(b)'
    BY <1>3, <1>6 DEF OwnsOutput, Done, OwnsClaim
  <1>8. Progress(b)'
    <2>1. ClaimProgress(b)'
      BY <1>1, <1>5, <1>6, <1>7, ClaimStays
    <2>2. OutOf(b)' = n /\ Reserved(b)' = data[i]
      BY <1>2, <1>4 DEF OutOf, Reserved, Paper
    <2>3. OutputProgress(b)' /\ TempProgress(b)'
      BY <1>2, <1>4, <1>5, <1>6, <1>7, <2>2
         DEF OutputProgress, TempProgress, Working, Shows, Saved, Firm
    <2> QED BY <2>1, <2>3 DEF Progress
  <1> QED BY <1>3, <1>5, <1>6, <1>7, <1>8, SyncMove DEF Late

LEMMA ReserveFailsKeeps ==
    ASSUME IInv, NEW b \in Attempts, ReserveFails(b), args' = args
    PROVE  IInv'
PROOF
  <1>1. TypeOK /\ FsTypeOK
    BY Facts
  <1>2. /\ pc' = [pc EXCEPT ![b] = "over"] /\ code' = [code EXCEPT ![b] = 1]
        /\ UNCHANGED <<fsvars, final, Measuring>> /\ Spend("errors")
    BY DEF ReserveFails, Exit, Goto
  <1>3. LeftType'
    BY <1>1, <1>2, SpendType DEF TypeOK, LeftType
  <1>4. FsTypeOK' /\ Shrinks /\ \A m \in Names : Steady(m)
    BY <1>1, <1>2, QuietEffect
  <1>5. "over" \in Labels
    BY DEF Labels
  <1> QED BY <1>2, <1>3, <1>4, <1>5, GivesUp

LEMMA KillKeeps ==
    ASSUME IInv, NEW b \in Attempts, Kill(b), args' = args
    PROVE  IInv'
PROOF
  <1>1. TypeOK /\ FsTypeOK
    BY Facts
  <1>2. /\ pc' = [pc EXCEPT ![b] = "dead"] /\ code' = code
        /\ UNCHANGED <<fsvars, final, Measuring>> /\ Spend("crashes")
    BY DEF Kill, Goto
  <1>3. LeftType'
    BY <1>1, <1>2, SpendType DEF TypeOK, LeftType
  <1>4. FsTypeOK' /\ Shrinks /\ \A m \in Names : Steady(m)
    BY <1>1, <1>2, QuietEffect
  <1>5. "dead" \in Labels
    BY DEF Labels
  <1> QED BY <1>2, <1>3, <1>4, <1>5, GivesUp

LEMMA FinalizeFailsKeeps ==
    ASSUME IInv, NEW b \in Attempts, FinalizeFails(b), args' = args
    PROVE  IInv'
PROOF
  <1>1. TypeOK /\ FsTypeOK /\ b \in Names
    BY Facts
  <1>2. /\ pc' = [pc EXCEPT ![b] = "over"] /\ code' = [code EXCEPT ![b] = 1]
        /\ UNCHANGED <<final, Measuring>> /\ Spend("errors")
        /\ Unlink(b) \/ UNCHANGED fsvars
    BY DEF FinalizeFails, Exit, Goto
  <1>3. LeftType'
    BY <1>1, <1>2, SpendType DEF TypeOK, LeftType
  <1>4. FsTypeOK' /\ Shrinks /\ \A m \in Names : m # b => Steady(m)
    <2>1. CASE Unlink(b)
      BY <1>1, <2>1, UnlinkEffect
    <2>2. CASE UNCHANGED fsvars
      BY <1>1, <2>2, QuietEffect
    <2> QED BY <1>2, <2>1, <2>2
  <1>5. "over" \in Labels
    BY DEF Labels
  <1> QED BY <1>2, <1>3, <1>4, <1>5, GivesUp

LEMMA VerifyKeeps ==
    ASSUME IInv, NEW b \in Attempts, Verify(b), args' = args, LeftType'
    PROVE  IInv'
PROOF
  <1>1. TypeOK /\ FsTypeOK
    BY Facts
  <1>2. /\ pc[b] = "verify" /\ UNCHANGED <<fsvars, final, Measuring>>
        /\ \/ pc' = [pc EXCEPT ![b] = "over"] /\ code' = [code EXCEPT ![b] = 1]
           \/ pc' = [pc EXCEPT ![b] = "temp"] /\ code' = code
    BY DEF Verify, Exit, Goto
  <1>3. FsTypeOK' /\ Shrinks /\ \A m \in Names : Steady(m)
    BY <1>1, <1>2, QuietEffect
  <1>4. "over" \in Labels /\ "temp" \in Labels
    BY DEF Labels
  <1>5. CASE pc' = [pc EXCEPT ![b] = "over"] /\ code' = [code EXCEPT ![b] = 1]
    BY <1>2, <1>3, <1>4, <1>5, GivesUp
  <1>6. CASE pc' = [pc EXCEPT ![b] = "temp"] /\ code' = code
    <2>1. /\ TypeOK' /\ OthersSame(b) /\ pc'[b] = "temp" /\ final'[b] = final[b]
          /\ log'[b] = log[b] /\ code'[b] = code[b]
          /\ \A n : Texts(n) \subseteq Texts(n)'
      <3>1. 1 \in {-1, 0, 1, 2, 3} /\ code' \in {code, [code EXCEPT ![b] = 1]}
        BY <1>6
      <3> QED BY <1>1, <1>2, <1>3, <1>4, <1>6, <3>1, Moved DEF Measuring, Requests
    <2>2. Verdict(b)'
      BY <1>2, <2>1, VerdictMoves DEF Late
    <2>3. pc[b] \in Working /\ pc'[b] \in {"request", "attest", "confirm", "verify", "temp"}
      BY <1>2, <2>1 DEF Working
    <2> QED BY <1>2, <2>1, <2>2, <2>3, QuietMove
  <1> QED BY <1>2, <1>5, <1>6

\* What stays of the output until the report replaces it.
LEMMA OutputStays ==
    ASSUME IInv, NEW b \in Attempts, Steady(OutOf(b)), args' = args,
           pc[b] \in Working, pc'[b] \in Working
    PROVE  OutputProgress(b)'
PROOF
  <1>1. OutputProgress(b)
    BY Facts
  <1>2. PICK n : n = OutOf(b) /\ OutOf(b)' = n /\ Reserved(b)' = Reserved(b)
    BY DEF OutOf, Reserved, Paper
  <1>3. dir[n] \in Inodes /\ Firm(n, Reserved(b))
    BY <1>1, <1>2 DEF OutputProgress, OwnsOutput
  <1>4. PICK i \in Inodes : i = dir[n]
    BY <1>3
  <1>5. dir'[n] = i /\ disk'[n] = {i} /\ data'[i] = Reserved(b) /\ safe'[i] = {Reserved(b)}
    BY <1>2, <1>3, <1>4 DEF Steady, Firm, Saved, Shows
  <1>6. pc'[b] \notin {"outFill", "outFlush", "outSettle", "settle"} /\ ~Done(b)'
    BY DEF Working, Done
  <1> QED BY <1>2, <1>4, <1>5, <1>6 DEF OutputProgress, Firm, Saved, Shows

LEMMA TempKeeps ==
    ASSUME IInv, NEW b \in Attempts, Temp(b), args' = args, LeftType'
    PROVE  IInv'
PROOF
  <1>1. /\ TypeOK /\ FsTypeOK /\ Sound /\ Apart /\ Verdict(b)
        /\ OutOf(b) \in Names /\ Camp(b) \in Names /\ b \in Names
        /\ Camp(b) # b /\ OutOf(b) # b
    BY Facts
  <1>2. PICK i, c : i = FreshInode({}) /\ c = final[b]
    OBVIOUS
  <1>3. /\ pc[b] = "temp" /\ pc' = [pc EXCEPT ![b] = "sync"]
        /\ Unused({}) # {} /\ CreateAs(b, i, c, {Blank, Torn, c})
        /\ UNCHANGED <<final, code, Measuring>>
    BY <1>2 DEF Temp, CreateFilled, Goto
  <1>4. i \in Inodes /\ \A m \in Names : i \notin Entries(m)
    BY <1>2, <1>3, Fresh
  <1>5. c \in Reports /\ final[b] # Nothing
    BY <1>1, <1>2, <1>3 DEF Verdict
  <1>6. /\ FsTypeOK'
        /\ \A m \in Names : m # b => Steady(m) /\ Entries(m)' = Entries(m)
        /\ Entries(b)' \subseteq Entries(b) \cup {i}
        /\ \A j \in Inodes : j # i => Contents(j)' = Contents(j)
        /\ Contents(i)' = {Blank, Torn, c} \cup {c}
        /\ dir'[b] = i /\ data'[i] = c
    <2>1. c \in Reports \cup {Blank, Torn}
          /\ {Blank, Torn, c} \in SUBSET (Reports \cup {Blank, Torn})
      BY <1>5
    <2> QED BY <1>1, <1>3, <1>4, <2>1, CreateEffect
  <1>7. "sync" \in Labels
    BY DEF Labels
  <1>8. /\ TypeOK' /\ OthersSame(b) /\ pc'[b] = "sync" /\ code'[b] = code[b]
        /\ final'[b] = final[b] /\ log'[b] = log[b]
        /\ \A m : Texts(m) \subseteq Texts(m)'
    <2>1. 1 \in {-1, 0, 1, 2, 3} /\ code' \in {code, [code EXCEPT ![b] = 1]}
      BY <1>3
    <2> QED BY <1>1, <1>3, <1>6, <1>7, <2>1, Moved DEF Measuring, Requests
  <1>9. Sound' /\ Apart'
    <2>1. c \in Texts(b)
      BY <1>2, <1>5 DEF Texts, Place
    <2>2. Contents(i)' \subseteq Texts(b)
      BY <1>6, <2>1, NoText
    <2>3. Contents(i)' \subseteq Texts(b)'
      BY <1>8, <2>2
    <2> QED BY <1>1, <1>4, <1>6, <1>8, <2>3, CreateKeeps
  <1>10. Minds(b)
    BY <1>6 DEF Minds
  <1>11. OwnsOutput(b) /\ OwnsClaim(b) /\ pc[b] \in Working /\ pc'[b] \in Working
    BY <1>3, <1>8 DEF OwnsOutput, OwnsClaim, Working
  <1>12. Progress(b)'
    <2>1. ClaimProgress(b)'
      BY <1>1, <1>6, <1>8, <1>11, ClaimStays
    <2>2. OutputProgress(b)'
      BY <1>1, <1>6, <1>8, <1>11, OutputStays
    <2>3. TempProgress(b)'
      BY <1>2, <1>4, <1>6, <1>8 DEF TempProgress, Shows
    <2> QED BY <2>1, <2>2, <2>3 DEF Progress
  <1>13. Verdict(b)'
    BY <1>3, <1>8, VerdictMoves DEF Late
  <1> QED BY <1>8, <1>9, <1>10, <1>11, <1>12, <1>13, Assemble

LEMMA SyncKeeps ==
    ASSUME IInv, NEW b \in Attempts, Sync(b), args' = args, LeftType'
    PROVE  IInv'
PROOF
  <1>1. /\ TypeOK /\ FsTypeOK /\ TempProgress(b)
        /\ OutOf(b) \in Names /\ Camp(b) \in Names /\ b \in Names
    BY Facts
  <1>2. PICK i : i = dir[b]
    OBVIOUS
  <1>3. /\ pc[b] = "sync" /\ pc' = [pc EXCEPT ![b] = "replace"]
        /\ SyncFile(i) /\ UNCHANGED <<final, code, Measuring>>
    BY <1>2 DEF Sync, Goto
  <1>4. i \in Inodes /\ data[i] = final[b]
    BY <1>1, <1>2, <1>3 DEF TempProgress, Shows
  <1>5. /\ FsTypeOK' /\ Shrinks /\ dir' = dir /\ disk' = disk /\ data' = data
        /\ safe'[i] = {data[i]} /\ \A m \in Names : Steady(m)
    BY <1>1, <1>3, <1>4, SyncFileEffect
  <1>6. "replace" \in Labels /\ pc'[b] = "replace" /\ log' = log
    BY <1>1, <1>3 DEF Labels, TypeOK, Measuring, Requests
  <1>7. OwnsOutput(b) /\ OwnsClaim(b) /\ pc[b] \in Working /\ pc'[b] \in Working
    BY <1>3, <1>6 DEF OwnsOutput, OwnsClaim, Working
  <1>8. Progress(b)'
    <2>1. ClaimProgress(b)'
      BY <1>1, <1>5, <1>6, <1>7, ClaimStays
    <2>2. OutputProgress(b)'
      BY <1>1, <1>5, <1>7, OutputStays
    <2>3. TempProgress(b)'
      BY <1>2, <1>3, <1>4, <1>5, <1>6 DEF TempProgress, Shows, Saved
    <2> QED BY <2>1, <2>2, <2>3 DEF Progress
  <1> QED BY <1>3, <1>5, <1>6, <1>7, <1>8, SyncMove DEF Late

LEMMA RenameStepKeeps ==
    ASSUME IInv, NEW b \in Attempts, Rename(b), args' = args, LeftType'
    PROVE  IInv'
PROOF
  <1>1. /\ TypeOK /\ FsTypeOK /\ Sound /\ Apart /\ TempProgress(b)
        /\ OutOf(b) \in Names /\ Camp(b) \in Names /\ b \in Names
        /\ Camp(b) # OutOf(b) /\ Camp(b) # b /\ OutOf(b) # b
    BY Facts
  <1>2. PICK n, i : n \in Names /\ n = OutOf(b) /\ i = dir[b]
    BY <1>1
  <1>3. /\ pc[b] = "replace" /\ pc' = [pc EXCEPT ![b] = "settle"]
        /\ Replace(b, n) /\ UNCHANGED <<final, code, Measuring>>
    BY <1>2 DEF Rename, Goto, OutOf
  <1>4. i \in Inodes /\ data[i] = final[b] /\ safe[i] = {final[b]}
    BY <1>1, <1>2, <1>3 DEF TempProgress, Shows, Saved
  <1>5. /\ FsTypeOK' /\ data' = data /\ safe' = safe /\ dir'[n] = i
        /\ \A m \in Names : m \notin {b, n} => Steady(m) /\ Entries(m)' = Entries(m)
        /\ Entries(n)' \subseteq Entries(n) \cup {dir[b]}
        /\ Entries(b)' \subseteq Entries(b) \cup {NoInode}
    BY <1>1, <1>2, <1>3, ReplaceEffect
  <1>6. "settle" \in Labels
    BY DEF Labels
  <1>7. /\ TypeOK' /\ OthersSame(b) /\ pc'[b] = "settle" /\ code'[b] = code[b]
        /\ final'[b] = final[b] /\ log'[b] = log[b]
        /\ \A m : Texts(m) \subseteq Texts(m)'
    <2>1. 1 \in {-1, 0, 1, 2, 3} /\ code' \in {code, [code EXCEPT ![b] = 1]}
      BY <1>3
    <2> QED BY <1>1, <1>3, <1>5, <1>6, <2>1, Moved DEF Measuring, Requests
  <1>8. Sound' /\ Apart'
    <2>1. \A j \in Inodes : Contents(j)' = Contents(j)
      BY <1>5 DEF Contents
    <2> QED BY <1>1, <1>2, <1>5, <1>7, <2>1, RenameKeeps
  <1>9. OwnsOutput(b) /\ OwnsClaim(b) /\ ~Done(b)'
    BY <1>3, <1>7 DEF OwnsOutput, OwnsClaim, Working, Done
  <1>10. Minds(b)
    BY <1>2, <1>5, <1>9 DEF Minds
  <1>11. Progress(b)'
    <2>1. ClaimProgress(b)'
      BY <1>1, <1>2, <1>5, <1>7, <1>9, ClaimStays
    <2>2. OutOf(b)' = n
      BY <1>2 DEF OutOf
    <2>3. OutputProgress(b)' /\ TempProgress(b)'
      BY <1>4, <1>5, <1>7, <1>9, <2>2
         DEF OutputProgress, TempProgress, Working, Shows, Saved
    <2> QED BY <2>1, <2>3 DEF Progress
  <1>12. Verdict(b)'
    BY <1>3, <1>7, VerdictMoves DEF Late
  <1> QED BY <1>7, <1>8, <1>9, <1>10, <1>11, <1>12, Assemble

LEMMA SettleKeeps ==
    ASSUME IInv, NEW b \in Attempts, Settle(b), args' = args, LeftType'
    PROVE  IInv' /\ Firm(OutOf(b), final[b])' /\ Firm(Camp(b), Claimed(b))'
PROOF
  <1>1. /\ TypeOK /\ FsTypeOK /\ OutputProgress(b) /\ ClaimProgress(b)
        /\ OutOf(b) \in Names /\ Camp(b) \in Names
    BY Facts
  <1>2. PICK n \in Names, m \in Names : n = OutOf(b) /\ m = Camp(b)
    BY <1>1
  <1>3. /\ pc[b] = "settle" /\ pc' = [pc EXCEPT ![b] = "over"]
        /\ SyncDir /\ UNCHANGED <<final, code, Measuring>>
    BY DEF Settle, Goto
  <1>4. OwnsOutput(b) /\ OwnsClaim(b)
    BY <1>3 DEF OwnsOutput, OwnsClaim
  <1>5. /\ dir[n] \in Inodes /\ data[dir[n]] = final[b] /\ safe[dir[n]] = {final[b]}
        /\ dir[m] \in Inodes /\ data[dir[m]] = Claimed(b) /\ safe[dir[m]] = {Claimed(b)}
    BY <1>1, <1>2, <1>3, <1>4 DEF OutputProgress, ClaimProgress, Firm, Saved, Shows
  <1>6. /\ FsTypeOK' /\ Shrinks /\ dir' = dir /\ data' = data /\ safe' = safe
        /\ \A k \in Names : disk'[k] = {dir[k]}
        /\ \A k \in Names : Steady(k)
    BY <1>1, <1>3, SyncDirEffect
  <1>7. "over" \in Labels /\ pc'[b] = "over" /\ log' = log
    BY <1>1, <1>3 DEF Labels, TypeOK, Measuring, Requests
  <1>8. /\ OutOf(b)' = n /\ Camp(b)' = m /\ Claimed(b)' = Claimed(b)
        /\ final'[b] = final[b]
    BY <1>2, <1>3 DEF OutOf, Camp, Claimed, Paper
  <1>9. Firm(OutOf(b), final[b])' /\ Firm(Camp(b), Claimed(b))'
    BY <1>5, <1>6, <1>8 DEF Firm, Saved, Shows
  <1>10. Progress(b)'
    <2>1. ClaimProgress(b)'
      BY <1>1, <1>4, <1>6, <1>7, ClaimStays
    <2>2. OutputProgress(b)' /\ TempProgress(b)'
      BY <1>5, <1>6, <1>7, <1>8, <1>9
         DEF OutputProgress, TempProgress, Working
    <2> QED BY <2>1, <2>2 DEF Progress
  <1>11. IInv'
    BY <1>3, <1>4, <1>6, <1>7, <1>10, SyncMove DEF Late
  <1> QED BY <1>9, <1>11

LEMMA CrashKeeps ==
    ASSUME IInv, Crash, args' = args
    PROVE  /\ IInv' /\ UNCHANGED <<final, code>>
           /\ \A n \in Names : Firm(n, data[dir[n]]) =>
                 dir'[n] = dir[n] /\ data'[dir[n]] = data[dir[n]]
PROOF
  <1>1. TypeOK /\ FsTypeOK /\ Sound /\ Apart /\ Exclusive
    BY FsTypes DEF IInv
  <1>2. /\ Spend("crashes") /\ HostCrash
        /\ pc' = [a \in Attempts |-> IF Running(a) THEN "dead" ELSE pc[a]]
        /\ UNCHANGED <<final, code, log, pilot>>
    BY DEF Crash, Measuring, Requests
  <1>3. LeftType'
    BY <1>1, <1>2, SpendType DEF TypeOK, LeftType
  <1>4. /\ FsTypeOK' /\ Shrinks
        /\ \A n \in Names :
              /\ dir'[n] \in Entries(n) /\ disk'[n] = {dir'[n]}
              /\ disk[n] = {dir[n]} => dir'[n] = dir[n]
              /\ NoInode \notin disk[n] => dir'[n] \in Inodes
        /\ \A i \in Inodes :
              /\ safe'[i] = {data'[i]}
              /\ safe[i] = {data[i]} => data'[i] = data[i]
    BY <1>1, <1>2, CrashEffect
  <1>5. ASSUME NEW a \in Attempts
        PROVE  /\ pc'[a] \in {"dead", "over", "start"}
               /\ pc'[a] # "dead" => pc'[a] = pc[a]
               /\ final'[a] = final[a] /\ code'[a] = code[a] /\ log'[a] = log[a]
    BY <1>2 DEF Running
  <1>6. TypeOK'
    <2>1. pc' \in [Attempts -> Labels]
      BY <1>1, <1>2 DEF TypeOK, Labels
    <2> QED BY <1>1, <1>2, <1>3, <1>4, <2>1 DEF TypeOK, FsTypeOK, LeftType
  <1>7. Sound' /\ Apart'
    <2>1. \A n : Texts(n) \subseteq Texts(n)'
      BY <1>2, TextsGrow
    <2> QED BY <1>1, <1>4, <2>1, ShrinkKeeps
  <1>8. ASSUME NEW n \in Names, NEW c, Firm(n, c)
        PROVE  dir'[n] = dir[n] /\ Firm(n, c)'
    BY <1>4, <1>8 DEF Firm, Saved, Shows
  <1>9. ASSUME NEW a \in Attempts
        PROVE  /\ OwnsOutput(a)' => Done(a) /\ OwnsOutput(a) /\ pc'[a] = "over"
               /\ OwnsClaim(a)' => OwnsOutput(a)' \/ log[a] # <<>>
               /\ OwnsClaim(a)' => OwnsClaim(a)
               /\ Done(a)' => OwnsOutput(a)'
    BY <1>5 DEF OwnsOutput, OwnsClaim, Done, Working
  <1>10. Exclusive'
    BY <1>1, <1>9 DEF Exclusive, Camp, OutOf
  <1>11. ASSUME NEW a \in Attempts
         PROVE  Progress(a)'
    <2>1. /\ ClaimProgress(a) /\ OutputProgress(a)
          /\ Camp(a) \in Names /\ OutOf(a) \in Names
      BY Facts
    <2>2. PICK n \in Names, m \in Names :
              n = OutOf(a) /\ m = Camp(a) /\ OutOf(a)' = n /\ Camp(a)' = m
      BY <2>1 DEF OutOf, Camp
    <2>3. Claimed(a)' = Claimed(a) /\ final'[a] = final[a]
      BY <1>5 DEF Claimed, Paper
    <2>4. ClaimProgress(a)'
      <3>1. OwnsOutput(a)' => Firm(m, Claimed(a))'
        BY <1>8, <1>9, <2>1, <2>2 DEF ClaimProgress
      <3>2. OwnsOutput(a)' => dir'[m] \in Inodes
        BY <3>1 DEF Firm, Saved, Shows
      <3>3. log[a] # <<>> => dir'[m] \in Inodes /\ NoInode \notin disk'[m]
        BY <1>4, <2>1, <2>2, NamesApart DEF ClaimProgress
      <3> QED BY <1>5, <1>9, <2>2, <2>3, <3>1, <3>2, <3>3 DEF ClaimProgress, Firm, Saved, Shows
    <2>5. OutputProgress(a)'
      <3>0. PICK c : c = final[a] /\ final[a]' = c
        BY <2>3
      <3>1. Done(a)' => Firm(n, c)'
        BY <1>8, <1>9, <2>1, <2>2, <3>0 DEF OutputProgress
      <3>2. OwnsOutput(a)' => dir'[n] \in Inodes
        BY <1>8, <1>9, <2>1, <2>2 DEF OutputProgress, Firm, Saved, Shows
      <3> QED BY <1>5, <2>2, <3>0, <3>1, <3>2
              DEF OutputProgress, Working, Firm, Saved, Shows
    <2>6. TempProgress(a)'
      BY <1>5 DEF TempProgress
    <2> QED BY <2>4, <2>5, <2>6 DEF Progress
  <1>12. ASSUME NEW a \in Attempts
         PROVE  Verdict(a)'
    <2>1. Verdict(a)
      BY DEF IInv
    <2> QED BY <1>5, <2>1 DEF Verdict, Done
  <1>13. \A n \in Names : Firm(n, data[dir[n]]) =>
             dir'[n] = dir[n] /\ data'[dir[n]] = data[dir[n]]
    BY <1>4 DEF Firm, Saved, Shows
  <1> QED BY <1>2, <1>6, <1>7, <1>10, <1>11, <1>12, <1>13 DEF IInv

------------------------------------------------------------------------------
(* The invariant. *)

LEMMA MeasuringStep ==
    ASSUME NEW b \in Attempts,
           Load(b) \/ Attest(b) \/ Screen(b) \/ Conclude(b) \/ Generate(b)
    PROVE  Measures(b)
BY LoadMeasures, AttestMeasures, ScreenMeasures, ConcludeMeasures, GenerateMeasures

LEMMA StepLeft ==
    ASSUME TypeOK, NEW b \in Attempts, Step(b) PROVE LeftType'
PROOF
  <1>1. LeftType
    BY DEF TypeOK, LeftType
  <1>2. UNCHANGED left \/ Spend("mishaps") \/ Spend("errors") \/ Spend("crashes")
    <2>1. CASE Generate(b)
      BY <2>1 DEF Generate
    <2>2. CASE ReserveFails(b) \/ FinalizeFails(b) \/ Kill(b)
      BY <2>2 DEF ReserveFails, FinalizeFails, Kill
    <2> QED BY <2>1, <2>2 DEF Step
  <1>3. CASE UNCHANGED left
    BY <1>1, <1>3 DEF LeftType
  <1> QED BY <1>1, <1>2, <1>3, SpendType

LEMMA StepKeeps ==
    ASSUME IInv, NEW b \in Attempts, Step(b), args' = args
    PROVE  IInv'
PROOF
  <1>1. LeftType'
    BY StepLeft DEF IInv
  <1>2. CASE Reserve(b)
    BY <1>1, <1>2, PrecheckKeeps, ClaimOpenKeeps, ClaimFillKeeps, ClaimFlushKeeps,
       ClaimSettleKeeps, OutOpenKeeps, OutFillKeeps, OutFlushKeeps, OutSettleKeeps
       DEF Reserve
  <1>3. CASE Load(b) \/ Attest(b) \/ Screen(b) \/ Conclude(b) \/ Generate(b)
    BY <1>1, <1>3, MeasuringStep, MeasuresKeeps
  <1>4. CASE Verify(b) \/ Temp(b) \/ Sync(b) \/ Rename(b) \/ Settle(b)
    BY <1>1, <1>4, VerifyKeeps, TempKeeps, SyncKeeps, RenameStepKeeps, SettleKeeps
  <1>5. CASE ReserveFails(b) \/ FinalizeFails(b) \/ Kill(b)
    BY <1>5, ReserveFailsKeeps, FinalizeFailsKeeps, KillKeeps
  <1> QED BY <1>2, <1>3, <1>4, <1>5 DEF Step

LEMMA InitInv == Init => IInv
PROOF
  <1> SUFFICES ASSUME Init PROVE IInv
    OBVIOUS
  <1>1. /\ dir = [n \in Names |-> NoInode] /\ disk = [n \in Names |-> {NoInode}]
        /\ data = [i \in Inodes |-> Blank] /\ safe = [i \in Inodes |-> {Blank}]
    BY DEF Init, FsInit
  <1>2. /\ pc = [a \in Attempts |-> "start"] /\ log = [a \in Attempts |-> <<>>]
        /\ pilot = [a \in Attempts |-> "none"]
        /\ final = [a \in Attempts |-> Nothing] /\ code = [a \in Attempts |-> -1]
    BY DEF Init
  <1>3. PICK s \in Scenarios : args = s.args /\ left = s.left
    BY DEF Init
  <1>4. TypeOK
    <2>1. /\ \A a \in Attempts : args[a].campaign \in Campaigns /\ args[a].output \in Outputs
          /\ left \in [mishaps : Nat, errors : Nat, crashes : Nat]
      BY <1>3, CampaignAssumption
    <2> QED BY <1>1, <1>2, <2>1 DEF TypeOK, Labels
  <1>5. ASSUME NEW a \in Attempts
        PROVE  /\ pc[a] = "start" /\ log[a] = <<>> /\ final[a] = Nothing
               /\ ~Done(a) /\ ~OwnsOutput(a) /\ ~OwnsClaim(a)
    BY <1>2 DEF Done, OwnsOutput, OwnsClaim, Working
  <1>6. \A a \in Attempts : Progress(a) /\ Verdict(a)
    BY <1>5 DEF Progress, ClaimProgress, OutputProgress, TempProgress, Verdict, Working
  <1>7. Exclusive
    BY <1>5 DEF Exclusive
  <1>8. \A n \in Names : \A i \in Inodes : i \notin Entries(n)
    BY <1>1, NamesApart DEF Entries
  <1>9. Sound /\ Apart
    BY <1>8 DEF Sound, Apart
  <1> QED BY <1>4, <1>6, <1>7, <1>9 DEF IInv

LEMMA StutterKeeps ==
    ASSUME IInv, UNCHANGED vars PROVE IInv'
PROOF
  <1>1. /\ dir' = dir /\ disk' = disk /\ data' = data /\ safe' = safe
        /\ pc' = pc /\ log' = log /\ pilot' = pilot /\ final' = final /\ code' = code
        /\ args' = args /\ left' = left
    BY DEF vars, fsvars, process, given
  <1>2. TypeOK'
    BY <1>1 DEF IInv, TypeOK
  <1>3. Sound' /\ Apart'
    <2>1. FsTypeOK /\ Shrinks
      BY <1>1, FsTypes, QuietEffect DEF IInv, fsvars
    <2>2. \A n : Texts(n) \subseteq Texts(n)'
      BY <1>1, TextsGrow
    <2> QED BY <1>1, <2>1, <2>2, ShrinkKeeps DEF IInv
  <1>4. \A a : /\ OwnsOutput(a)' = OwnsOutput(a) /\ OwnsClaim(a)' = OwnsClaim(a)
               /\ Done(a)' = Done(a)
    BY <1>1 DEF OwnsOutput, OwnsClaim, Done
  <1>5. Exclusive'
    BY <1>1, <1>4 DEF IInv, Exclusive, Camp, OutOf
  <1>6. ASSUME NEW a \in Attempts
        PROVE  Progress(a)'
    <2>1. ClaimProgress(a)'
      <3>1. ClaimProgress(a)
        BY Facts
      <3> QED BY <1>1, <1>4, <3>1 DEF ClaimProgress, Shows, Saved, Firm, Camp
    <2>2. OutputProgress(a)'
      <3>1. OutputProgress(a)
        BY Facts
      <3> QED BY <1>1, <1>4, <3>1 DEF OutputProgress, Shows, Saved, Firm, OutOf
    <2>3. TempProgress(a)'
      BY <1>1, Facts DEF TempProgress, Shows, Saved
    <2> QED BY <2>1, <2>2, <2>3 DEF Progress
  <1>7. ASSUME NEW a \in Attempts
        PROVE  Verdict(a)'
    BY <1>1, <1>4, Facts DEF Verdict
  <1> QED BY <1>2, <1>3, <1>5, <1>6, <1>7 DEF IInv

LEMMA NextKeeps == IInv /\ [Next]_vars => IInv'
PROOF
  <1> SUFFICES ASSUME IInv, [Next]_vars PROVE IInv'
    OBVIOUS
  <1>1. CASE UNCHANGED vars
    BY <1>1, StutterKeeps
  <1>2. CASE Next
    <2>1. args' = args
      BY <1>2 DEF Next, given
    <2>2. CASE Crash
      BY <2>1, <2>2, CrashKeeps
    <2>3. ASSUME NEW b \in Attempts, Step(b) PROVE IInv'
      BY <2>1, <2>3, StepKeeps
    <2> QED BY <1>2, <2>2, <2>3 DEF Next
  <1> QED BY <1>1, <1>2

LEMMA Invariance == Spec => []IInv
BY InitInv, NextKeeps, PTL DEF Spec

\* Every state of the directory and of the attempts is one the types allow.
THEOREM TypeCorrect == Spec => []TypeOK
PROOF
  <1>1. IInv => TypeOK
    BY DEF IInv
  <1> QED BY <1>1, Invariance, PTL

\* A campaign is measured at most once, whatever crashes in between: an attempt
\* that made a request owns the claim, and the claim's entry outlives a crash
\* from before the first request on (_reserve_attempt).
THEOREM CampaignMeasuredOnce == Spec => []OneMeasurement
PROOF
  <1>1. IInv => OneMeasurement
    BY DEF IInv, Exclusive, OwnsClaim, OneMeasurement, Camp
  <1> QED BY <1>1, Invariance, PTL

------------------------------------------------------------------------------
(* Exit status 0 is a durable promotion. *)

LEMMA EndsBySettle ==
    ASSUME TypeOK, NEW b \in Attempts, Step(b), NEW a \in Attempts,
           pc[a] # "over", pc'[a] = "over", code'[a] = 0
    PROVE  a = b /\ Settle(b)
PROOF
  <1>1. pc \in [Attempts -> Labels] /\ code \in [Attempts -> {-1, 0, 1, 2, 3}]
    BY DEF TypeOK
  <1>2. ASSUME NEW to, pc' = [pc EXCEPT ![b] = to]
        PROVE  a = b /\ to = "over"
    BY <1>1, <1>2
  <1>3. ASSUME Exit(b, 1) PROVE FALSE
    BY <1>1, <1>2, <1>3 DEF Exit, Goto
  <1>4. ASSUME NEW to, to # "over", Goto(b, to) PROVE FALSE
    BY <1>2, <1>4 DEF Goto
  <1>5. ASSUME Reserve(b) PROVE FALSE
    BY <1>3, <1>4, <1>5 DEF Reserve, Precheck, ClaimOpen, ClaimFill, ClaimFlush, ClaimSettle,
       OutOpen, OutFill, OutFlush, OutSettle
  <1>6. ASSUME Measures(b) PROVE FALSE
    BY <1>4, <1>6 DEF Measures, Decides, Publish
  <1>7. ASSUME Verify(b) \/ Temp(b) \/ Sync(b) \/ Rename(b) PROVE FALSE
    BY <1>3, <1>4, <1>7 DEF Verify, Temp, Sync, Rename
  <1>8. ASSUME ReserveFails(b) \/ FinalizeFails(b) \/ Kill(b) PROVE FALSE
    BY <1>3, <1>4, <1>8 DEF ReserveFails, FinalizeFails, Kill
  <1>9. Settle(b)
    BY <1>5, <1>6, <1>7, <1>8, MeasuringStep DEF Step
  <1>10. a = b
    BY <1>2, <1>9 DEF Settle, Goto
  <1> QED BY <1>9, <1>10

LEMMA NextDurable ==
    ASSUME IInv, [Next]_vars, NEW a \in Attempts,
           pc[a] # "over", pc'[a] = "over", code'[a] = 0
    PROVE  /\ OnDisk(args[a].output)' = {final[a]}
           /\ final[a].decision = "PROMOTION PASS"
           /\ OnDisk(args[a].campaign)' = {Claimed(a)}
PROOF
  <1>1. TypeOK /\ Verdict(a) /\ Next
    BY DEF IInv, vars, process
  <1>2. args' = args
    BY <1>1 DEF Next, given
  <1>3. ~Crash
    BY <1>1 DEF Crash, Running
  <1>4. PICK b \in Attempts : Step(b)
    BY <1>1, <1>3 DEF Next
  <1>5. Settle(a)
    BY <1>1, <1>4, EndsBySettle
  <1>6. UNCHANGED <<final, code, Measuring>> /\ pc[a] = "settle"
    BY <1>5 DEF Settle
  <1>8. LeftType'
    BY <1>1, <1>4, StepLeft
  <1>9. PICK n, m, c, d : /\ n = OutOf(a) /\ n = OutOf(a)' /\ m = Camp(a) /\ m = Camp(a)'
                          /\ c = final[a] /\ c = final[a]' /\ d = Claimed(a) /\ d = Claimed(a)'
    BY <1>2, <1>6 DEF OutOf, Camp, Claimed, Paper
  <1>10. Firm(OutOf(a), final[a])' /\ Firm(Camp(a), Claimed(a))'
    BY <1>2, <1>5, <1>8, SettleKeeps
  <1>11. Firm(n, c)' /\ Firm(m, d)'
    BY <1>9, <1>10 DEF Firm, Saved, Shows
  <1>12. OnDisk(n)' = {c} /\ OnDisk(m)' = {d}
    <2>1. NoInode \notin Inodes
      BY NamesApart
    <2> QED BY <1>11, <2>1 DEF Firm, Saved, Shows, OnDisk
  <1>13. final[a].decision = "PROMOTION PASS"
    BY <1>1, <1>6 DEF Verdict
  <1>14. /\ OnDisk(args[a].output)' = OnDisk(n)' /\ OnDisk(args[a].campaign)' = OnDisk(m)'
    BY <1>9 DEF OnDisk, OutOf, Camp
  <1> QED BY <1>9, <1>12, <1>13, <1>14

\* Exit status 0 promises a promotion and its claim that survive a crash: it is
\* reached only through the sync of the directory, after the file was synced
\* under its temporary name (_finalize_attempt, main).
THEOREM ExitZeroIsDurable == Spec => PassIsDurable
PROOF
  <1>1. IInv /\ [Next]_vars =>
            [\A a \in Attempts :
                pc[a] # "over" /\ pc'[a] = "over" /\ code'[a] = 0 =>
                    /\ OnDisk(args[a].output)' = {final[a]}
                    /\ final[a].decision = "PROMOTION PASS"
                    /\ OnDisk(args[a].campaign)' = {Claimed(a)}]_vars
    BY NextDurable
  <1> QED BY <1>1, Invariance, PTL DEF Spec, PassIsDurable

------------------------------------------------------------------------------
(* Evidence is final. *)

\* A whole text that may be read under an output is an attempt's own.
LEMMA TextOf ==
    ASSUME IInv, NEW n \in Outputs, NEW r \in Texts(n), Whole(r)
    PROVE  /\ r.by \in Attempts /\ OutOf(r.by) = n
           /\ r = Reserved(r.by) \/ (r = final[r.by] /\ final[r.by] # Nothing)
PROOF
  <1>1. TypeOK /\ \A a \in Attempts : Verdict(a)
    BY DEF IInv
  <1>2. n \notin Attempts /\ n \notin Campaigns
    BY NamesApart
  <1>3. \A a \in Attempts : Camp(a) # n
    BY <1>1, <1>2, CampNames
  <1>4. \/ \E a \in Attempts : r = Reserved(a) /\ OutOf(a) = n
        \/ \E a \in Attempts : r = final[a] /\ final[a] # Nothing /\ OutOf(a) = n
    BY <1>2, <1>3 DEF Texts, Place, Whole
  <1>5. ASSUME NEW a \in Attempts, r = Reserved(a), OutOf(a) = n
        PROVE  r.by = a
    BY <1>5, Papers
  <1>6. ASSUME NEW a \in Attempts, r = final[a], final[a] # Nothing
        PROVE  r.by = a
    BY <1>1, <1>6 DEF Verdict
  <1> QED BY <1>4, <1>5, <1>6

\* A whole report under an output name is an attempt's own, for that output.
LEMMA ReportOf ==
    ASSUME IInv, NEW n \in Outputs, Whole(Seen(n))
    PROVE  /\ n \in Names /\ dir[n] \in Inodes /\ Seen(n) = data[dir[n]]
           /\ Seen(n).by \in Attempts /\ OutOf(Seen(n).by) = n
           /\ Seen(n) = Reserved(Seen(n).by) \/ Seen(n) = final[Seen(n).by]
PROOF
  <1>1. TypeOK /\ Sound
    BY DEF IInv
  <1>2. n \in Names /\ n \notin Attempts /\ n \notin Campaigns
    BY NamesApart
  <1>3. Exists(n) /\ Seen(n) = data[dir[n]] /\ dir[n] \in Inodes
    BY <1>1, <1>2 DEF Whole, Seen, Exists, TypeOK
  <1>4. data[dir[n]] \in Texts(n)
    BY <1>1, <1>2, <1>3 DEF Sound, Entries, Contents
  <1>5. PICK r : r = Seen(n)
    OBVIOUS
  <1> QED BY <1>2, <1>3, <1>4, <1>5, TextOf

LEMMA SteadySeen ==
    ASSUME NEW n, dir[n] \in Inodes, Steady(n)
    PROVE  Seen(n)' = Seen(n)
BY NamesApart DEF Steady, Seen, Exists

\* A step shows something else under an output only by its own rename.
LEMMA StepSeen ==
    ASSUME IInv, NEW b \in Attempts, Step(b), args' = args,
           NEW n \in Outputs, Whole(Seen(n)), Seen(n)' # Seen(n)
    PROVE  Rename(b) /\ n = OutOf(b)
PROOF
  <1>1. /\ TypeOK /\ FsTypeOK /\ Apart /\ ClaimProgress(b) /\ OutputProgress(b)
        /\ TempProgress(b)
        /\ Camp(b) \in Names /\ OutOf(b) \in Names /\ b \in Names
        /\ Camp(b) \notin Outputs /\ Camp(b) \notin Attempts
    BY Facts
  <1>2. n \in Names /\ n \notin Attempts /\ dir[n] \in Inodes
    BY ReportOf, NamesApart
  <1>3. ~Steady(n)
    BY <1>2, SteadySeen
  <1>4. ~UNCHANGED fsvars /\ ~SyncDir
    BY <1>1, <1>2, <1>3, QuietEffect, SyncDirEffect
  <1>5. ASSUME NEW i \in Inodes PROVE ~SyncFile(i)
    BY <1>1, <1>2, <1>3, SyncFileEffect
  <1>6. ASSUME NEW m \in Names, m # n, NEW i, i = FreshInode({}), Unused({}) # {},
               NEW c \in Reports \cup {Blank, Torn},
               NEW may \in SUBSET (Reports \cup {Blank, Torn})
        PROVE  ~CreateAs(m, i, c, may)
    <2>1. i \in Inodes /\ \A k \in Names : i \notin Entries(k)
      BY <1>6, Fresh
    <2> QED BY <1>1, <1>2, <1>3, <1>6, <2>1, CreateEffect
  <1>7. ~ClaimOpen(b)
    <2>1. Blank \in Reports \cup {Blank, Torn} /\ {Blank} \in SUBSET (Reports \cup {Blank, Torn})
      OBVIOUS
    <2> QED BY <1>1, <1>4, <1>6, <2>1 DEF ClaimOpen, Opening, Create, Camp
  <1>8. ~ClaimFill(b)
    <2> SUFFICES ASSUME ClaimFill(b) PROVE FALSE
      OBVIOUS
    <2>1. dir[Camp(b)] \in Inodes /\ WriteFile(dir[Camp(b)], Claimed(b))
      BY <1>1 DEF ClaimFill, ClaimProgress, OwnsClaim, Camp
    <2>2. Claimed(b) \in Reports \cup {Blank, Torn}
      BY Papers
    <2>3. dir[n] = dir[Camp(b)]
      BY <1>1, <1>2, <1>3, <2>1, <2>2, WriteEffect
    <2>4. dir[n] \in Entries(n) /\ dir[n] \in Entries(Camp(b))
      BY <2>3 DEF Entries
    <2> QED BY <1>1, <1>2, <2>4, CampNames DEF Apart
  <1>9. ~ClaimFlush(b)
    BY <1>1, <1>5 DEF ClaimFlush, ClaimProgress, Shows, Camp
  <1>10. ~OutOpen(b)
    <2> SUFFICES ASSUME OutOpen(b) PROVE FALSE
      OBVIOUS
    <2>1. ~Exists(OutOf(b)) /\ Opening(OutOf(b))
      BY <1>4 DEF OutOpen, OutOf
    <2>2. OutOf(b) # n
      BY <1>2, <2>1, NamesApart DEF Exists
    <2>3. Blank \in Reports \cup {Blank, Torn} /\ {Blank} \in SUBSET (Reports \cup {Blank, Torn})
      OBVIOUS
    <2> QED BY <1>1, <1>6, <2>1, <2>2, <2>3 DEF Opening, Create
  <1>11. ~OutFill(b)
    <2> SUFFICES ASSUME OutFill(b) PROVE FALSE
      OBVIOUS
    <2>1. /\ dir[OutOf(b)] \in Inodes /\ data[dir[OutOf(b)]] = Blank
          /\ WriteFile(dir[OutOf(b)], Reserved(b))
      BY <1>1 DEF OutFill, OutputProgress, Shows, OutOf
    <2>2. Reserved(b) \in Reports \cup {Blank, Torn}
      BY Papers
    <2>3. dir[n] = dir[OutOf(b)]
      BY <1>1, <1>2, <1>3, <2>1, <2>2, WriteEffect
    <2> QED BY <2>1, <2>3, ReportOf DEF Whole
  <1>12. ~OutFlush(b)
    BY <1>1, <1>5 DEF OutFlush, OutputProgress, Shows, OutOf
  <1>13. ~Reserve(b)
    BY <1>4, <1>7, <1>8, <1>9, <1>10, <1>11, <1>12
       DEF Reserve, Precheck, ClaimSettle, OutSettle
  <1>14. ~Measures(b) /\ ~Verify(b) /\ ~Settle(b) /\ ~ReserveFails(b) /\ ~Kill(b)
    BY <1>4 DEF Measures, Verify, Settle, ReserveFails, Kill
  <1>15. ~Temp(b)
    <2> SUFFICES ASSUME Temp(b) PROVE FALSE
      OBVIOUS
    <2>1. final[b] \in Reports
      BY DEF Temp, IInv, Verdict
    <2>2. /\ final[b] \in Reports \cup {Blank, Torn}
          /\ {Blank, Torn, final[b]} \in SUBSET (Reports \cup {Blank, Torn})
      BY <2>1
    <2> QED BY <1>1, <1>2, <1>6, <2>2 DEF Temp, CreateFilled
  <1>16. ~Sync(b)
    BY <1>1, <1>5 DEF Sync, TempProgress, Shows
  <1>17. ~FinalizeFails(b)
    <2>1. ~Unlink(b)
      BY <1>1, <1>2, <1>3, UnlinkEffect
    <2> QED BY <1>4, <2>1 DEF FinalizeFails
  <1>18. Rename(b)
    BY <1>13, <1>14, <1>15, <1>16, <1>17, MeasuringStep DEF Step
  <1>19. n = OutOf(b)
    <2>1. Replace(b, OutOf(b)) /\ b # OutOf(b)
      BY <1>1, <1>18, Facts DEF Rename, OutOf
    <2> QED BY <1>1, <1>2, <1>3, <2>1, ReplaceEffect
  <1> QED BY <1>18, <1>19

LEMMA NextEvidence ==
    ASSUME IInv, [Next]_vars, NEW n \in Outputs, Whole(Seen(n)), Seen(n)' # Seen(n),
           NEW a, a = Seen(n).by
    PROVE  /\ ~(pc[a] = "over" /\ code[a] \in {0, 2, 3})
           /\ \/ left'.crashes # left.crashes
              \/ /\ Seen(n).status = "attempt_reserved" /\ Whole(Seen(n))'
                 /\ Seen(n)' = final[a]
PROOF
  <1>1. /\ TypeOK /\ n \in Names /\ dir[n] \in Inodes /\ Seen(n) = data[dir[n]]
        /\ a \in Attempts /\ OutOf(a) = n
    BY ReportOf DEF IInv
  <1>2. Next
    BY DEF vars, fsvars, Seen, Exists
  <1>3. args' = args
    BY <1>2 DEF Next, given
  <1>4. CASE Crash
    <2>1. ~Done(a)
      <3> SUFFICES ASSUME Done(a) PROVE FALSE
        OBVIOUS
      <3>1. Firm(n, final[a])
        BY <1>1, Facts DEF OutputProgress
      <3>2. Firm(n, data[dir[n]])
        BY <3>1 DEF Firm, Saved, Shows
      <3>3. dir'[n] = dir[n] /\ data'[dir[n]] = data[dir[n]]
        BY <1>1, <1>3, <1>4, <3>2, CrashKeeps
      <3> QED BY <1>1, <3>3, NamesApart DEF Seen, Exists
    <2>2. left'.crashes # left.crashes
      <3>1. left' = [left EXCEPT !["crashes"] = left["crashes"] - 1]
        BY <1>4 DEF Crash, Spend
      <3>2. left \in [mishaps : Nat, errors : Nat, crashes : Nat]
        BY <1>1 DEF TypeOK
      <3> QED BY <3>1, <3>2
    <2> QED BY <2>1, <2>2 DEF Done
  <1>5. ASSUME NEW b \in Attempts, Step(b)
        PROVE  /\ ~(pc[a] = "over" /\ code[a] \in {0, 2, 3})
               /\ \/ left'.crashes # left.crashes
                  \/ /\ Seen(n).status = "attempt_reserved" /\ Whole(Seen(n))'
                     /\ Seen(n)' = final[a]
    <2>1. Rename(b) /\ n = OutOf(b)
      BY <1>3, <1>5, StepSeen
    <2>2. /\ TypeOK /\ FsTypeOK /\ TempProgress(b) /\ OutputProgress(b) /\ Verdict(b)
          /\ b \in Names /\ b # OutOf(b)
      BY Facts
    <2>3. pc[b] = "replace" /\ Replace(b, n)
      BY <2>1 DEF Rename, OutOf
    <2>4. Seen(n) = Reserved(b) /\ a = b /\ Seen(n).status = "attempt_reserved"
      <3>1. Seen(n) = Reserved(b)
        BY <1>1, <2>1, <2>2, <2>3 DEF OutputProgress, Working, Firm, Saved, Shows
      <3> QED BY <3>1, Papers
    <2>5. /\ dir[b] \in Inodes /\ data[dir[b]] = final[b] /\ final[b] \in Reports
      BY <2>2, <2>3 DEF TempProgress, Saved, Shows, Verdict
    <2>6. dir'[n] = dir[b] /\ data' = data
      BY <1>1, <2>1, <2>2, <2>3, ReplaceEffect
    <2>7. Seen(n)' = final[b] /\ Whole(Seen(n))'
      BY <2>5, <2>6, NamesApart DEF Seen, Exists, Whole
    <2> QED BY <2>3, <2>4, <2>7
  <1> QED BY <1>2, <1>4, <1>5 DEF Next

\* Evidence is final: a report changes only from an attempt's reservation to its
\* own result, and what a finished attempt reported outlives a crash
\* (_finalize_attempt).
THEOREM EvidenceIsFinal == Spec => EvidenceKept
PROOF
  <1>1. IInv /\ [Next]_vars =>
            [\A n \in Outputs :
                Whole(Seen(n)) /\ Seen(n)' # Seen(n) =>
                    LET a == Seen(n).by
                    IN /\ ~(pc[a] = "over" /\ code[a] \in {0, 2, 3})
                       /\ \/ left'.crashes # left.crashes
                          \/ /\ Seen(n).status = "attempt_reserved" /\ Whole(Seen(n))'
                             /\ Seen(n)' = final[a]]_vars
    BY NextEvidence
  <1> QED BY <1>1, Invariance, PTL DEF Spec, EvidenceKept

------------------------------------------------------------------------------
(* A report on disk. *)

\* A report that says PROMOTION PASS is the decision of the attempt it names.
LEMMA PassIsFinal ==
    ASSUME IInv, NEW n \in Outputs, NEW r \in MayShow(n), Whole(r), r.decision = "PROMOTION PASS"
    PROVE  r.by \in Attempts /\ r = final[r.by] /\ final[r.by] # Nothing
<1>1. TypeOK /\ Sound /\ n \in Names
  BY NamesApart DEF IInv
<1>2. r \in Texts(n)
  <2>1. CASE r \in OnDisk(n)
    <3>1. PICK i \in disk[n] : r \in IF i = NoInode THEN {Absent} ELSE safe[i]
      BY <2>1 DEF OnDisk
    <3>2. i # NoInode
      BY <3>1 DEF Whole
    <3>3. i \in Inodes
      <4>1. disk[n] \subseteq Inodes \cup {NoInode}
        BY <1>1 DEF TypeOK
      <4> QED BY <3>2, <4>1
    <3> QED BY <1>1, <3>1, <3>2, <3>3 DEF Sound, Entries, Contents
  <2>2. CASE r = Seen(n)
    <3>1. dir[n] # NoInode /\ r = data[dir[n]]
      BY <2>2 DEF Seen, Exists, Whole
    <3>2. dir[n] \in Inodes
      BY <1>1, <3>1 DEF TypeOK
    <3> QED BY <1>1, <3>1, <3>2 DEF Sound, Entries, Contents
  <2> QED BY <2>1, <2>2 DEF MayShow
<1>3. /\ r.by \in Attempts
      /\ r = Reserved(r.by) \/ (r = final[r.by] /\ final[r.by] # Nothing)
  BY <1>2, TextOf
<1>4. ASSUME NEW a \in Attempts, r = Reserved(a) PROVE FALSE
  <2>1. Reserved(a).decision = "INCONCLUSIVE"
    BY DEF Reserved, Paper
  <2>2. r.decision = "INCONCLUSIVE"
    BY <1>4, <2>1, Zenon
  <2>3. "INCONCLUSIVE" # "PROMOTION PASS"
    OBVIOUS
  <2> QED BY <2>2, <2>3
<1> QED BY <1>3, <1>4

------------------------------------------------------------------------------
(* An exact row.  Whatever befalls an answer, what passes for its rows are  *)
(* the rows the model computed, when the text varies.                       *)

TrueRows(prompt) == [p \in 1..(Len(prompt) - 1) |-> TrueRow(prompt, p)]

Varies(prompt) == Len(prompt) > 2 => \E q \in 2..(Len(prompt) - 1) : prompt[q] # prompt[q + 1]

Exact(prompt) == prompt \in Seq(Tokens) /\ Len(prompt) >= 2 /\ Varies(prompt)

HonestCells(prompt, p) == TrueAnswer(prompt).rows[p]

LEMMA TailIs ==
    ASSUME NEW S, NEW s \in Seq(S), Len(s) > 0
    PROVE  /\ Tail(s) \in Seq(S) /\ Len(Tail(s)) = Len(s) - 1
           /\ DOMAIN Tail(s) = 1..(Len(s) - 1)
           /\ \A j \in 1..(Len(s) - 1) : Tail(s)[j] = s[j + 1]
OBVIOUS

LEMMA Patched ==
    ASSUME NEW s \in Seq(Int), Len(s) >= 2, NEW v \in Int
    PROVE  LET t == [s EXCEPT ![2] = v]
           IN /\ t \in Seq(Int) /\ Len(t) = Len(s) /\ t[2] = v
              /\ \A j \in 1..Len(s) : j # 2 => t[j] = s[j]
OBVIOUS

LEMMA SameSeq ==
    ASSUME NEW S, NEW s \in Seq(S), NEW t \in Seq(S), Len(s) = Len(t),
           \A j \in 1..Len(s) : s[j] = t[j]
    PROVE  s = t
OBVIOUS

\* What each disturbance leaves of an answer.
LEMMA DisturbedIs ==
    ASSUME NEW ans, {"prompt", "rows", "schema"} \subseteq DOMAIN ans
    PROVE  /\ Disturbed("none", ans) = ans
           /\ Disturbed("shifted", ans).rows = Append(Tail(ans.rows), ans.rows[1])
           /\ Disturbed("short", ans).rows = Tail(ans.rows)
           /\ Disturbed("other", ans).prompt = Tail(ans.prompt)
           /\ Disturbed("stock", ans).schema = "flat"
BY Zenon DEF Disturbed

LEMMA DamagedIs ==
    ASSUME NEW ans, "rows" \in DOMAIN ans, 1 \in DOMAIN ans.rows,
           {"ids", "vals"} \subseteq DOMAIN ans.rows[1]
    PROVE  /\ Disturbed("repeated", ans).rows[1].ids
                   = [ans.rows[1].ids EXCEPT ![2] = ans.rows[1].ids[2] - 1]
           /\ Disturbed("infinite", ans).rows[1].vals = [ans.rows[1].vals EXCEPT ![2] = -1]
<1> DEFINE repeated == Disturbed("repeated", ans)
           infinite == Disturbed("infinite", ans)
<1>1. repeated.rows = [ans.rows EXCEPT ![1].ids[2] = @ - 1]
  BY Zenon DEF Disturbed
<1>2. repeated.rows[1] = [ans.rows[1] EXCEPT !.ids[2] = @ - 1]
  BY <1>1, Zenon
<1>3. repeated.rows[1].ids = [ans.rows[1].ids EXCEPT ![2] = @ - 1]
  BY <1>2, Zenon
<1>4. infinite.rows = [ans.rows EXCEPT ![1].vals[2] = -1]
  BY Zenon DEF Disturbed
<1>5. infinite.rows[1] = [ans.rows[1] EXCEPT !.vals[2] = -1]
  BY <1>4, Zenon
<1>6. infinite.rows[1].vals = [ans.rows[1].vals EXCEPT ![2] = -1]
  BY <1>5, Zenon
<1> QED BY <1>3, <1>6

LEMMA HonestAnswer ==
    ASSUME NEW prompt, prompt \in Seq(Tokens), Len(prompt) >= 2
    PROVE  LET ans == TrueAnswer(prompt)
           IN /\ {"prompt", "rows", "schema"} \subseteq DOMAIN ans
              /\ ans.prompt = prompt /\ ans.schema = "tensor"
              /\ ans.rows = [p \in 1..(Len(prompt) - 1) |-> HonestCells(prompt, p)]
              /\ Len(prompt) \in Nat
<1>1. Len(prompt) \in Nat
  OBVIOUS
<1> QED BY <1>1 DEF TrueAnswer, TransportOf, HonestCells

LEMMA HonestRow ==
    ASSUME NEW prompt, prompt \in Seq(Tokens), NEW p \in 1..(Len(prompt) - 1)
    PROVE  LET cells == HonestCells(prompt, p)
           IN /\ cells.ids \in Seq(Int) /\ Len(cells.ids) = Vocab + 1
              /\ cells.vals \in Seq(Int) /\ Len(cells.vals) = Vocab + 1
              /\ cells.ids[1] = prompt[p + 1]
              /\ \A j \in 1..Vocab : /\ cells.ids[j + 1] = Vocab - j
                                     /\ cells.vals[j + 1] = TrueRow(prompt, p)[Vocab - j]
<1> DEFINE cells == [t \in 1..Vocab |-> Vocab - t]
           tail == [j \in 1..Vocab |-> TrueRow(prompt, p)[cells[j]]]
<1>1. Vocab \in Nat /\ Vocab > 0 /\ \A j \in 1..Vocab : cells[j] \in Tokens /\ cells[j] \in Int
  BY VocabAssumption DEF Tokens
<1>2. prompt[p + 1] \in Tokens /\ prompt[p + 1] \in Int
  <2>1. p + 1 \in 1..Len(prompt)
    OBVIOUS
  <2>2. prompt[p + 1] \in Tokens
    BY <2>1
  <2> QED BY <1>1, <2>2 DEF Tokens
<1>3. \A t \in Tokens : TrueRow(prompt, p)[t] \in Int
  BY <1>1 DEF TrueRow, Tokens
<1>4. cells \in Seq(Int) /\ Len(cells) = Vocab
  BY <1>1
<1>5. tail \in Seq(Int) /\ Len(tail) = Vocab
  BY <1>1, <1>3
<1>6. HonestCells(prompt, p)
         = [ids |-> <<prompt[p + 1]>> \o cells, vals |-> <<TrueRow(prompt, p)[prompt[p + 1]]>> \o tail]
  BY DEF HonestCells, TrueAnswer
<1>7. <<prompt[p + 1]>> \in Seq(Int) /\ <<TrueRow(prompt, p)[prompt[p + 1]]>> \in Seq(Int)
  BY <1>2, <1>3
<1>8. \A j \in 1..Vocab : cells[j] = Vocab - j /\ tail[j] = TrueRow(prompt, p)[Vocab - j]
  OBVIOUS
<1> HIDE DEF cells, tail
<1>9. \A x \in Seq(Int), v \in Int : /\ <<v>> \o x \in Seq(Int) /\ Len(<<v>> \o x) = Len(x) + 1
                                    /\ (<<v>> \o x)[1] = v
                                    /\ \A j \in 1..Len(x) : (<<v>> \o x)[j + 1] = x[j]
  OBVIOUS
<1> QED BY <1>1, <1>2, <1>3, <1>4, <1>5, <1>6, <1>8, <1>9, SMTT(30)

\* Of honest cells the row is the true one.
LEMMA HonestPacked ==
    ASSUME NEW prompt, prompt \in Seq(Tokens), NEW p \in 1..(Len(prompt) - 1)
    PROVE  Packed(HonestCells(prompt, p)) = TrueRow(prompt, p)
<1> DEFINE cells == HonestCells(prompt, p)
           ids == Tail(cells.ids)
           vals == Tail(cells.vals)
<1>1. Vocab \in Nat /\ Vocab > 0
  BY VocabAssumption
<1>2. /\ DOMAIN ids = 1..Vocab
      /\ \A j \in 1..Vocab : ids[j] = Vocab - j /\ vals[j] = TrueRow(prompt, p)[Vocab - j]
  <2>1. /\ cells.ids \in Seq(Int) /\ Len(cells.ids) = Vocab + 1
        /\ cells.vals \in Seq(Int) /\ Len(cells.vals) = Vocab + 1
        /\ \A j \in 1..Vocab : /\ cells.ids[j + 1] = Vocab - j
                               /\ cells.vals[j + 1] = TrueRow(prompt, p)[Vocab - j]
    BY HonestRow
  <2> HIDE DEF cells
  <2>2. DOMAIN ids = 1..Vocab /\ \A j \in 1..Vocab : ids[j] = cells.ids[j + 1]
    <3>1. Len(cells.ids) > 0 /\ Len(cells.ids) - 1 = Vocab
      BY <1>1, <2>1
    <3> QED BY <2>1, <3>1, TailIs
  <2>3. \A j \in 1..Vocab : vals[j] = cells.vals[j + 1]
    <3>1. Len(cells.vals) > 0 /\ Len(cells.vals) - 1 = Vocab
      BY <1>1, <2>1
    <3> QED BY <2>1, <3>1, TailIs
  <2> QED BY <2>1, <2>2, <2>3
<1> HIDE DEF ids, vals
<1>3. ASSUME NEW t \in Tokens
      PROVE  LastCell([ids |-> ids, vals |-> vals], t) = TrueRow(prompt, p)[t]
  <2> DEFINE Is(j) == /\ ids[j] = t
                      /\ \A k \in DOMAIN ids : ids[k] = t => k <= j
  <2>1. Vocab - t \in 1..Vocab /\ Vocab - (Vocab - t) = t
    BY <1>1 DEF Tokens
  <2>2. \A j \in DOMAIN ids : Is(j) <=> j = Vocab - t
    BY <1>1, <1>2, <2>1, SMTT(30) DEF Tokens
  <2>3. (CHOOSE j \in DOMAIN ids : Is(j)) = Vocab - t
    <3> HIDE DEF Is
    <3> QED BY <1>2, <2>1, <2>2
  <2>4. LastCell([ids |-> ids, vals |-> vals], t) = vals[CHOOSE j \in DOMAIN ids : Is(j)]
    BY DEF LastCell
  <2> QED BY <1>2, <2>1, <2>3, <2>4
<1>4. Packed(cells) = [t \in Tokens |-> LastCell([ids |-> ids, vals |-> vals], t)]
  BY DEF Packed, ids, vals
<1>5. TrueRow(prompt, p) = [t \in Tokens |-> TrueRow(prompt, p)[t]]
  BY DEF TrueRow
<1> QED BY <1>3, <1>4, <1>5

\* What a gate that passed says.
LEMMA Passed ==
    ASSUME NEW ans, NEW prompt, Compact(ans, prompt) # Refused, ans.schema = "tensor"
    PROVE  /\ ans.prompt = prompt /\ Len(ans.rows) = Len(prompt) - 1 /\ ans.rows # <<>>
           /\ \A p \in DOMAIN ans.rows : TensorRowHolds(ans.rows[p], prompt[p + 1])
           /\ Compact(ans, prompt) = [p \in DOMAIN ans.rows |-> Packed(ans.rows[p])]
BY DEF Compact, RowHolds

LEMMA RowsAreTrue ==
    ASSUME NEW prompt, Exact(prompt), NEW d \in Disturbances,
           NEW ans, ans = Disturbed(d, TrueAnswer(prompt)),
           Compact(ans, prompt) # Refused, ans.schema = "tensor"
    PROVE  Compact(ans, prompt) = TrueRows(prompt)
<1> DEFINE L == Len(prompt) - 1
           true == TrueAnswer(prompt)
           rows == true.rows
           cells == HonestCells(prompt, 1)
<1>1. prompt \in Seq(Tokens) /\ Len(prompt) \in Nat /\ L >= 1 /\ L \in Nat /\ Vocab \in Nat /\ Vocab > 0
  BY VocabAssumption DEF Exact
<1>2. /\ {"prompt", "rows", "schema"} \subseteq DOMAIN true
      /\ true.prompt = prompt /\ true.schema = "tensor"
      /\ rows = [p \in 1..L |-> HonestCells(prompt, p)]
  BY <1>1, HonestAnswer
<1>3. /\ ans.prompt = prompt /\ Len(ans.rows) = L
      /\ \A p \in DOMAIN ans.rows : TensorRowHolds(ans.rows[p], prompt[p + 1])
      /\ Compact(ans, prompt) = [p \in DOMAIN ans.rows |-> Packed(ans.rows[p])]
  <2> HIDE DEF L
  <2>1. Len(ans.rows) = Len(prompt) - 1
    BY Passed
  <2> QED BY <2>1, Passed DEF L
<1>4. /\ rows \in Seq({HonestCells(prompt, p) : p \in 1..L}) /\ Len(rows) = L
      /\ 1 \in 1..L /\ DOMAIN rows = 1..L /\ rows[1] = cells
  BY <1>1, <1>2
<1>5. ASSUME ans.rows = rows
      PROVE  Compact(ans, prompt) = TrueRows(prompt)
  BY <1>1, <1>2, <1>3, <1>5, HonestPacked DEF TrueRows
<1>6. /\ cells.ids \in Seq(Int) /\ Len(cells.ids) = Vocab + 1
      /\ cells.vals \in Seq(Int) /\ Len(cells.vals) = Vocab + 1
      /\ \A j \in 1..Vocab : cells.ids[j + 1] = Vocab - j
  BY <1>1, <1>4, HonestRow
<1>7. {"ids", "vals"} \subseteq DOMAIN rows[1]
  <2>1. \A p \in 1..L : {"ids", "vals"} \subseteq DOMAIN HonestCells(prompt, p)
    BY DEF HonestCells, TrueAnswer
  <2> QED BY <1>4, <2>1
<1>8. rows[1] = cells
  BY <1>4
<1> HIDE DEF rows, true, cells
<1>9. CASE d = "none"
  <2>1. ans.rows = rows
    BY <1>2, <1>9, DisturbedIs DEF rows, true
  <2> QED BY <1>5, <2>1
<1>10. CASE d = "shifted"
  <2>1. ans.rows = Append(Tail(rows), rows[1])
    BY <1>2, <1>10, DisturbedIs DEF rows, true
  <2>2. PICK S : rows \in Seq(S) /\ rows[1] \in S
    BY <1>4
  <2>3. /\ Tail(rows) \in Seq(S) /\ Len(Tail(rows)) = L - 1
        /\ \A j \in 1..(L - 1) : Tail(rows)[j] = rows[j + 1]
    BY <1>1, <1>4, <2>2, TailIs
  <2>4. /\ DOMAIN ans.rows = 1..L /\ ans.rows[L] = rows[1]
        /\ \A j \in 1..(L - 1) : ans.rows[j] = rows[j + 1]
        /\ ans.rows \in Seq(S)
    BY <1>1, <2>1, <2>2, <2>3
  <2>5. CASE L = 1
    <3>1. ans.rows = rows
      <4>1. Len(ans.rows) = Len(rows) /\ Len(rows) = 1
        BY <1>3, <1>4, <2>5
      <4>2. ans.rows[1] = rows[1]
        BY <2>4, <2>5
      <4> QED BY <2>2, <2>4, <4>1, <4>2, SameSeq
    <3> QED BY <1>5, <3>1
  <2>6. CASE L > 1
    <3>1. PICK q \in 2..L : prompt[q] # prompt[q + 1]
      BY <1>1, <2>6 DEF Exact, Varies
    <3>2. q - 1 \in DOMAIN ans.rows /\ ans.rows[q - 1] = rows[q] /\ q \in 1..L
      <4>1. q - 1 \in 1..(L - 1) /\ (q - 1) + 1 = q /\ q \in 1..L /\ q - 1 \in 1..L
        BY <1>1, <3>1
      <4> QED BY <2>4, <4>1
    <3>3. rows[q].ids[1] = prompt[q + 1]
      <4>1. rows[q] = HonestCells(prompt, q)
        BY <1>2, <3>2
      <4>2. HonestCells(prompt, q).ids[1] = prompt[q + 1]
        BY <1>1, <3>2, HonestRow
      <4> QED BY <4>1, <4>2
    <3>4. ans.rows[q - 1].ids[1] = prompt[(q - 1) + 1] /\ (q - 1) + 1 = q
      BY <1>3, <3>2 DEF TensorRowHolds
    <3>5. prompt[q + 1] = prompt[q]
      BY <3>2, <3>3, <3>4
    <3> QED BY <3>1, <3>5
  <2>7. L = 1 \/ L > 1
    <3>1. L \in Nat /\ L >= 1
      BY <1>1
    <3> HIDE DEF L
    <3> QED BY <3>1
  <2> QED BY <2>5, <2>6, <2>7
<1>11. CASE d = "infinite"
  <2>1. ans.rows[1].vals = [cells.vals EXCEPT ![2] = -1]
    <3>1. ans.rows[1].vals = [rows[1].vals EXCEPT ![2] = -1]
      BY <1>2, <1>4, <1>7, <1>11, DamagedIs DEF rows, true
    <3> QED BY <1>8, <3>1
  <2>2. PICK vals : vals = [cells.vals EXCEPT ![2] = -1]
    OBVIOUS
  <2>3. vals \in Seq(Int) /\ Len(vals) = Vocab + 1 /\ vals[2] = -1
    <3>1. Len(cells.vals) >= 2 /\ -1 \in Int
      BY <1>1, <1>6
    <3> QED BY <1>6, <2>2, <3>1, Patched
  <2>4. Tail(vals)[1] = -1 /\ 1 \in DOMAIN Tail(vals)
    BY <1>1, <2>3, TailIs
  <2>5. 1 \in DOMAIN ans.rows
    BY <1>2, <1>4, <1>11 DEF Disturbed, rows, true
  <2>6. \A j \in DOMAIN Tail(ans.rows[1].vals) : Tail(ans.rows[1].vals)[j] >= 0
    BY <1>3, <2>5 DEF TensorRowHolds
  <2>7. \A j \in DOMAIN Tail(vals) : Tail(vals)[j] >= 0
    BY <2>1, <2>2, <2>6
  <2>8. -1 >= 0
    BY <2>4, <2>7
  <2> QED BY <2>8
<1>12. CASE d = "repeated"
  <2>1. ans.rows[1].ids = [cells.ids EXCEPT ![2] = cells.ids[2] - 1]
    <3>1. ans.rows[1].ids = [rows[1].ids EXCEPT ![2] = rows[1].ids[2] - 1]
      BY <1>2, <1>4, <1>7, <1>12, DamagedIs DEF rows, true
    <3> QED BY <1>8, <3>1
  <2>2. PICK ids : ids = [cells.ids EXCEPT ![2] = cells.ids[2] - 1]
    OBVIOUS
  <2>3. /\ ids \in Seq(Int) /\ Len(ids) = Vocab + 1 /\ ids[2] = Vocab - 2
        /\ \A j \in 2..Vocab : ids[j + 1] = Vocab - j
    <3>1. cells.ids[2] = Vocab - 1
      <4>1. 1 \in 1..Vocab /\ 1 + 1 = 2
        BY <1>1
      <4> QED BY <1>6, <4>1
    <3>2. Len(cells.ids) >= 2 /\ cells.ids[2] - 1 \in Int /\ cells.ids[2] - 1 = Vocab - 2
      BY <1>1, <1>6, <3>1
    <3>3. /\ ids \in Seq(Int) /\ Len(ids) = Len(cells.ids) /\ ids[2] = cells.ids[2] - 1
          /\ \A j \in 1..Len(cells.ids) : j # 2 => ids[j] = cells.ids[j]
      BY <1>6, <2>2, <3>2, Patched
    <3>4. \A j \in 2..Vocab : ids[j + 1] = Vocab - j
      <4>1. \A j \in 2..Vocab : /\ j + 1 \in 1..Len(cells.ids) /\ j + 1 # 2
                                /\ j \in 1..Vocab
        <5>1. Len(cells.ids) = Vocab + 1 /\ Vocab \in Nat
          BY <1>1, <1>6
        <5> QED BY <5>1
      <4> QED BY <1>6, <3>3, <4>1
    <3> QED BY <1>6, <3>2, <3>3, <3>4
  <2>4. /\ Tail(ids)[1] = Vocab - 2 /\ DOMAIN Tail(ids) = 1..Vocab
        /\ \A j \in 2..Vocab : Tail(ids)[j] = Vocab - j
    BY <1>1, <2>3, TailIs
  <2>5. 1 \in DOMAIN ans.rows
    BY <1>2, <1>4, <1>12 DEF Disturbed, rows, true
  <2>6. ToSet(Tail(ans.rows[1].ids)) = Tokens
    BY <1>3, <2>5 DEF TensorRowHolds
  <2>7. ToSet(Tail(ids)) = Tokens
    BY <2>1, <2>2, <2>6
  <2>8. Vocab - 1 \in ToSet(Tail(ids))
    BY <1>1, <2>7 DEF Tokens
  <2>9. PICK j \in DOMAIN Tail(ids) : Tail(ids)[j] = Vocab - 1
    BY <2>8 DEF ToSet
  <2> QED BY <1>1, <2>4, <2>9
<1>13. CASE d = "short"
  <2>1. ans.rows = Tail(rows)
    BY <1>2, <1>13, DisturbedIs DEF rows, true
  <2>2. Len(Tail(rows)) = L - 1
    BY <1>1, <1>4, TailIs
  <2> QED BY <1>1, <1>3, <2>1, <2>2
<1>14. CASE d = "other"
  <2>1. ans.prompt = Tail(prompt)
    BY <1>2, <1>14, DisturbedIs DEF true
  <2>2. Len(Tail(prompt)) = Len(prompt) - 1
    BY <1>1
  <2> QED BY <1>1, <1>3, <2>1, <2>2
<1>15. CASE d = "stock"
  BY <1>2, <1>15, DisturbedIs DEF true
<1> QED BY <1>9, <1>10, <1>11, <1>12, <1>13, <1>14, <1>15 DEF Disturbances

------------------------------------------------------------------------------
(* What the entries of a log at some positions are: entries of the log.     *)

LEMMA Least ==
    ASSUME NEW S \in SUBSET Nat, S # {}
    PROVE  \E k \in S : \A j \in S : k <= j
<1>1. PICK k \in S : \A j \in S : <<j, k>> \notin OpToRel(<, Nat)
  BY WFMin, NatLessThanWellFounded
<1>2. \A j \in S : ~(j < k)
  BY <1>1 DEF OpToRel
<1> QED BY <1>2

\* Of a finite set of positions there is a first, a second, and so on.
LEMMA Ranked ==
    ASSUME NEW L \in Nat, NEW N \in SUBSET (1..L), NEW k \in 1..Cardinality(N)
    PROVE  \E n \in N : Cardinality({m \in N : m <= n}) = k
<1> DEFINE Upto(x) == {m \in N : m <= x}
           Reached == {x \in Nat : Cardinality(Upto(x)) >= k}
<1>1. IsFiniteSet(N)
  <2>1. IsFiniteSet(1..L)
    BY FS_Interval
  <2> QED BY <2>1, FS_Subset
<1>2. \A x \in Nat : IsFiniteSet(Upto(x)) /\ Cardinality(Upto(x)) \in Nat
  <2> TAKE x \in Nat
  <2>1. Upto(x) \subseteq N
    OBVIOUS
  <2> QED BY <1>1, <2>1, FS_Subset, FS_CardinalityType
<1>3. Cardinality(N) \in Nat /\ k \in Nat /\ k >= 1 /\ k <= Cardinality(N)
  BY <1>1, FS_CardinalityType
<1>4. L \in Reached
  <2>1. Upto(L) = N
    <3>1. \A m \in N : m <= L
      OBVIOUS
    <3> QED BY <3>1
  <2> QED BY <1>3, <2>1
<1>5. PICK x \in Reached : \A j \in Reached : x <= j
  <2> HIDE DEF Reached
  <2>1. Reached \in SUBSET Nat
    BY DEF Reached
  <2> QED BY <1>4, <2>1, Least
<1>6. x \in Nat /\ Cardinality(Upto(x)) >= k
  OBVIOUS
<1>7. x # 0
  <2>1. Upto(0) = {}
    <3>1. \A m \in N : ~(m <= 0)
      OBVIOUS
    <3> QED BY <3>1
  <2>2. Cardinality(Upto(0)) = 0
    BY <2>1, FS_EmptySet
  <2> QED BY <1>3, <1>6, <2>2
<1>8. x - 1 \in Nat /\ Cardinality(Upto(x - 1)) < k
  <2>1. x - 1 \in Nat /\ ~(x <= x - 1)
    BY <1>6, <1>7
  <2>2. x - 1 \notin Reached
    <3> HIDE DEF Reached
    <3> QED BY <1>5, <2>1
  <2>3. ~(Cardinality(Upto(x - 1)) >= k) /\ Cardinality(Upto(x - 1)) \in Nat
    BY <1>2, <2>1, <2>2
  <2> HIDE DEF Upto
  <2> QED BY <1>3, <2>1, <2>3
<1> HIDE DEF Reached
<1>9. x \in N
  <2> SUFFICES ASSUME x \notin N PROVE FALSE
    OBVIOUS
  <2>1. Upto(x) = Upto(x - 1)
    <3>1. \A m \in N : m <= x <=> m <= x - 1
      BY <1>6, <1>8
    <3> QED BY <3>1
  <2> QED BY <1>2, <1>3, <1>6, <1>8, <2>1
<1>10. Cardinality(Upto(x)) = Cardinality(Upto(x - 1)) + 1
  <2>1. Upto(x) = Upto(x - 1) \cup {x} /\ x \notin Upto(x - 1)
    <3>1. \A m \in N : m <= x <=> m <= x - 1 \/ m = x
      BY <1>6, <1>8
    <3>2. ~(x <= x - 1)
      BY <1>6, <1>8
    <3> QED BY <1>9, <3>1, <3>2
  <2> QED BY <1>2, <1>8, <2>1, FS_AddElement
<1>11. Cardinality(Upto(x)) = k
  <2>1. Cardinality(Upto(x - 1)) \in Nat /\ Cardinality(Upto(x)) \in Nat
    BY <1>2, <1>6, <1>8
  <2> HIDE DEF Upto
  <2> QED BY <1>3, <1>6, <1>8, <1>10, <2>1
<1> QED BY <1>9, <1>11

LEMMA SelectedIs ==
    ASSUME NEW s, NEW L \in Nat, NEW N \in SUBSET (1..L)
    PROVE  /\ Len(Selected(s, N)) \in Nat
           /\ DOMAIN Selected(s, N) = 1..Len(Selected(s, N))
           /\ \A k \in DOMAIN Selected(s, N) : \E n \in N : Selected(s, N)[k] = s[n]
<1> DEFINE Rank(n) == Cardinality({m \in N : m <= n})
           at == [k \in 1..Cardinality(N) |-> s[CHOOSE n \in N : Rank(n) = k]]
<1>1. Cardinality(N) \in Nat
  <2>1. IsFiniteSet(1..L)
    BY FS_Interval
  <2>2. IsFiniteSet(N)
    BY <2>1, FS_Subset
  <2> QED BY <2>2, FS_CardinalityType
<1>2. Selected(s, N) = at
  BY DEF Selected
<1>3. Len(at) = Cardinality(N) /\ DOMAIN at = 1..Cardinality(N)
  BY <1>1
<1>4. \A k \in 1..Cardinality(N) : \E n \in N : at[k] = s[n]
  <2> TAKE k \in 1..Cardinality(N)
  <2>1. \E n \in N : Rank(n) = k
    BY Ranked
  <2> HIDE DEF Rank
  <2> DEFINE i == CHOOSE n \in N : Rank(n) = k
  <2>2. i \in N
    BY <2>1
  <2> QED BY <2>2
<1> HIDE DEF at
<1> QED BY <1>1, <1>2, <1>3, <1>4

\* What was measured is in the log.
LEMMA MeasuredIs ==
    ASSUME NEW a, log[a] \in Seq(ToSet(log[a])), NEW profile
    PROVE  LET t == Measured(a, profile)
           IN /\ Len(t) \in Nat /\ DOMAIN t = 1..Len(t)
              /\ \A k \in DOMAIN t : \E n \in DOMAIN log[a] : t[k] = log[a][n]
<1> DEFINE N == {n \in DOMAIN log[a] : /\ log[a][n].plan.phase = "measured"
                                       /\ log[a][n].plan.profile = profile}
<1>1. Len(log[a]) \in Nat /\ DOMAIN log[a] = 1..Len(log[a])
  OBVIOUS
<1>2. N \in SUBSET (1..Len(log[a])) /\ N \subseteq DOMAIN log[a]
  BY <1>1
<1>3. Measured(a, profile) = Selected(log[a], N)
  BY DEF Measured
<1> HIDE DEF N
<1>4. PICK t : t = Selected(log[a], N)
  OBVIOUS
<1>5. /\ Len(t) \in Nat /\ DOMAIN t = 1..Len(t)
      /\ \A k \in DOMAIN t : \E n \in N : t[k] = log[a][n]
  <2>1. PICK L \in Nat : L = Len(log[a]) /\ N \in SUBSET (1..L)
    BY <1>1, <1>2
  <2>2. LET sel == Selected(log[a], N)
        IN /\ Len(sel) \in Nat /\ DOMAIN sel = 1..Len(sel)
           /\ \A k \in DOMAIN sel : \E n \in N : sel[k] = log[a][n]
    BY <2>1, SelectedIs, Zenon
  <2> QED BY <1>4, <2>2, Zenon
<1> QED BY <1>2, <1>3, <1>4, <1>5

------------------------------------------------------------------------------
(* A promotion: what the log tells of a request is what happened, an answer *)
(* waiting to be scored belongs to the request that comes next, and the     *)
(* decision is computed from exactly what a promotion promises.             *)

Faithful(a, e) ==
    /\ e.pass => OnOwnArm(e)
    /\ e.rows # <<>> => e.rows = TrueRows(PromptOf(a, e.plan))

Told(a) == log[a] \in Seq(ToSet(log[a])) /\ \A n \in DOMAIN log[a] : Faithful(a, log[a][n])

InFlight(a) ==
    pc[a] = "attest" =>
        /\ route[a] = ran[a]
        /\ \E d \in Disturbances : answer[a] = Disturbed(d, TrueAnswer(PromptOf(a, Coming(a))))

FromScenario == \E s \in Scenarios : args = s.args /\ truth = s.truth

Accepted(a) ==
    pc[a] \in {"request", "attest", "confirm"} => args[a].payload.windows = Canonical.windows

Promotes(a) == final[a] # Nothing /\ final[a].decision = "PROMOTION PASS"

MeasureInv ==
    /\ FromScenario
    /\ DOMAIN route = Attempts /\ DOMAIN ran = Attempts /\ DOMAIN answer = Attempts
    /\ \A a \in Attempts : Told(a) /\ InFlight(a) /\ Accepted(a) /\ (Promotes(a) => Earned(a))

LEMMA PlanIndex ==
    ASSUME NEW n \in Nat, Plan(n).phase = "measured"
    PROVE  Plan(n).index \in 1..Sealed
BY CampaignAssumption, StatisticsAssumption DEF Plan, PerProfile

\* Every prompt that is scored exactly is long enough and varies.
LEMMA ExactPrompt ==
    ASSUME TextsVary, FromScenario, NEW a \in Attempts,
           args[a].payload.windows = Canonical.windows,
           NEW r, r.index \in 1..Sealed
    PROVE  Exact(PromptOf(a, r))
<1> DEFINE w == Canonical.windows
           i == r.index
           n == args[a].pilotLen
           L == Len(w[i])
<1>1. PICK s \in Scenarios : args = s.args
  BY DEF FromScenario
<1>2. /\ w \in Seq(Seq(Tokens)) /\ Len(w) = Sealed /\ Sealed \in Nat
      /\ s.args[a].pilotLen \in 2..Len(w[i])
  BY CampaignAssumption, StatisticsAssumption
<1>3. i \in DOMAIN w /\ w[i] \in Seq(Tokens) /\ L \in Nat /\ n \in 2..L
  BY <1>1, <1>2
<1>4. \A m \in {n, L} : m > 2 => \E q \in 2..(m - 1) : w[i][q] # w[i][q + 1]
  BY <1>1 DEF TextsVary
<1>5. CASE r.profile = "pilot"
  <2> DEFINE p == SubSeq(w[i], 1, n)
  <2>1. PromptOf(a, r) = p
    BY <1>3, <1>5 DEF PromptOf, FullVocabProfile
  <2>2. p \in Seq(Tokens) /\ Len(p) = n /\ \A q \in 1..n : p[q] = w[i][q]
    BY <1>3
  <2>3. n > 2 => \E q \in 2..(n - 1) : p[q] # p[q + 1]
    <3> SUFFICES ASSUME n > 2 PROVE \E q \in 2..(n - 1) : p[q] # p[q + 1]
      OBVIOUS
    <3>1. PICK q \in 2..(n - 1) : w[i][q] # w[i][q + 1]
      BY <1>4
    <3>2. q \in 1..n /\ q + 1 \in 1..n
      BY <1>3, <3>1
    <3> QED BY <2>2, <3>1, <3>2
  <2> HIDE DEF p
  <2> QED BY <1>3, <2>1, <2>2, <2>3 DEF Exact, Varies
<1>6. CASE r.profile # "pilot"
  <2>1. PromptOf(a, r) = w[i]
    BY <1>6 DEF PromptOf
  <2>2. w[i] \in Seq(Tokens) /\ L >= 2
    BY <1>3
  <2>3. L > 2 => \E q \in 2..(L - 1) : w[i][q] # w[i][q + 1]
    BY <1>4
  <2> QED BY <2>1, <2>2, <2>3 DEF Exact, Varies
<1> QED BY <1>5, <1>6

LEMMA OneMore ==
    ASSUME NEW s, s \in Seq(ToSet(s)), NEW e
    PROVE  LET t == Append(s, e)
           IN /\ t \in Seq(ToSet(t))
              /\ \A n \in DOMAIN t : t[n] = e \/ \E m \in DOMAIN s : t[n] = s[m]
<1> DEFINE t == Append(s, e)
           S == ToSet(s) \cup {e}
<1>1. Len(s) \in Nat /\ DOMAIN s = 1..Len(s)
  OBVIOUS
<1>2. /\ t \in Seq(S) /\ Len(t) = Len(s) + 1 /\ DOMAIN t = 1..(Len(s) + 1)
      /\ t[Len(s) + 1] = e /\ \A n \in 1..Len(s) : t[n] = s[n]
  <2>1. s \in Seq(S)
    <3>1. \A n \in 1..Len(s) : s[n] \in ToSet(s)
      OBVIOUS
    <3> QED BY <1>1, <3>1
  <2> HIDE DEF S
  <2>2. e \in S
    BY DEF S
  <2> QED BY <1>1, <2>1, <2>2
<1>3. \A n \in DOMAIN t : n = Len(s) + 1 \/ n \in DOMAIN s
  BY <1>1, <1>2
<1>4. t \in Seq(ToSet(t))
  <2> HIDE DEF t
  <2>1. \A n \in 1..Len(t) : t[n] \in ToSet(t)
    BY <1>1, <1>2 DEF ToSet
  <2> QED BY <1>2, <2>1
<1> QED BY <1>1, <1>2, <1>3, <1>4

\* What is logged of a request is faithful, when what is in flight is.
LEMMA AttestTells ==
    ASSUME TypeOK, MeasureInv, TextsVary, NEW b \in Attempts, Attest(b)
    PROVE  \/ log' = log
           \/ \E e : log' = [log EXCEPT ![b] = Append(@, e)] /\ Faithful(b, e)
<1> DEFINE r == Coming(b)
           exact == r.phase = "measured" /\ r.profile # "coarse"
           rows == IF exact THEN Compact(answer[b], PromptOf(b, r)) ELSE <<>>
           e == [plan |-> r, pass |-> RoutesHold(ArmOf(r.role), route[b]), ran |-> ran[b],
                 fp8 |-> [l \in Fp8 |-> route[b][l]], rows |-> rows]
<1>1. /\ pc[b] = "attest"
      /\ \/ log' = log
         \/ /\ ~(exact /\ (rows = Refused \/ answer[b].schema # "tensor"))
            /\ log' = [log EXCEPT ![b] = Append(@, e)]
  BY DEF Attest
<1>2. /\ Told(b) /\ route[b] = ran[b] /\ args[b].payload.windows = Canonical.windows
      /\ \E d \in Disturbances : answer[b] = Disturbed(d, TrueAnswer(PromptOf(b, r)))
  BY <1>1 DEF MeasureInv, InFlight, Accepted
<1>3. ASSUME ~(exact /\ (rows = Refused \/ answer[b].schema # "tensor"))
      PROVE  Faithful(b, e)
  <2>1. e.plan = r /\ e.ran = ran[b] /\ e.rows = rows
    OBVIOUS
  <2>2. e.pass => OnOwnArm(e)
    <3>1. e.pass = RoutesHold(ArmOf(r.role), route[b])
      OBVIOUS
    <3>2. RoutesHold(ArmOf(r.role), route[b]) => \A l \in Fp4 : ran[b][l] = Own(ArmOf(r.role))
      BY <1>2 DEF RoutesHold
    <3> HIDE DEF e
    <3> QED BY <2>1, <3>1, <3>2, Zenon DEF OnOwnArm
  <2>3. e.rows # <<>> => e.rows = TrueRows(PromptOf(b, e.plan))
    <3> SUFFICES ASSUME rows # <<>> PROVE rows = TrueRows(PromptOf(b, r))
      BY <2>1
    <3>1. exact
      OBVIOUS
    <3>2. Compact(answer[b], PromptOf(b, r)) # Refused /\ answer[b].schema = "tensor"
      BY <1>3, <3>1
    <3>3. r.index \in 1..Sealed
      <4>1. Len(log[b]) \in Nat
        BY <1>2 DEF Told
      <4> QED BY <3>1, <4>1, PlanIndex DEF Coming
    <3>4. Exact(PromptOf(b, r))
      BY <1>2, <3>3, ExactPrompt DEF MeasureInv
    <3>5. Compact(answer[b], PromptOf(b, r)) = TrueRows(PromptOf(b, r))
      BY <1>2, <3>2, <3>4, RowsAreTrue
    <3> QED BY <3>1, <3>5
  <2> QED BY <2>2, <2>3 DEF Faithful
<1> HIDE DEF e, exact, rows
<1> QED BY <1>1, <1>3

------------------------------------------------------------------------------
(* What the gates give when they hold and every request kept to its arm.    *)

LEMMA Promoted ==
    ASSUME NEW nll, NEW kl, NEW integrity, Decision(nll, kl, integrity) = "PROMOTION PASS"
    PROVE  /\ integrity /\ ~Corrupted(nll) /\ NoiseResolved(nll)
           /\ Within([i \in DOMAIN nll |-> Effect(nll[i])], 2 * NllLimit)
           /\ Within([i \in DOMAIN kl |-> Excess(kl[i])], 0)
BY DEF Decision

\* Three measured requests belong to each prompt.
LEMMA Triplets ==
    ASSUME TypeOK, NEW a \in Attempts, log[a] \in Seq(ToSet(log[a])), NEW profile,
           TripletOrderHolds(a, profile)
    PROVE  LET t == Measured(a, profile)
           IN /\ DOMAIN t = 1..(3 * Sealed)
              /\ \A k \in DOMAIN t : /\ t[k] \in ToSet(log[a])
                                     /\ t[k].plan.index = ((k - 1) \div 3) + 1
<1> DEFINE t == Measured(a, profile)
<1>1. /\ DOMAIN t = 1..Len(t)
      /\ \A k \in DOMAIN t : \E n \in DOMAIN log[a] : t[k] = log[a][n]
  BY MeasuredIs
<1>2. \A n \in DOMAIN log[a] : log[a][n] \in ToSet(log[a])
  BY DEF ToSet
<1>3. Len(t) = 3 * Sealed /\ \A n \in DOMAIN t : t[n].plan.index = ((n - 1) \div 3) + 1
  BY DEF TripletOrderHolds
<1> QED BY <1>1, <1>2, <1>3

LEMMA OneFp8 ==
    ASSUME TypeOK, NEW a \in Attempts, log[a] \in Seq(ToSet(log[a])), NEW profile,
           TripletOrderHolds(a, profile), Fp8Unchanged(a, profile), NEW i \in 1..Sealed
    PROVE  Cardinality({e.fp8 : e \in {x \in ToSet(Measured(a, profile)) : x.plan.index = i}}) = 1
<1>1. PICK t : t = Measured(a, profile)
  OBVIOUS
<1>2. DOMAIN t = 1..(3 * Sealed) /\ \A k \in DOMAIN t : t[k].plan.index = ((k - 1) \div 3) + 1
  BY <1>1, Triplets
<1>3. \A n \in DOMAIN t : n % 3 = 0 => t[n].fp8 = t[n - 1].fp8 /\ t[n].fp8 = t[n - 2].fp8
  BY <1>1 DEF Fp8Unchanged
<1>4. Sealed \in Nat /\ i \in Nat /\ 1 <= i /\ i <= Sealed
  BY StatisticsAssumption
<1> DEFINE last == 3 * i
<1>5. /\ last \in 1..(3 * Sealed) /\ last % 3 = 0 /\ ((last - 1) \div 3) + 1 = i
      /\ \A n \in 1..(3 * Sealed) : ((n - 1) \div 3) + 1 = i => n \in {last, last - 1, last - 2}
  BY <1>4
<1> HIDE DEF last
<1>6. \A e \in {x \in ToSet(t) : x.plan.index = i} : e.fp8 = t[last].fp8
  <2> SUFFICES ASSUME NEW e \in ToSet(t), e.plan.index = i PROVE e.fp8 = t[last].fp8
    OBVIOUS
  <2>1. PICK n \in DOMAIN t : e = t[n]
    BY DEF ToSet
  <2>2. n \in {last, last - 1, last - 2}
    BY <1>2, <1>5, <2>1
  <2>3. t[last].fp8 = t[last - 1].fp8 /\ t[last].fp8 = t[last - 2].fp8
    BY <1>2, <1>3, <1>5
  <2> QED BY <2>1, <2>2, <2>3
<1>7. t[last] \in {x \in ToSet(t) : x.plan.index = i}
  BY <1>2, <1>5 DEF ToSet
<1>8. {e.fp8 : e \in {x \in ToSet(t) : x.plan.index = i}} = {t[last].fp8}
  BY <1>6, <1>7
<1> QED BY <1>1, <1>8, FS_Singleton

\* Scores are those of the arms they are attributed to.
LEMMA TrueScores ==
    ASSUME TypeOK, NEW a \in Attempts, log[a] \in Seq(ToSet(log[a])),
           \A e \in ToSet(log[a]) : OnOwnArm(e),
           TripletOrderHolds(a, "coarse"), TripletOrderHolds(a, "confirmation")
    PROVE  /\ DOMAIN NllOf(a) = 1..Sealed /\ DOMAIN KlOf(a, "confirmation") = 1..Sealed
           /\ \A i \in 1..Sealed :
                 /\ NllOf(a)[i].candidate = truth[a].nll[i].candidate
                 /\ NllOf(a)[i].baseline_pre = truth[a].nll[i].baseline_pre
                 /\ NllOf(a)[i].baseline_post = truth[a].nll[i].baseline_post
                 /\ KlOf(a, "confirmation")[i] = truth[a].confirmation[i]
<1>1. \A i \in 1..Sealed : \A k \in 1..3 : (3 * (i - 1)) + k \in 1..(3 * Sealed)
  BY StatisticsAssumption
<1>2. DOMAIN NllOf(a) = 1..Sealed /\ DOMAIN KlOf(a, "confirmation") = 1..Sealed
  BY DEF NllOf, KlOf
<1>3. ASSUME NEW i \in 1..Sealed
      PROVE  KlOf(a, "confirmation")[i] = truth[a].confirmation[i]
  <2>1. PICK t : t = Measured(a, "confirmation")
    OBVIOUS
  <2>2. \A k \in 1..3 : OnOwnArm(t[(3 * (i - 1)) + k])
    BY <1>1, <2>1, Triplets
  <2> QED BY <2>1, <2>2 DEF KlOf
<1>4. ASSUME NEW i \in 1..Sealed, NEW r \in {"baseline_pre", "candidate", "baseline_post"}
      PROVE  NllOf(a)[i][r] = truth[a].nll[i][r]
  <2> DEFINE k == CHOOSE j \in 1..3 : Roles[j] = r
  <2>1. PICK t : t = Measured(a, "coarse")
    OBVIOUS
  <2>2. k \in 1..3
    <3>1. \E j \in 1..3 : Roles[j] = r
      <4>1. Roles[1] = "baseline_pre" /\ Roles[2] = "candidate" /\ Roles[3] = "baseline_post"
        BY DEF Roles
      <4> QED BY <4>1
    <3> QED BY <3>1
  <2>3. OnOwnArm(t[(3 * (i - 1)) + k])
    BY <1>1, <2>1, <2>2, Triplets
  <2> QED BY <2>1, <2>3 DEF NllOf
<1>5. ASSUME NEW i \in 1..Sealed
      PROVE  /\ NllOf(a)[i].candidate = truth[a].nll[i].candidate
             /\ NllOf(a)[i].baseline_pre = truth[a].nll[i].baseline_pre
             /\ NllOf(a)[i].baseline_post = truth[a].nll[i].baseline_post
  <2>1. /\ "candidate" \in {"baseline_pre", "candidate", "baseline_post"}
        /\ "baseline_pre" \in {"baseline_pre", "candidate", "baseline_post"}
        /\ "baseline_post" \in {"baseline_pre", "candidate", "baseline_post"}
    OBVIOUS
  <2> QED BY <1>4, <2>1
<1> QED BY <1>2, <1>3, <1>5

\* A decision to promote is earned.
LEMMA ConcludeEarns ==
    ASSUME TypeOK, MeasureInv, NEW a \in Attempts, BlockEnd(a, 3), IntegrityHolds(a, 3),
           ~Corrupted(NllOf(a)), NoiseResolved(NllOf(a)),
           Within([i \in DOMAIN NllOf(a) |-> Effect(NllOf(a)[i])], 2 * NllLimit),
           Within([i \in DOMAIN KlOf(a, "confirmation") |-> Excess(KlOf(a, "confirmation")[i])], 0)
    PROVE  Earned(a)
<1> DEFINE nll == truth[a].nll
           kl == truth[a].confirmation
<1>1. Told(a)
  BY DEF MeasureInv
<1>2. /\ IntegrityHolds(a, 3) /\ ~Corrupted(NllOf(a)) /\ NoiseResolved(NllOf(a))
      /\ Within([i \in DOMAIN NllOf(a) |-> Effect(NllOf(a)[i])], 2 * NllLimit)
      /\ Within([i \in DOMAIN KlOf(a, "confirmation") |-> Excess(KlOf(a, "confirmation")[i])], 0)
  OBVIOUS
<1>3. \A e \in ToSet(log[a]) : e.pass /\ Faithful(a, e)
  <2>1. \A n \in DOMAIN log[a] : log[a][n].pass
    BY <1>2 DEF IntegrityHolds
  <2>2. \A n \in DOMAIN log[a] : Faithful(a, log[a][n])
    BY <1>1 DEF Told
  <2> QED BY <2>1, <2>2 DEF ToSet
<1>4. \A e \in ToSet(log[a]) : OnOwnArm(e)
  BY <1>3 DEF Faithful
<1>5. /\ ToSet(Profiles) = {"coarse", "pilot", "confirmation"}
      /\ \A p \in ToSet(Profiles) : TripletOrderHolds(a, p) /\ Fp8Unchanged(a, p)
  <2>1. /\ DOMAIN Profiles = 1..3 /\ Profiles[1] = "coarse"
        /\ Profiles[2] = "pilot" /\ Profiles[3] = "confirmation"
    <3>1. Profiles \in Seq({"coarse", "pilot", "confirmation"}) /\ Len(Profiles) = 3
      BY DEF Profiles
    <3>2. DOMAIN Profiles = 1..3
      BY <3>1
    <3> QED BY <3>2 DEF Profiles
  <2>2. \A j \in 1..3 : TripletOrderHolds(a, Profiles[j]) /\ Fp8Unchanged(a, Profiles[j])
    BY <1>2 DEF IntegrityHolds
  <2>3. ToSet(Profiles) = {Profiles[j] : j \in 1..3}
    BY <2>1, Zenon DEF ToSet
  <2>4. {Profiles[j] : j \in 1..3} = {"coarse", "pilot", "confirmation"}
    <3>1. 1..3 = {1, 2, 3}
      OBVIOUS
    <3> QED BY <2>1, <3>1
  <2>5. \A p \in {"coarse", "pilot", "confirmation"} : \E j \in 1..3 : p = Profiles[j]
    BY <2>4
  <2> QED BY <2>2, <2>3, <2>4, <2>5
<1>6. \A p \in ToSet(Profiles) : \A i \in 1..Sealed :
          Cardinality({e.fp8 : e \in {x \in ToSet(Measured(a, p)) : x.plan.index = i}}) = 1
  BY <1>1, <1>5, OneFp8 DEF Told
<1>7. \A e \in ToSet(log[a]) : e.rows # <<>> =>
          e.rows = [p \in 1..(Len(PromptOf(a, e.plan)) - 1) |-> TrueRow(PromptOf(a, e.plan), p)]
  BY <1>3 DEF Faithful, TrueRows
<1>8. Len(log[a]) = 9 * PerProfile
  <2>1. Warmups \in Nat
    BY CampaignAssumption
  <2>2. Sealed \in Nat
    BY StatisticsAssumption
  <2>3. PerProfile \in Nat
    BY <2>1, <2>2 DEF PerProfile
  <2>4. Len(log[a]) = 3 * PerProfile * 3
    BY DEF BlockEnd
  <2> QED BY <2>3, <2>4
<1>9. /\ DOMAIN NllOf(a) = 1..Sealed /\ DOMAIN KlOf(a, "confirmation") = 1..Sealed
      /\ \A i \in 1..Sealed :
            /\ NllOf(a)[i].candidate = nll[i].candidate
            /\ NllOf(a)[i].baseline_pre = nll[i].baseline_pre
            /\ NllOf(a)[i].baseline_post = nll[i].baseline_post
            /\ KlOf(a, "confirmation")[i] = kl[i]
  BY <1>1, <1>4, <1>5, TrueScores DEF Told
<1>10. DOMAIN nll = 1..Sealed
  BY CampaignAssumption DEF MeasureInv, FromScenario
<1>11. Passes(nll, kl)
  <2>1. PICK n, k : n = NllOf(a) /\ k = KlOf(a, "confirmation")
    OBVIOUS
  <2> HIDE DEF nll, kl
  <2>2. [i \in 1..Sealed |-> Effect(nll[i])] = [i \in DOMAIN n |-> Effect(n[i])]
    BY <1>9, <2>1 DEF Effect
  <2>3. [i \in 1..Sealed |-> Excess(kl[i])] = [i \in DOMAIN k |-> Excess(k[i])]
    BY <1>9, <2>1
  <2>4. [i \in DOMAIN nll |-> nll[i].baseline_post - nll[i].baseline_pre]
            = [i \in DOMAIN n |-> n[i].baseline_post - n[i].baseline_pre]
    BY <1>9, <1>10, <2>1
  <2>5. NoiseResolved(nll)
    <3>1. NoiseResolved(n)
      BY <1>2, <2>1
    <3>2. PICK d : d = [i \in DOMAIN n |-> n[i].baseline_post - n[i].baseline_pre]
      OBVIOUS
    <3>3. TSquare * 3 * SquaresOf(d) <= 4000 * Sealed * Sealed * NllLimit * NllLimit
      BY <3>1, <3>2, SMT DEF NoiseResolved
    <3>4. d = [i \in DOMAIN nll |-> nll[i].baseline_post - nll[i].baseline_pre]
      BY <2>4, <3>2, Zenon
    <3> QED BY <3>3, <3>4, SMT DEF NoiseResolved
  <2>6. ~Corrupted(nll)
    BY <1>2, <1>9, <1>10, <2>1 DEF Corrupted, Corruption
  <2>7. /\ Within([i \in 1..Sealed |-> Effect(nll[i])], 2 * NllLimit)
        /\ Within([i \in 1..Sealed |-> Excess(kl[i])], 0)
    BY <1>2, <2>1, <2>2, <2>3
  <2> QED BY <2>5, <2>6, <2>7 DEF Passes
<1> HIDE DEF nll, kl
<1> QED BY <1>4, <1>6, <1>7, <1>8, <1>11 DEF Earned, nll, kl

------------------------------------------------------------------------------
(* Steps: what was told stays told, and only Conclude promotes.             *)

LEMMA ToldStays ==
    ASSUME NEW a, Told(a), UNCHANGED args, log'[a] = log[a]
    PROVE  Told(a)'
<1>1. \A e : PromptOf(a, e.plan)' = PromptOf(a, e.plan)
  BY DEF PromptOf
<1>2. \A e : Faithful(a, e) => Faithful(a, e)'
  BY <1>1 DEF Faithful
<1> QED BY <1>2 DEF Told

LEMMA EarnedStays ==
    ASSUME NEW a, Earned(a), UNCHANGED <<args, truth>>, log'[a] = log[a]
    PROVE  Earned(a)'
<1>1. \A e : PromptOf(a, e.plan)' = PromptOf(a, e.plan)
  BY DEF PromptOf
<1>2. \A p : Measured(a, p)' = Measured(a, p)
  BY DEF Measured
<1> QED BY <1>1, <1>2 DEF Earned

\* What one attempt does leaves the others as they were.
LEMMA OthersStay ==
    ASSUME MeasureInv, UNCHANGED <<args, truth>>, NEW b \in Attempts,
           DOMAIN route' = Attempts, DOMAIN ran' = Attempts, DOMAIN answer' = Attempts,
           \A a \in Attempts : a # b =>
               /\ route'[a] = route[a] /\ ran'[a] = ran[a] /\ answer'[a] = answer[a]
               /\ log'[a] = log[a] /\ final'[a] = final[a]
               /\ pc'[a] = pc[a] \/ pc'[a] = "dead",
           Told(b)', InFlight(b)', Accepted(b)', Promotes(b)' => Earned(b)'
    PROVE  MeasureInv'
<1>1. FromScenario'
  BY DEF MeasureInv, FromScenario
<1>2. ASSUME NEW a \in Attempts, a # b
      PROVE  Told(a)' /\ InFlight(a)' /\ Accepted(a)' /\ (Promotes(a)' => Earned(a)')
  <2>1. Told(a) /\ InFlight(a) /\ Accepted(a) /\ (Promotes(a) => Earned(a))
    BY DEF MeasureInv
  <2>2. Told(a)'
    BY <1>2, <2>1, ToldStays
  <2>3. InFlight(a)'
    <3>1. PromptOf(a, Coming(a))' = PromptOf(a, Coming(a))
      BY <1>2 DEF PromptOf, Coming
    <3> QED BY <1>2, <2>1, <3>1 DEF InFlight
  <2>4. Accepted(a)'
    BY <1>2, <2>1 DEF Accepted
  <2>5. Promotes(a)' => Earned(a)'
    BY <1>2, <2>1, EarnedStays DEF Promotes
  <2> QED BY <2>2, <2>3, <2>4, <2>5
<1>3. \A a \in Attempts :
          Told(a)' /\ InFlight(a)' /\ Accepted(a)' /\ (Promotes(a)' => Earned(a)')
  BY <1>2
<1> QED BY <1>1, <1>3 DEF MeasureInv

LEMMA NotPromoted ==
    ASSUME TypeOK, NEW b \in Attempts, Raise(b) \/ Report(b, "FAIL")
    PROVE  ~Promotes(b)' /\ pc'[b] = "verify" /\ \A a \in Attempts : a # b => final'[a] = final[a]
<1>1. PICK r : final' = [final EXCEPT ![b] = r] /\ r.decision = "FAIL"
  <2>1. \A status : Paper(b, status, "FAIL").decision = "FAIL"
    BY DEF Paper
  <2>2. \E status : final' = [final EXCEPT ![b] = Paper(b, status, "FAIL")]
    BY Zenon DEF Raise, Report, Publish
  <2> QED BY <2>1, <2>2, Zenon
<1>2. pc'[b] = "verify"
  BY DEF Raise, Report, Publish, Goto, TypeOK
<1>3. final'[b] = r /\ \A a \in Attempts : a # b => final'[a] = final[a]
  BY <1>1 DEF TypeOK
<1>4. "FAIL" # "PROMOTION PASS"
  OBVIOUS
<1> QED BY <1>1, <1>2, <1>3, <1>4 DEF Promotes

\* Steps that measure nothing.
LEMMA QuietStep ==
    ASSUME TypeOK, MeasureInv, UNCHANGED <<args, truth>>, NEW b \in Attempts,
           UNCHANGED <<route, ran, answer, log, final>>,
           NEW to, Goto(b, to), to \notin {"request", "attest", "confirm"}
    PROVE  MeasureInv'
<1>1. pc'[b] = to /\ \A a \in Attempts : a # b => pc'[a] = pc[a]
  BY DEF Goto, TypeOK
<1>2. Told(b) /\ (Promotes(b) => Earned(b))
  BY DEF MeasureInv
<1>3. Told(b)' /\ (Promotes(b)' => Earned(b)')
  BY <1>2, ToldStays, EarnedStays DEF Promotes
<1>4. InFlight(b)' /\ Accepted(b)'
  BY <1>1 DEF InFlight, Accepted
<1>5. DOMAIN route' = Attempts /\ DOMAIN ran' = Attempts /\ DOMAIN answer' = Attempts
  BY DEF MeasureInv
<1> QED BY <1>1, <1>3, <1>4, <1>5, OthersStay

LEMMA LoadStep ==
    ASSUME IInv, MeasureInv, UNCHANGED <<args, truth>>, NEW b \in Attempts, Load(b)
    PROVE  MeasureInv'
<1>1. TypeOK /\ Verdict(b)
  BY Facts
<1>2. pc[b] = "load" /\ UNCHANGED <<route, ran, answer, log>>
  BY DEF Load
<1>3. Told(b)'
  BY <1>2, ToldStays DEF MeasureInv
<1>4. DOMAIN route' = Attempts /\ DOMAIN ran' = Attempts /\ DOMAIN answer' = Attempts
  BY <1>2 DEF MeasureInv
<1>5. \A a \in Attempts : a # b => pc'[a] = pc[a]
  BY <1>1 DEF Load, Raise, Publish, Goto, TypeOK
<1>6. CASE PromptsAccepted(args[b].payload, Canonical, model[b].files, args[b])
           /\ Goto(b, "request") /\ UNCHANGED <<final, code>>
  <2>1. args[b].payload.windows = Canonical.windows
    BY <1>6 DEF PromptsAccepted
  <2>2. pc'[b] = "request"
    BY <1>1, <1>6 DEF Goto, TypeOK
  <2>3. ~Promotes(b)'
    BY <1>1, <1>2, <1>6 DEF Promotes, Verdict
  <2>4. InFlight(b)' /\ Accepted(b)'
    BY <2>1, <2>2 DEF InFlight, Accepted
  <2> QED BY <1>2, <1>3, <1>4, <1>5, <1>6, <2>3, <2>4, OthersStay
<1>7. CASE Raise(b)
  <2>1. ~Promotes(b)' /\ pc'[b] = "verify" /\ \A a \in Attempts : a # b => final'[a] = final[a]
    BY <1>1, <1>7, NotPromoted
  <2>2. InFlight(b)' /\ Accepted(b)'
    BY <2>1 DEF InFlight, Accepted
  <2> QED BY <1>2, <1>3, <1>4, <1>5, <2>1, <2>2, OthersStay
<1> QED BY <1>6, <1>7 DEF Load

\* A request runs, or the engine raises.
LEMMA GenerateCases ==
    ASSUME TypeOK, MeasureInv, NEW b \in Attempts, Generate(b)
    PROVE  \/ /\ \E what : route' = [route EXCEPT ![b] = what] /\ ran' = [ran EXCEPT ![b] = what]
              /\ \E d \in Disturbances :
                     answer' = [answer EXCEPT ![b] =
                                    Disturbed(d, TrueAnswer(PromptOf(b, Coming(b))))]
              /\ Goto(b, "attest") /\ UNCHANGED final
           \/ Raise(b) /\ UNCHANGED <<route, ran, answer>>
<1>1. "none" \in Disturbances /\ args[b].disturbances \subseteq Disturbances
  <2>1. PICK s \in Scenarios : args = s.args
    BY DEF MeasureInv, FromScenario
  <2> QED BY <2>1, CampaignAssumption DEF Disturbances
<1> DEFINE held == IF ArmOf(Coming(b).role) = "fused" THEN Fp4 ELSE {}
           run(what, d) ==
               /\ handle' = [handle EXCEPT ![b] = held]
               /\ ran' = [ran EXCEPT ![b] = what]
               /\ route' = [route EXCEPT ![b] = what]
               /\ answer' = [answer EXCEPT ![b] = Disturbed(d, TrueAnswer(PromptOf(b, Coming(b))))]
               /\ Goto(b, "attest") /\ UNCHANGED <<final, code>>
<1>2. (\E what : \E d \in Disturbances : run(what, d))
      \/ (Raise(b) /\ UNCHANGED <<handle, route, ran, answer>>)
  <2>1. ASSUME NEW what, NEW d \in Disturbances, run(what, d)
        PROVE  \E w : \E x \in Disturbances : run(w, x)
    <3> HIDE DEF run
    <3> QED BY <2>1
  <2>2. \/ \E what : run(what, "none")
        \/ \E d \in args[b].disturbances : \E what : run(what, d)
        \/ Raise(b) /\ UNCHANGED <<handle, route, ran, answer>>
    BY Zenon DEF Generate
  <2> HIDE DEF run
  <2> QED BY <1>1, <2>2
<1>3. ASSUME NEW what, NEW d \in Disturbances, run(what, d)
      PROVE  /\ \E w : route' = [route EXCEPT ![b] = w] /\ ran' = [ran EXCEPT ![b] = w]
             /\ \E x \in Disturbances :
                    answer' = [answer EXCEPT ![b] =
                                   Disturbed(x, TrueAnswer(PromptOf(b, Coming(b))))]
             /\ Goto(b, "attest") /\ UNCHANGED final
  BY <1>3, Zenon
<1> HIDE DEF run
<1> QED BY <1>2, <1>3

LEMMA GenerateStep ==
    ASSUME IInv, MeasureInv, UNCHANGED <<args, truth>>, NEW b \in Attempts, Generate(b)
    PROVE  MeasureInv'
<1>1. TypeOK /\ Verdict(b)
  BY Facts
<1>2. pc[b] \in {"request", "confirm"} /\ UNCHANGED log
  BY DEF Generate, RequestDue
<1>3. Told(b)'
  BY <1>2, ToldStays DEF MeasureInv
<1>4. DOMAIN route = Attempts /\ DOMAIN ran = Attempts /\ DOMAIN answer = Attempts
  BY DEF MeasureInv
<1>5. args[b].payload.windows = Canonical.windows
  BY <1>2 DEF MeasureInv, Accepted
<1>6. CASE \E what : \E d \in Disturbances :
               /\ route' = [route EXCEPT ![b] = what] /\ ran' = [ran EXCEPT ![b] = what]
               /\ answer' = [answer EXCEPT ![b] =
                                 Disturbed(d, TrueAnswer(PromptOf(b, Coming(b))))]
               /\ Goto(b, "attest") /\ UNCHANGED final
  <2> PICK what : \E d \in Disturbances :
               /\ route' = [route EXCEPT ![b] = what] /\ ran' = [ran EXCEPT ![b] = what]
               /\ answer' = [answer EXCEPT ![b] =
                                 Disturbed(d, TrueAnswer(PromptOf(b, Coming(b))))]
               /\ Goto(b, "attest") /\ UNCHANGED final
    BY <1>6, Zenon
  <2>1. PICK d \in Disturbances :
               /\ route' = [route EXCEPT ![b] = what] /\ ran' = [ran EXCEPT ![b] = what]
               /\ answer' = [answer EXCEPT ![b] =
                                 Disturbed(d, TrueAnswer(PromptOf(b, Coming(b))))]
               /\ Goto(b, "attest") /\ UNCHANGED final
    BY Zenon
  <2>2. PICK ans : ans = Disturbed(d, TrueAnswer(PromptOf(b, Coming(b))))
    OBVIOUS
  <2>3. answer' = [answer EXCEPT ![b] = ans]
    BY <2>1, <2>2
  <2>4. /\ pc'[b] = "attest" /\ route'[b] = what /\ ran'[b] = what /\ answer'[b] = ans
        /\ DOMAIN route' = Attempts /\ DOMAIN ran' = Attempts /\ DOMAIN answer' = Attempts
        /\ \A a \in Attempts : a # b =>
               /\ route'[a] = route[a] /\ ran'[a] = ran[a] /\ answer'[a] = answer[a]
               /\ final'[a] = final[a] /\ pc'[a] = pc[a]
    BY <1>1, <1>4, <2>1, <2>3 DEF Goto, TypeOK
  <2>5. PromptOf(b, Coming(b))' = PromptOf(b, Coming(b))
    BY <1>2 DEF PromptOf, Coming
  <2>6. InFlight(b)'
    BY <2>2, <2>4, <2>5 DEF InFlight
  <2>7. Accepted(b)'
    BY <1>5 DEF Accepted
  <2>8. ~Promotes(b)'
    BY <1>1, <1>2, <2>1 DEF Promotes, Verdict
  <2> QED BY <1>2, <1>3, <2>4, <2>6, <2>7, <2>8, OthersStay
<1>7. CASE Raise(b) /\ UNCHANGED <<route, ran, answer>>
  <2>1. ~Promotes(b)' /\ pc'[b] = "verify" /\ \A a \in Attempts : a # b => final'[a] = final[a]
    BY <1>1, <1>7, NotPromoted
  <2>2. InFlight(b)' /\ Accepted(b)'
    BY <2>1 DEF InFlight, Accepted
  <2>3. \A a \in Attempts : a # b => pc'[a] = pc[a]
    BY <1>1, <1>7 DEF Raise, Publish, Goto, TypeOK
  <2> QED BY <1>2, <1>3, <1>4, <1>7, <2>1, <2>2, <2>3, OthersStay
<1> QED BY <1>1, <1>6, <1>7, GenerateCases

LEMMA AttestStep ==
    ASSUME IInv, MeasureInv, TextsVary, UNCHANGED <<args, truth>>, NEW b \in Attempts, Attest(b)
    PROVE  MeasureInv'
<1>1. TypeOK /\ Verdict(b)
  BY Facts
<1>2. /\ pc[b] = "attest" /\ UNCHANGED route
      /\ ran' = [ran EXCEPT ![b] = NoRoutes] /\ answer' = [answer EXCEPT ![b] = NoAnswer]
  BY DEF Attest
<1>3. /\ DOMAIN route' = Attempts /\ DOMAIN ran' = Attempts /\ DOMAIN answer' = Attempts
      /\ \A a \in Attempts : a # b =>
             route'[a] = route[a] /\ ran'[a] = ran[a] /\ answer'[a] = answer[a]
  BY <1>2 DEF MeasureInv
<1>4. Told(b) /\ args[b].payload.windows = Canonical.windows
  BY <1>2 DEF MeasureInv, Accepted
<1>5. Told(b)' /\ \A a \in Attempts : a # b => log'[a] = log[a]
  <2>1. CASE log' = log
    BY <1>4, <2>1, ToldStays
  <2>2. CASE \E e : log' = [log EXCEPT ![b] = Append(@, e)] /\ Faithful(b, e)
    <3>1. PICK e : log' = [log EXCEPT ![b] = Append(@, e)] /\ Faithful(b, e)
      BY <2>2
    <3>2. log'[b] = Append(log[b], e) /\ \A a \in Attempts : a # b => log'[a] = log[a]
      BY <1>1, <3>1 DEF TypeOK
    <3>3. /\ log'[b] \in Seq(ToSet(log'[b]))
          /\ \A n \in DOMAIN log'[b] :
                 log'[b][n] = e \/ \E m \in DOMAIN log[b] : log'[b][n] = log[b][m]
      BY <1>4, <3>2, OneMore DEF Told
    <3>4. \A n \in DOMAIN log'[b] : Faithful(b, log'[b][n])
      BY <1>4, <3>1, <3>3 DEF Told
    <3>5. \A x : PromptOf(b, x.plan)' = PromptOf(b, x.plan)
      BY DEF PromptOf
    <3>6. \A x : Faithful(b, x) => Faithful(b, x)'
      BY <3>5 DEF Faithful
    <3> QED BY <3>2, <3>3, <3>4, <3>6 DEF Told
  <2> QED BY <1>1, <2>1, <2>2, AttestTells
<1>6. \/ Raise(b)
      \/ (Goto(b, "confirm") \/ Goto(b, "request")) /\ UNCHANGED final
  BY DEF Attest
<1>7. CASE Raise(b)
  <2>1. ~Promotes(b)' /\ pc'[b] = "verify" /\ \A a \in Attempts : a # b => final'[a] = final[a]
    BY <1>1, <1>7, NotPromoted
  <2>2. InFlight(b)' /\ Accepted(b)'
    BY <2>1 DEF InFlight, Accepted
  <2>3. \A a \in Attempts : a # b => pc'[a] = pc[a]
    BY <1>1, <1>7 DEF Raise, Publish, Goto, TypeOK
  <2> QED BY <1>3, <1>5, <2>1, <2>2, <2>3, OthersStay
<1>8. CASE (Goto(b, "confirm") \/ Goto(b, "request")) /\ UNCHANGED final
  <2>1. pc'[b] \in {"confirm", "request"} /\ \A a \in Attempts : a # b => pc'[a] = pc[a]
    BY <1>1, <1>8 DEF Goto, TypeOK
  <2>2. InFlight(b)' /\ Accepted(b)'
    BY <1>4, <2>1 DEF InFlight, Accepted
  <2>3. ~Promotes(b)'
    BY <1>1, <1>2, <1>8 DEF Promotes, Verdict
  <2> QED BY <1>3, <1>5, <1>8, <2>1, <2>2, <2>3, OthersStay
<1> QED BY <1>6, <1>7, <1>8

LEMMA ScreenStep ==
    ASSUME IInv, MeasureInv, UNCHANGED <<args, truth>>, NEW b \in Attempts, Screen(b)
    PROVE  MeasureInv'
<1>1. TypeOK /\ Verdict(b)
  BY Facts
<1>2. pc[b] = "request" /\ UNCHANGED <<route, ran, answer, log>>
  BY DEF Screen, Requests
<1>3. Told(b)' /\ args[b].payload.windows = Canonical.windows
  BY <1>2, ToldStays DEF MeasureInv, Accepted
<1>4. DOMAIN route' = Attempts /\ DOMAIN ran' = Attempts /\ DOMAIN answer' = Attempts
  BY <1>2 DEF MeasureInv
<1>5. Report(b, "FAIL") \/ (Goto(b, "confirm") /\ UNCHANGED final)
  BY DEF Screen
<1>6. \A a \in Attempts : a # b => pc'[a] = pc[a]
  BY <1>1, <1>5 DEF Report, Publish, Goto, TypeOK
<1>7. CASE Report(b, "FAIL")
  <2>1. ~Promotes(b)' /\ pc'[b] = "verify" /\ \A a \in Attempts : a # b => final'[a] = final[a]
    BY <1>1, <1>7, NotPromoted
  <2>2. InFlight(b)' /\ Accepted(b)'
    BY <2>1 DEF InFlight, Accepted
  <2> QED BY <1>2, <1>3, <1>4, <1>6, <2>1, <2>2, OthersStay
<1>8. CASE Goto(b, "confirm") /\ UNCHANGED final
  <2>1. pc'[b] = "confirm"
    BY <1>1, <1>8 DEF Goto, TypeOK
  <2>2. InFlight(b)' /\ Accepted(b)'
    BY <1>3, <2>1 DEF InFlight, Accepted
  <2>3. ~Promotes(b)'
    BY <1>1, <1>2, <1>8 DEF Promotes, Verdict
  <2> QED BY <1>2, <1>3, <1>4, <1>6, <1>8, <2>2, <2>3, OthersStay
<1> QED BY <1>5, <1>7, <1>8

LEMMA ConcludeStep ==
    ASSUME IInv, MeasureInv, UNCHANGED <<args, truth>>, NEW b \in Attempts, Conclude(b)
    PROVE  MeasureInv'
<1>1. TypeOK
  BY Facts
<1>2. /\ BlockEnd(b, 3) /\ UNCHANGED <<route, ran, answer, log>>
      /\ Report(b, Decision(NllOf(b), KlOf(b, "confirmation"),
                            IntegrityHolds(b, 3) /\ ConfirmationComplete(b)))
  BY DEF Conclude, Measuring, Requests
<1>3. PICK d : d = Decision(NllOf(b), KlOf(b, "confirmation"),
                            IntegrityHolds(b, 3) /\ ConfirmationComplete(b))
  BY Zenon
<1>4. d = "PROMOTION PASS" => Earned(b)
  <2>1. d = "PROMOTION PASS" =>
            /\ IntegrityHolds(b, 3) /\ ~Corrupted(NllOf(b)) /\ NoiseResolved(NllOf(b))
            /\ Within([i \in DOMAIN NllOf(b) |-> Effect(NllOf(b)[i])], 2 * NllLimit)
            /\ Within([i \in DOMAIN KlOf(b, "confirmation") |->
                           Excess(KlOf(b, "confirmation")[i])], 0)
    BY <1>3, Promoted, Zenon
  <2> QED BY <1>1, <1>2, <2>1, ConcludeEarns, Zenon
<1>5. Report(b, d)
  BY <1>2, <1>3, Zenon
<1>6. /\ final' = [final EXCEPT ![b] = Paper(b, Status(d), d)]
      /\ pc' = [pc EXCEPT ![b] = "verify"]
  BY <1>5, Zenon DEF Report, Publish, Goto
<1>7. PICK r : r = Paper(b, Status(d), d)
  OBVIOUS
<1>8. r.decision = d
  BY <1>7 DEF Paper
<1>9. /\ final'[b] = r /\ pc'[b] = "verify"
      /\ \A a \in Attempts : a # b => final'[a] = final[a] /\ pc'[a] = pc[a]
  BY <1>1, <1>6, <1>7 DEF TypeOK
<1>10. Promotes(b)' => Earned(b)'
  <2>1. Promotes(b)' => Earned(b)
    BY <1>4, <1>8, <1>9 DEF Promotes
  <2> QED BY <1>2, <2>1, EarnedStays
<1>11. InFlight(b)' /\ Accepted(b)'
  BY <1>9 DEF InFlight, Accepted
<1>12. Told(b)'
  BY <1>2, ToldStays DEF MeasureInv
<1>13. DOMAIN route' = Attempts /\ DOMAIN ran' = Attempts /\ DOMAIN answer' = Attempts
  BY <1>2 DEF MeasureInv
<1> QED BY <1>2, <1>9, <1>10, <1>11, <1>12, <1>13, OthersStay

LEMMA MeasureStep ==
    ASSUME IInv, MeasureInv, TextsVary, UNCHANGED <<args, truth>>, NEW b \in Attempts, Step(b)
    PROVE  MeasureInv'
<1>1. TypeOK
  BY Facts
<1>2. CASE Load(b) \/ Generate(b) \/ Attest(b) \/ Screen(b) \/ Conclude(b)
  BY <1>2, LoadStep, GenerateStep, AttestStep, ScreenStep, ConcludeStep
<1>3. CASE \/ Reserve(b) \/ Verify(b) \/ Temp(b) \/ Sync(b) \/ Rename(b) \/ Settle(b)
           \/ ReserveFails(b) \/ FinalizeFails(b) \/ Kill(b)
  <2>1. UNCHANGED <<route, ran, answer, log, final>>
    BY <1>3 DEF Reserve, Precheck, ClaimOpen, ClaimFill, ClaimFlush, ClaimSettle,
       OutOpen, OutFill, OutFlush, OutSettle, Verify, Temp, Sync, Rename, Settle,
       ReserveFails, FinalizeFails, Kill, Measuring, Requests
  <2>2. \E to \in {"claimOpen", "claimFill", "claimFlush", "claimSettle", "outOpen", "outFill",
                   "outFlush", "outSettle", "load", "temp", "sync", "replace", "settle",
                   "over", "dead"} : Goto(b, to)
    BY <1>3 DEF Reserve, Precheck, ClaimOpen, ClaimFill, ClaimFlush, ClaimSettle,
       OutOpen, OutFill, OutFlush, OutSettle, Verify, Temp, Sync, Rename, Settle,
       ReserveFails, FinalizeFails, Kill, Exit
  <2>3. PICK to : Goto(b, to) /\ to \notin {"request", "attest", "confirm"}
    BY <2>2
  <2> QED BY <1>1, <2>1, <2>3, QuietStep
<1> QED BY <1>2, <1>3 DEF Step

\* Nothing is measured while the system stands still or dies.
LEMMA IdleKeeps ==
    ASSUME MeasureInv, UNCHANGED <<args, truth, route, ran, answer, log, final>>,
           \A a \in Attempts : pc'[a] \in {pc[a], "dead"}
    PROVE  MeasureInv'
<1>1. ASSUME NEW a \in Attempts
      PROVE  Told(a)' /\ InFlight(a)' /\ Accepted(a)' /\ (Promotes(a)' => Earned(a)')
  <2>1. Told(a) /\ InFlight(a) /\ Accepted(a) /\ (Promotes(a) => Earned(a))
    BY DEF MeasureInv
  <2>2. Told(a)' /\ (Promotes(a)' => Earned(a)')
    BY <2>1, ToldStays, EarnedStays DEF Promotes
  <2>3. PromptOf(a, Coming(a))' = PromptOf(a, Coming(a))
    BY DEF PromptOf, Coming
  <2>4. InFlight(a)' /\ Accepted(a)'
    BY <2>1, <2>3 DEF InFlight, Accepted
  <2> QED BY <2>2, <2>4
<1> QED BY <1>1 DEF MeasureInv, FromScenario

\* When the text of every exact profile varies, a report that says PROMOTION
\* PASS, now or after a crash, comes from an attempt that measured every sealed
\* prompt three times in each profile, each request on its own arm, with the
\* FP8 layers unchanged around it and the rows the model computed, and whose
\* measurements pass (run, _promotion_quality_v6, _attest_request_routes).
THEOREM PromotionIsEarned == TextsVary => (Spec => []PromotionEarned)
PROOF
  <1> SUFFICES ASSUME TextsVary PROVE Spec => []PromotionEarned
    OBVIOUS
  <1>1. Init => MeasureInv
    <2> SUFFICES ASSUME Init PROVE MeasureInv
      OBVIOUS
    <2>1. FromScenario
      BY DEF Init, FromScenario
    <2>2. DOMAIN route = Attempts /\ DOMAIN ran = Attempts /\ DOMAIN answer = Attempts
      BY DEF Init
    <2>3. ASSUME NEW a \in Attempts
          PROVE  Told(a) /\ InFlight(a) /\ Accepted(a) /\ ~Promotes(a)
      <3>1. log[a] = <<>> /\ pc[a] = "start" /\ final[a] = Nothing
        BY DEF Init
      <3>2. Told(a)
        BY <3>1 DEF Told
      <3> QED BY <3>1, <3>2 DEF InFlight, Accepted, Promotes
    <2> QED BY <2>1, <2>2, <2>3 DEF MeasureInv
  <1>2. IInv /\ MeasureInv /\ [Next]_vars => MeasureInv'
    <2> SUFFICES ASSUME IInv, MeasureInv, [Next]_vars PROVE MeasureInv'
      OBVIOUS
    <2>1. CASE UNCHANGED vars
      <3>1. UNCHANGED <<pc, args, truth, route, ran, answer, log, final>>
        BY <2>1 DEF vars, process, given
      <3> QED BY <3>1, IdleKeeps
    <2>2. CASE Next
      <3>1. UNCHANGED <<args, truth>>
        BY <2>2 DEF Next, given
      <3>2. CASE Crash
        <4>1. UNCHANGED <<route, ran, answer, log, final>>
          BY <3>2 DEF Crash, Measuring, Requests
        <4>2. \A a \in Attempts : pc'[a] \in {pc[a], "dead"}
          BY <3>2 DEF Crash
        <4> QED BY <3>1, <4>1, <4>2, IdleKeeps
      <3>3. ASSUME NEW b \in Attempts, Step(b) PROVE MeasureInv'
        BY <3>1, <3>3, MeasureStep
      <3> QED BY <2>2, <3>2, <3>3 DEF Next
    <2> QED BY <2>1, <2>2
  <1>3. IInv /\ MeasureInv => PromotionEarned
    <2> SUFFICES ASSUME IInv, MeasureInv, NEW n \in Outputs, NEW r \in MayShow(n),
                        Whole(r), r.decision = "PROMOTION PASS"
                 PROVE  Earned(r.by)
      BY DEF PromotionEarned
    <2>1. r.by \in Attempts /\ r = final[r.by] /\ final[r.by] # Nothing
      BY PassIsFinal
    <2>2. Promotes(r.by)
      BY <2>1, Zenon DEF Promotes
    <2> QED BY <2>1, <2>2 DEF MeasureInv
  <1>4. Spec => []MeasureInv
    BY <1>1, <1>2, Invariance, PTL DEF Spec
  <1> QED BY <1>3, <1>4, Invariance, PTL
==============================================================================

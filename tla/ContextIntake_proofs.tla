------------------------- MODULE ContextIntake_proofs -------------------------
(* The safety properties of ContextIntake for any files, trees and arrivals. *)
EXTENDS ContextIntake, FiniteSetTheorems, TLAPS

-----------------------------------------------------------------------------
(* The inductive invariant                                                 *)

\* Where the rows of a morning run come from.
Origins ==
  /\ \A r \in contexts : r.origin = "staged" \/ (r.origin = "raw" /\ stage # "loading")
  /\ \A r \in raw : r.origin = "raw"

\* Rows that may become candidates have a date, if only the text nan.
AreDated(rows) == \A r \in rows : IsCandidate(r) => r.date # Blank

CandidatesAreDated ==
  /\ AreDated(contexts)
  /\ sample # None => AreDated(sample.rows) /\ \A r \in sample.rows : IsRow(r)

\* The table was built from the context rows as they are.
TableIsBuilt ==
  stage = "built" =>
    table = {Labelled(Candidates(contexts), c) : c \in Candidates(contexts)}

\* As long as nothing has arrived, raw rows are those of the tree as it is, and a
\* whole replay is one of the tree as it is.
TreeIsKept ==
  arrivals = 0 =>
    /\ \A r \in contexts \cup raw : r.origin = "raw" => r \in RawRows(tree, {Session})
    /\ replay # None => (replay.whole =>
         \E rawOnly \in BOOLEAN : replay.table = Candidates(Corpus(tree, TRUE, rawOnly, Days)))

IInv ==
  /\ TypeOK /\ IsFiniteSet(contexts)
  /\ Origins /\ RawFillsGapsOnce
  /\ CandidatesAreDated /\ TableIsBuilt /\ TreeIsKept

-----------------------------------------------------------------------------
(* Tables are finite                                                       *)

\* The values of a function with a finite domain are finitely many.
LEMMA FiniteImage ==
  ASSUME NEW f, IsFiniteSet(DOMAIN f)
  PROVE  IsFiniteSet({f[x] : x \in DOMAIN f})
<1> DEFINE T == {f[x] : x \in DOMAIN f}
           g == [x \in DOMAIN f |-> f[x]]
<1>1. g \in Surjection(DOMAIN f, T)
  BY DEF Surjection
<1> QED
  BY <1>1, FS_Surjection

\* So are the elements of the finite sets a sequence lists.
LEMMA FiniteUnion ==
  ASSUME NEW f, IsFiniteSet(DOMAIN f), \A x \in DOMAIN f : IsFiniteSet(f[x])
  PROVE  IsFiniteSet(UNION {f[x] : x \in DOMAIN f})
<1>1. IsFiniteSet({f[x] : x \in DOMAIN f})
  BY FiniteImage
<1> QED
  BY <1>1, FS_UNION

LEMMA FiniteSequence ==
  ASSUME NEW s, IsSequence(s)
  PROVE  IsFiniteSet(DOMAIN s) /\ DOMAIN s \subseteq Int
<1>1. IsFiniteSet(1..Len(s))
  BY FS_Interval DEF IsSequence
<1> QED
  BY <1>1 DEF IsSequence

-----------------------------------------------------------------------------
(* The rows of one file                                                    *)

Sources == {"staged", "processed", "raw"}

LEMMA RowIsRow ==
  ASSUME NEW symbol, NEW date \in Nat \cup {NanDate}, NEW profile \in Profiles,
         NEW gamma, NEW origin \in Sources, NEW at \in Int \X Int \X Int,
         NEW r, r = Row(symbol, date, profile, gamma, origin, at)
  PROVE  /\ IsRow(r)
         /\ r.symbol = symbol /\ r.date = date /\ r.profile = profile
         /\ r.gamma = gamma /\ r.origin = origin
<1>1. /\ r.symbol = symbol /\ r.date = date /\ r.profile = profile
      /\ r.gamma = gamma /\ r.origin = origin /\ r.at = at
  BY DEF Row
<1> QED
  BY <1>1 DEF IsRow, Sources

LEMMA MarketRowsAre ==
  ASSUME NEW f, IsFile(f), NEW profile \in Market, NEW day \in Nat,
         NEW origin \in Sources, NEW folder \in Int, NEW k \in Int
  PROVE  LET rows == MarketRows(f, profile, day, origin, folder, k) IN
         /\ IsFiniteSet(rows)
         /\ \A r \in rows : IsRow(r) /\ r.origin = origin /\ r.profile = profile
<1> DEFINE date(n) == IF f.rows[n].date # Blank THEN f.rows[n].date ELSE day
           row(n) == Row("SPY", date(n), profile, f.rows[n].gamma, origin, <<folder, k, n>>)
           g == [n \in DOMAIN f.rows |-> row(n)]
           rows == MarketRows(f, profile, day, origin, folder, k)
<1>1. rows = {g[n] : n \in DOMAIN g}
  BY DEF MarketRows
<1>2. IsFiniteSet(DOMAIN g) /\ DOMAIN f.rows \subseteq Int
  BY FiniteSequence DEF IsFile
<1>3. IsFiniteSet(rows)
  <2> HIDE DEF g, rows
  <2> QED BY <1>1, <1>2, FiniteImage
<1>4. ASSUME NEW r \in rows
      PROVE  IsRow(r) /\ r.origin = origin /\ r.profile = profile
  <2>1. PICK n \in DOMAIN f.rows : r = row(n)
    BY DEF MarketRows
  <2>2. PICK d \in Nat \cup {NanDate} :
               r = Row("SPY", d, profile, f.rows[n].gamma, origin, <<folder, k, n>>)
    BY <2>1 DEF IsFile
  <2>3. <<folder, k, n>> \in Int \X Int \X Int
    BY <1>2
  <2>4. profile \in Profiles
    BY DEF Profiles
  <2> QED BY <2>2, <2>3, <2>4, RowIsRow
<1> QED
  BY <1>3, <1>4

LEMMA ScannerRowsAre ==
  ASSUME NEW f, IsFile(f), NEW profile \in Scanners, NEW day \in Nat,
         NEW origin \in Sources, NEW folder \in Int, NEW k \in Int
  PROVE  LET rows == ScannerRows(f, profile, day, origin, folder, k) IN
         /\ IsFiniteSet(rows)
         /\ \A r \in rows : /\ IsRow(r) /\ r.origin = origin /\ r.profile = profile
                            /\ r.date = day /\ r.symbol # None
<1> DEFINE row(n) == Row(f.rows[n].symbol, day, profile, f.rows[n].gamma, origin, <<folder, k, n>>)
           lines == {m \in DOMAIN f.rows : f.rows[m].symbol # None}
           g == [n \in lines |-> row(n)]
           rows == ScannerRows(f, profile, day, origin, folder, k)
<1>1. rows = {g[n] : n \in DOMAIN g}
  BY DEF ScannerRows
<1>2. IsFiniteSet(DOMAIN f.rows) /\ DOMAIN f.rows \subseteq Int
  BY FiniteSequence DEF IsFile
<1>3. IsFiniteSet(rows)
  <2>1. IsFiniteSet(DOMAIN g)
    BY <1>2, FS_Subset
  <2> HIDE DEF g, rows
  <2> QED BY <1>1, <2>1, FiniteImage
<1>4. ASSUME NEW r \in rows
      PROVE  /\ IsRow(r) /\ r.origin = origin /\ r.profile = profile
             /\ r.date = day /\ r.symbol # None
  <2>1. PICK n \in lines : r = row(n)
    BY DEF ScannerRows
  <2>2. <<folder, k, n>> \in Int \X Int \X Int
    BY <1>2
  <2>3. profile \in Profiles
    BY DEF Profiles
  <2> QED BY <2>1, <2>2, <2>3, RowIsRow
<1> QED
  BY <1>3, <1>4

LEMMA WeeklyRowsAre ==
  ASSUME NEW f, IsFile(f), NEW origin \in Sources, NEW k \in Int
  PROVE  LET rows == WeeklyRows(f, origin, k) IN
         /\ IsFiniteSet(rows)
         /\ \A r \in rows : /\ IsRow(r) /\ r.origin = origin
                            /\ r.profile = "processed_weekly" /\ r.date # Blank
<1> DEFINE date(n) == IF f.rows[n].date = Blank THEN NanDate ELSE f.rows[n].date
           row(n) == Row(f.rows[n].symbol, date(n), "processed_weekly", f.rows[n].gamma,
                         origin, <<Listed, k, n>>)
           g == [n \in DOMAIN f.rows |-> row(n)]
           rows == WeeklyRows(f, origin, k)
<1>1. rows = {g[n] : n \in DOMAIN g}
  BY DEF WeeklyRows
<1>2. IsFiniteSet(DOMAIN g) /\ DOMAIN f.rows \subseteq Int
  BY FiniteSequence DEF IsFile
<1>3. IsFiniteSet(rows)
  <2> HIDE DEF g, rows
  <2> QED BY <1>1, <1>2, FiniteImage
<1>4. ASSUME NEW r \in rows
      PROVE  /\ IsRow(r) /\ r.origin = origin
             /\ r.profile = "processed_weekly" /\ r.date # Blank
  <2>1. PICK n \in DOMAIN f.rows : r = row(n)
    BY DEF WeeklyRows
  <2>2. PICK d \in Nat \cup {NanDate} :
               /\ d # Blank
               /\ r = Row(f.rows[n].symbol, d, "processed_weekly", f.rows[n].gamma,
                          origin, <<Listed, k, n>>)
    BY <2>1 DEF IsFile, Blank, NanDate
  <2>3. <<Listed, k, n>> \in Int \X Int \X Int
    BY <1>2 DEF Listed
  <2>4. "processed_weekly" \in Profiles
    BY DEF Profiles
  <2> QED BY <2>2, <2>3, <2>4, RowIsRow
<1> QED
  BY <1>3, <1>4

\* What reading a file may find.
LEMMA KindOf ==
  ASSUME NEW f
  PROVE  /\ Kind(f) \in Profiles \cup {"gone", "narrative", "unmatched", "corrupt"}
         /\ f = None => Kind(f) = "gone"
<1>1. ScannerProfile(f) \in Scanners \cup {"unmatched"}
  BY DEF ScannerProfile, Scanners
<1> QED
  BY <1>1 DEF Kind, Profiles, Market

\* Scanner and weekly rows are dated, and scanner rows have a symbol.
IsSound(r) ==
  /\ IsRow(r)
  /\ IsCandidate(r) => r.date # Blank
  /\ IsCandidate(r) /\ r.profile # "processed_weekly" => r.symbol # None

LEMMA MarketIsNoCandidate ==
  ASSUME NEW r, r.profile \in Market
  PROVE  ~IsCandidate(r)
BY DEF Market, IsCandidate, Scanners

LEMMA SessionDay ==
  Session \in Nat /\ Session # Blank
BY DatesAssumption

LEMMA StagedRowsAre ==
  ASSUME NEW f, f = None \/ IsFile(f), Loadable(f), NEW k \in Int
  PROVE  /\ IsFiniteSet(StagedRows(f, k))
         /\ \A r \in StagedRows(f, k) : IsSound(r) /\ r.origin = "staged"
<1> "staged" \in Sources /\ Listed \in Int
  BY DEF Sources, Listed
<1>1. IsFile(f) /\ Kind(f) \in Profiles \cup {"narrative"}
  BY KindOf DEF Loadable
<1>2. CASE Kind(f) = "narrative"
  <2>1. StagedRows(f, k) = {}
    BY <1>2 DEF StagedRows, Market
  <2> QED BY <2>1, FS_EmptySet
<1>3. CASE Kind(f) \in Market
  <2>1. StagedRows(f, k) = MarketRows(f, Kind(f), Session, "staged", Listed, k)
    BY <1>3 DEF StagedRows, Market
  <2> QED BY <2>1, <1>1, <1>3, MarketRowsAre, SessionDay, MarketIsNoCandidate DEF IsSound
<1>4. CASE Kind(f) = "processed_weekly"
  <2>1. StagedRows(f, k) = WeeklyRows(f, "staged", k)
    BY <1>4 DEF StagedRows, Market
  <2> QED BY <2>1, <1>1, WeeklyRowsAre DEF IsSound
<1>5. CASE Kind(f) \in Scanners
  <2>1. StagedRows(f, k) = ScannerRows(f, Kind(f), Session, "staged", Listed, k)
    BY <1>5 DEF StagedRows, Scanners, Market
  <2> QED BY <2>1, <1>1, <1>5, ScannerRowsAre, SessionDay DEF IsSound
<1> QED
  BY <1>1, <1>2, <1>3, <1>4, <1>5 DEF Profiles

-----------------------------------------------------------------------------
(* The rows of a tree                                                      *)

LEMMA HistoryRowsAre ==
  ASSUME NEW t \in Trees, NEW days
  PROVE  /\ IsFiniteSet(HistoryRows(t, days))
         /\ \A r \in HistoryRows(t, days) : IsSound(r) /\ r.origin = "raw"
<1> DEFINE rows(k) == MarketRows(t.history[k].file, "spy_history", t.history[k].day, "raw",
                                 Histories, k)
           g == [k \in DOMAIN t.history |-> rows(k)]
<1>1. IsFiniteSet(DOMAIN t.history) /\ DOMAIN t.history \subseteq Int
  BY FilesAssumption, FiniteSequence
<1>2. ASSUME NEW k \in DOMAIN t.history
      PROVE  /\ IsFiniteSet(rows(k))
             /\ \A r \in rows(k) : IsSound(r) /\ r.origin = "raw"
  <2>1. IsFile(t.history[k].file) /\ t.history[k].day \in Nat /\ k \in Int
    BY <1>1, FilesAssumption
  <2>2. "raw" \in Sources /\ "spy_history" \in Market /\ Histories \in Int
    BY DEF Sources, Market, Histories
  <2>3. /\ IsFiniteSet(rows(k))
        /\ \A r \in rows(k) : IsRow(r) /\ r.origin = "raw" /\ r.profile = "spy_history"
    BY <2>1, <2>2, MarketRowsAre
  <2> QED BY <2>2, <2>3, MarketIsNoCandidate DEF IsSound
<1>3. HistoryRows(t, days) \subseteq UNION {g[k] : k \in DOMAIN g}
  BY DEF HistoryRows
<1>4. IsFiniteSet(UNION {g[k] : k \in DOMAIN g})
  <2>1. IsFiniteSet(DOMAIN g) /\ \A k \in DOMAIN g : IsFiniteSet(g[k])
    BY <1>1, <1>2
  <2> HIDE DEF g
  <2> QED BY <2>1, FiniteUnion
<1>5. ASSUME NEW r \in HistoryRows(t, days)
      PROVE  IsSound(r) /\ r.origin = "raw"
  <2>1. PICK k \in DOMAIN t.history : r \in rows(k)
    BY DEF HistoryRows
  <2> QED BY <2>1, <1>2
<1>6. IsFiniteSet(HistoryRows(t, days))
  <2> HIDE DEF g
  <2> QED BY <1>3, <1>4, FS_Subset
<1> QED
  BY <1>5, <1>6

LEMMA SessionRowsAre ==
  ASSUME NEW t \in Trees, NEW day \in Days
  PROVE  /\ IsFiniteSet(SessionRows(t.sessions[day], day))
         /\ \A r \in SessionRows(t.sessions[day], day) : IsSound(r) /\ r.origin = "raw"
<1> DEFINE s == t.sessions[day]
           lists == {m \in DOMAIN s.scanners : Kind(s.scanners[m]) \in Scanners}
           rows(k) == ScannerRows(s.scanners[k], Kind(s.scanners[k]), day, "raw", day, k)
           g == [k \in lists |-> rows(k)]
           spy == SessionSpyRows(s, day)
<1> "raw" \in Sources /\ day \in Nat /\ day \in Int /\ day # Blank
  BY DatesAssumption DEF Sources
<1>1. /\ IsSequence(s.scanners)
      /\ \A k \in DOMAIN s.scanners : IsFile(s.scanners[k])
      /\ s.spy = None \/ IsFile(s.spy)
  BY FilesAssumption
<1>2. /\ IsFiniteSet(spy)
      /\ \A r \in spy : IsSound(r) /\ r.origin = "raw"
  <2>1. CASE Kind(s.spy) = "spy_excel"
    <3>1. IsFile(s.spy)
      BY <2>1, <1>1, KindOf
    <3>2. Len(s.scanners) + 1 \in Int /\ "spy_excel" \in Market
      BY <1>1 DEF IsSequence, Market
    <3>3. spy = MarketRows(s.spy, "spy_excel", day, "raw", day, Len(s.scanners) + 1)
      BY <2>1 DEF SessionSpyRows
    <3> HIDE DEF spy, s
    <3>4. /\ IsFiniteSet(spy)
          /\ \A r \in spy : IsRow(r) /\ r.origin = "raw" /\ r.profile = "spy_excel"
      BY <3>1, <3>2, <3>3, MarketRowsAre
    <3> QED BY <3>2, <3>4, MarketIsNoCandidate DEF IsSound
  <2>2. CASE Kind(s.spy) # "spy_excel"
    <3>1. spy = {}
      BY <2>2 DEF SessionSpyRows
    <3> QED BY <3>1, FS_EmptySet
  <2> QED BY <2>1, <2>2
<1>3. ASSUME NEW k \in lists
      PROVE  /\ IsFiniteSet(rows(k))
             /\ \A r \in rows(k) : IsSound(r) /\ r.origin = "raw"
  <2>1. IsFile(s.scanners[k]) /\ Kind(s.scanners[k]) \in Scanners /\ k \in Int
    BY <1>1, FiniteSequence
  <2> QED BY <2>1, ScannerRowsAre DEF IsSound
<1>4. SessionRows(s, day) = spy \cup UNION {g[k] : k \in DOMAIN g}
  BY DEF SessionRows
<1>5. IsFiniteSet(UNION {g[k] : k \in DOMAIN g})
  <2>1. IsFiniteSet(DOMAIN g)
    <3>1. IsFiniteSet(DOMAIN s.scanners)
      BY <1>1, FiniteSequence
    <3> QED BY <3>1, FS_Subset
  <2>2. \A k \in DOMAIN g : IsFiniteSet(g[k])
    BY <1>3
  <2> HIDE DEF g
  <2> QED BY <2>1, <2>2, FiniteUnion
<1>6. IsFiniteSet(SessionRows(s, day))
  <2> HIDE DEF g, spy
  <2> QED BY <1>2, <1>4, <1>5, FS_Union
<1>7. ASSUME NEW r \in SessionRows(s, day)
      PROVE  IsSound(r) /\ r.origin = "raw"
  <2>1. r \in spy \/ \E k \in lists : r \in rows(k)
    BY DEF SessionRows
  <2> QED BY <2>1, <1>2, <1>3
<1> QED
  BY <1>6, <1>7

LEMMA RawRowsAre ==
  ASSUME NEW t \in Trees, NEW days \in SUBSET Days
  PROVE  /\ IsFiniteSet(RawRows(t, days))
         /\ \A r \in RawRows(t, days) : IsSound(r) /\ r.origin = "raw"
<1> DEFINE g == [d \in days |-> SessionRows(t.sessions[d], d)]
<1>1. IsFiniteSet(DOMAIN g)
  BY DatesAssumption, FS_Subset
<1>2. \A d \in DOMAIN g : IsFiniteSet(g[d]) /\ \A r \in g[d] : IsSound(r) /\ r.origin = "raw"
  BY SessionRowsAre
<1>3. RawRows(t, days) = HistoryRows(t, days) \cup UNION {g[d] : d \in DOMAIN g}
  BY DEF RawRows
<1> HIDE DEF g
<1>4. IsFiniteSet(UNION {g[d] : d \in DOMAIN g})
  BY <1>1, <1>2, FiniteUnion
<1>5. IsFiniteSet(RawRows(t, days))
  <2>1. IsFiniteSet(HistoryRows(t, days))
    BY HistoryRowsAre
  <2> QED BY <1>3, <1>4, <2>1, FS_Union
<1>6. \A r \in RawRows(t, days) : IsSound(r) /\ r.origin = "raw"
  BY <1>2, <1>3, HistoryRowsAre
<1> QED
  BY <1>5, <1>6

\* The corpus is sound, whichever of its parts are read.
LEMMA CorpusIs ==
  ASSUME NEW t \in Trees, NEW includeRaw, NEW rawOnly, NEW days \in SUBSET Days
  PROVE  /\ IsFiniteSet(Corpus(t, includeRaw, rawOnly, days))
         /\ \A r \in Corpus(t, includeRaw, rawOnly, days) : IsSound(r)
<1> DEFINE g == [k \in DOMAIN t.weekly |-> WeeklyRows(t.weekly[k], "processed", k)]
<1>1. IsFiniteSet(DOMAIN t.weekly) /\ DOMAIN t.weekly \subseteq Int
  BY FilesAssumption, FiniteSequence
<1>2. \A k \in DOMAIN g : IsFiniteSet(g[k]) /\ \A r \in g[k] : IsSound(r)
  <2> TAKE k \in DOMAIN g
  <2>1. IsFile(t.weekly[k]) /\ k \in Int /\ "processed" \in Sources
    BY <1>1, FilesAssumption DEF Sources
  <2> QED BY <2>1, WeeklyRowsAre DEF IsSound
<1>3. AllWeeklyRows(t) = UNION {g[k] : k \in DOMAIN g}
  BY DEF AllWeeklyRows
<1>4. IsFiniteSet(AllWeeklyRows(t)) /\ \A r \in AllWeeklyRows(t) : IsSound(r)
  <2>1. IsFiniteSet(DOMAIN g)
    BY <1>1
  <2> HIDE DEF g
  <2> QED BY <1>2, <1>3, <2>1, FiniteUnion
<1>5. IsFiniteSet({})
  BY FS_EmptySet
<1> DEFINE A == IF rawOnly THEN {} ELSE AllWeeklyRows(t)
           B == IF includeRaw THEN RawRows(t, days) ELSE {}
<1>6. IsFiniteSet(A) /\ \A r \in A : IsSound(r)
  BY <1>4, <1>5
<1>7. IsFiniteSet(B) /\ \A r \in B : IsSound(r)
  BY <1>5, RawRowsAre
<1>8. Corpus(t, includeRaw, rawOnly, days) = A \cup B
  BY DEF Corpus
<1> HIDE DEF A, B
<1> QED
  BY <1>6, <1>7, <1>8, FS_Union

\* Whatever the morning run may read in the raw tree, a whole replay reads too.
LEMMA CorpusHasTheRawRows ==
  ASSUME NEW t \in Trees, NEW rawOnly
  PROVE  RawRows(t, {Session}) \subseteq Corpus(t, TRUE, rawOnly, Days)
<1>1. HistoryRows(t, {Session}) \subseteq HistoryRows(t, Days)
  BY DEF HistoryRows
<1>2. Session \in Days
  BY DatesAssumption
<1>3. RawRows(t, {Session}) \subseteq RawRows(t, Days)
  BY <1>1, <1>2 DEF RawRows
<1> QED
  BY <1>3 DEF Corpus

-----------------------------------------------------------------------------
(* The last row                                                            *)

\* A row precedes another one if its place does, in the order of the folders.
LEMMA PrecedesIsAnOrder ==
  ASSUME NEW r, IsRow(r), NEW s, IsRow(s), NEW u, IsRow(u)
  PROVE  /\ ~Precedes(r, r)
         /\ Precedes(r, s) /\ Precedes(s, u) => Precedes(r, u)
<1> DEFINE Before(a, b) ==
             \/ a[1] < b[1]
             \/ a[1] = b[1] /\ a[2] < b[2]
             \/ a[1] = b[1] /\ a[2] = b[2] /\ a[3] < b[3]
<1>1. /\ \A i \in 1..3 : r.at[i] \in Int
      /\ \A i \in 1..3 : s.at[i] \in Int
      /\ \A i \in 1..3 : u.at[i] \in Int
  BY DEF IsRow
<1>2. ASSUME NEW x, NEW y
      PROVE  Precedes(x, y) <=> Before(x.at, y.at)
  BY DEF Precedes
<1>3. ~Before(r.at, r.at)
  BY <1>1
<1>4. Before(r.at, s.at) /\ Before(s.at, u.at) => Before(r.at, u.at)
  BY <1>1
<1> QED
  BY <1>2, <1>3, <1>4

LEMMA SmallestSet ==
  ASSUME NEW F, F # {}, \A A \in F : IsFiniteSet(A)
  PROVE  \E A \in F : \A B \in F : B \subseteq A => B = A
<1> DEFINE U == UNION F
<1>1. F \subseteq FiniteSubsetsOf(U)
  BY DEF FiniteSubsetsOf
<1>2. PICK A \in F : \A B \in F : <<B, A>> \notin StrictSubsetOrdering(U)
  BY <1>1, FS_StrictSubsetOrderingWellFounded, WFMin
<1>3. \A B \in F : B \subseteq A => B = A
  BY <1>2 DEF StrictSubsetOrdering
<1> QED
  BY <1>3

\* Some rows have a last one exactly if there are any.
LEMMA LastExists ==
  ASSUME NEW rows, IsFiniteSet(rows), \A r \in rows : IsRow(r)
  PROVE  Last(rows) # {} <=> rows # {}
<1> DEFINE After(r) == {s \in rows : Precedes(r, s)}
           F == {After(r) : r \in rows}
<1>1. Last(rows) \subseteq rows
  BY DEF Last
<1>2. ASSUME rows # {} PROVE Last(rows) # {}
  <2>1. F # {} /\ \A A \in F : IsFiniteSet(A)
    <3>1. \A r \in rows : IsFiniteSet(After(r))
      BY FS_Subset
    <3> QED BY <1>2, <3>1
  <2>2. PICK A \in F : \A B \in F : B \subseteq A => B = A
    <3> HIDE DEF F
    <3> QED BY <2>1, SmallestSet
  <2>3. PICK r \in rows : A = After(r)
    OBVIOUS
  <2>4. ASSUME NEW s \in rows, Precedes(r, s) PROVE FALSE
    <3>1. After(s) \subseteq After(r)
      BY <2>4, PrecedesIsAnOrder
    <3>2. After(s) = After(r)
      BY <2>2, <2>3, <3>1
    <3>3. s \in After(r) /\ s \notin After(s)
      BY <2>4, PrecedesIsAnOrder
    <3> QED BY <3>2, <3>3
  <2> QED BY <2>4 DEF Last
<1> QED
  BY <1>1, <1>2

\* A row has SPY context exactly if some SPY row has its date.
LEMMA SpyOfExists ==
  ASSUME NEW rows, IsFiniteSet(rows), \A r \in rows : IsRow(r), NEW date, date # Blank
  PROVE  /\ SpyOf(rows, date) # {} <=> HasSpyOf(rows, date)
         /\ SpyOf(rows, date) \subseteq {r \in rows : r.profile \in Market /\ r.date = date}
<1> DEFINE of(profile) == {r \in rows : r.profile = profile /\ r.date = date /\ date # Blank}
           found == IF of("spy_excel") # {} THEN of("spy_excel") ELSE of("spy_history")
<1>1. SpyOf(rows, date) = Last(found)
  BY DEF SpyOf
<1>2. found \subseteq {r \in rows : r.profile \in Market /\ r.date = date}
  BY DEF Market
<1>3. found # {} <=> HasSpyOf(rows, date)
  BY DEF HasSpyOf, Market
<1>4. IsFiniteSet(found) /\ \A r \in found : IsRow(r)
  BY <1>2, FS_Subset
<1> HIDE DEF found
<1>5. Last(found) # {} <=> found # {}
  BY <1>4, LastExists
<1>6. Last(found) \subseteq found
  BY DEF Last
<1> QED
  BY <1>1, <1>2, <1>3, <1>5, <1>6

-----------------------------------------------------------------------------
(* The morning run keeps the invariant                                     *)

LEMMA InitIInv ==
  Init => IInv
<1> SUFFICES ASSUME Init PROVE IInv
  OBVIOUS
<1>1. TypeOK
  <2>1. \A p \in DOMAIN staging : staging[p] = None \/ IsFile(staging[p])
    BY FilesAssumption DEF Init
  <2>2. Len(packet) \in Nat
    BY PacketsAssumption DEF Init, IsSequence
  <2>3. next \in 1..(Len(packet) + 1) /\ arrivals \in 0..MaxArrivals
    BY <2>2, ArrivalsAssumption DEF Init
  <2> QED BY <2>1, <2>3 DEF Init, TypeOK
<1>2. IsFiniteSet(contexts)
  BY FS_EmptySet DEF Init
<1>3. Origins /\ RawFillsGapsOnce /\ TableIsBuilt /\ TreeIsKept
  BY DEF Init, Origins, RawFillsGapsOnce, TableIsBuilt, TreeIsKept
<1>4. CandidatesAreDated
  BY SamplesAssumption DEF Init, CandidatesAreDated, AreDated
<1> QED
  BY <1>1, <1>2, <1>3, <1>4 DEF IInv

\* The rows of a state with the invariant are sound.
LEMMA ContextsAreSound ==
  ASSUME TypeOK, CandidatesAreDated
  PROVE  \A r \in contexts : IsSound(r)
BY DEF TypeOK, CandidatesAreDated, AreDated, IsSound

LEMMA StepLoad ==
  ASSUME IInv, Load
  PROVE  IInv'
<1> DEFINE f == staging[packet[next]]
<1> USE DEF IInv
<1>1. /\ stage = "loading" /\ next \in 1..Len(packet) /\ next \in Int
      /\ raw = {} /\ table = {} /\ IsSequence(packet)
  BY PacketsAssumption DEF Load, TypeOK, IsSequence
<1>2. f = None \/ IsFile(f)
  <2>1. packet[next] \in DOMAIN staging
    BY <1>1, PacketsAssumption DEF TypeOK, IsSequence
  <2> QED BY <2>1 DEF TypeOK
<1>3. /\ stage' \in {"loading", "failed"}
      /\ contexts' = contexts \/ (Loadable(f) /\ contexts' = contexts \cup StagedRows(f, next))
  BY <1>1 DEF Load
<1>4. /\ UNCHANGED <<tree, staging, arrivals, packet, raw, table, corpus>>
      /\ next' = next + 1
  BY DEF Load
<1>5. /\ IsFiniteSet(contexts')
      /\ \A r \in contexts' : r \in contexts \/ (IsSound(r) /\ r.origin = "staged")
  <2>1. CASE contexts' = contexts
    BY <2>1
  <2>2. CASE Loadable(f) /\ contexts' = contexts \cup StagedRows(f, next)
    <3>1. /\ IsFiniteSet(StagedRows(f, next))
          /\ \A r \in StagedRows(f, next) : IsSound(r) /\ r.origin = "staged"
      BY <2>2, <1>1, <1>2, StagedRowsAre
    <3> QED BY <2>2, <3>1, FS_Union
  <2> QED BY <1>3, <2>1, <2>2
<1> HIDE DEF f
<1>6. \A r \in contexts' : IsSound(r) /\ r.origin = "staged"
  <2>1. \A r \in contexts : IsSound(r) /\ r.origin = "staged"
    BY <1>1, ContextsAreSound DEF Origins
  <2> QED BY <2>1, <1>5
<1>7. TypeOK'
  <2>1. next' \in 1..(Len(packet) + 1)
    BY <1>1, <1>4 DEF IsSequence
  <2> QED BY <2>1, <1>1, <1>3, <1>4, <1>6 DEF TypeOK, IsSound
<1>8. Origins' /\ RawFillsGapsOnce'
  BY <1>1, <1>4, <1>6 DEF Origins, RawFillsGapsOnce
<1>9. CandidatesAreDated'
  BY <1>4, <1>6 DEF CandidatesAreDated, AreDated, IsSound, corpus
<1>10. TableIsBuilt'
  BY <1>3 DEF TableIsBuilt
<1>11. TreeIsKept'
  BY <1>1, <1>4, <1>6 DEF TreeIsKept, corpus
<1> QED
  BY <1>5, <1>7, <1>8, <1>9, <1>10, <1>11

LEMMA StepReadRaw ==
  ASSUME IInv, ReadRaw
  PROVE  IInv'
<1> USE DEF IInv
<1>1. /\ stage = "loading" /\ raw = {} /\ table = {}
      /\ UNCHANGED <<tree, staging, arrivals, packet, next, contexts, table, corpus>>
  BY DEF ReadRaw, TypeOK
<1>2. \/ raw' = RawRows(tree, {Session}) /\ stage' = "merging"
      \/ raw' = raw /\ stage' = "failed"
  BY DEF ReadRaw
<1>3. \A r \in raw' : IsSound(r) /\ r.origin = "raw" /\ r \in RawRows(tree, {Session})
  <2>1. tree \in Trees /\ {Session} \in SUBSET Days
    BY DatesAssumption DEF TypeOK
  <2>2. \A r \in RawRows(tree, {Session}) : IsSound(r) /\ r.origin = "raw"
    BY <2>1, RawRowsAre
  <2> QED BY <2>2, <1>1, <1>2
<1>4. TypeOK'
  BY <1>1, <1>2, <1>3 DEF TypeOK, IsSound
<1>5. Origins' /\ RawFillsGapsOnce'
  BY <1>1, <1>3 DEF Origins, RawFillsGapsOnce
<1>6. CandidatesAreDated'
  BY <1>1 DEF CandidatesAreDated, AreDated, corpus
<1>7. TableIsBuilt'
  BY <1>2 DEF TableIsBuilt
<1>8. TreeIsKept'
  BY <1>1, <1>3 DEF TreeIsKept, corpus
<1> QED
  BY <1>1, <1>4, <1>5, <1>6, <1>7, <1>8

LEMMA StepMerge ==
  ASSUME IInv, Merge
  PROVE  IInv'
<1> USE DEF IInv
<1>1. PICK r \in raw :
        /\ contexts' = AddSpy(contexts, r)
        /\ raw' = raw \ {r}
  BY DEF Merge
<1>2. /\ stage = "merging" /\ stage' = stage /\ table = {}
      /\ UNCHANGED <<tree, staging, arrivals, packet, next, table, corpus>>
  BY DEF Merge, TypeOK
<1>3. /\ r.origin = "raw" /\ IsRow(r)
      /\ \/ contexts' = contexts
         \/ /\ contexts' = contexts \cup {r}
            /\ r.profile \in Market /\ ~HasSpyOf(contexts, r.date)
  BY <1>1 DEF AddSpy, Origins, TypeOK
<1>4. IsFiniteSet(contexts')
  BY <1>3, FS_AddElement
<1>5. r.profile \in Market => ~IsCandidate(r)
  BY MarketIsNoCandidate
<1>6. TypeOK'
  BY <1>1, <1>2, <1>3, <1>5 DEF TypeOK
<1>7. Origins'
  BY <1>1, <1>2, <1>3 DEF Origins
<1>8. RawFillsGapsOnce'
  <2>1. CASE contexts' = contexts
    BY <2>1 DEF RawFillsGapsOnce
  <2>2. CASE /\ contexts' = contexts \cup {r}
             /\ r.profile \in Market /\ ~HasSpyOf(contexts, r.date)
    <3>1. ASSUME NEW s \in contexts PROVE ~(s.profile \in Market /\ s.date = r.date)
      BY <2>2 DEF HasSpyOf
    <3> QED BY <2>2, <3>1 DEF RawFillsGapsOnce
  <2> QED BY <1>3, <2>1, <2>2
<1>9. CandidatesAreDated'
  BY <1>2, <1>3, <1>5 DEF CandidatesAreDated, AreDated, corpus
<1>10. TableIsBuilt'
  BY <1>2 DEF TableIsBuilt
<1>11. TreeIsKept'
  BY <1>1, <1>2, <1>3 DEF TreeIsKept, corpus
<1> QED
  BY <1>4, <1>6, <1>7, <1>8, <1>9, <1>10, <1>11

LEMMA StepBuild ==
  ASSUME IInv, Build
  PROVE  IInv'
<1> USE DEF IInv
<1>1. /\ stage' = "built" /\ raw = {}
      /\ UNCHANGED <<tree, staging, arrivals, packet, next, contexts, raw, corpus>>
  BY DEF Build
<1>2. table' = {Labelled(Candidates(contexts), c) : c \in Candidates(contexts)}
  BY DEF Build
<1>3. TypeOK'
  BY <1>1 DEF TypeOK
<1>4. Origins' /\ RawFillsGapsOnce'
  BY <1>1 DEF Origins, RawFillsGapsOnce
<1>5. CandidatesAreDated'
  BY <1>1 DEF CandidatesAreDated, AreDated, corpus
<1>6. TableIsBuilt'
  BY <1>1, <1>2 DEF TableIsBuilt
<1>7. TreeIsKept'
  BY <1>1 DEF TreeIsKept, corpus
<1> QED
  BY <1>1, <1>3, <1>4, <1>5, <1>6, <1>7

-----------------------------------------------------------------------------
(* So do the replay commands and the arrivals                              *)

\* A replay command changes the sample or the replay, and neither touches the run.
LEMMA StepCorpus ==
  ASSUME IInv, UNCHANGED <<tree, staging, arrivals, morning>>,
         (sample # None => AreDated(sample.rows) /\ \A r \in sample.rows : IsRow(r))',
         (arrivals = 0 /\ replay # None => (replay.whole =>
            \E rawOnly \in BOOLEAN :
              replay.table = Candidates(Corpus(tree, TRUE, rawOnly, Days))))'
  PROVE  IInv'
<1> USE DEF IInv
<1>1. UNCHANGED <<tree, staging, arrivals, packet, stage, next, contexts, raw, table>>
  BY DEF morning
<1>2. TypeOK'
  BY <1>1 DEF TypeOK
<1>3. Origins' /\ RawFillsGapsOnce' /\ TableIsBuilt'
  BY <1>1 DEF Origins, RawFillsGapsOnce, TableIsBuilt
<1>4. CandidatesAreDated'
  BY <1>1 DEF CandidatesAreDated, AreDated
<1>5. TreeIsKept'
  BY <1>1 DEF TreeIsKept
<1> QED
  BY <1>1, <1>2, <1>3, <1>4, <1>5

LEMMA StepExport ==
  ASSUME IInv, NEW includeRaw \in BOOLEAN, NEW rawOnly \in BOOLEAN,
         NEW days \in {Days, {Session}}, Export(includeRaw, rawOnly, days)
  PROVE  IInv'
<1> DEFINE rows == Corpus(tree, includeRaw, rawOnly, days)
<1>1. \A r \in rows : IsSound(r)
  BY CorpusIs, DatesAssumption DEF IInv, TypeOK
<1>2. sample'.rows = rows /\ UNCHANGED <<tree, staging, arrivals, morning, replay>>
  BY DEF Export
<1> HIDE DEF rows
<1>3. (sample # None => AreDated(sample.rows) /\ \A r \in sample.rows : IsRow(r))'
  BY <1>1, <1>2 DEF AreDated, IsSound
<1>4. (arrivals = 0 /\ replay # None => (replay.whole =>
         \E only \in BOOLEAN : replay.table = Candidates(Corpus(tree, TRUE, only, Days))))'
  BY <1>2 DEF IInv, TreeIsKept
<1> QED
  BY <1>2, <1>3, <1>4, StepCorpus

LEMMA StepConvertSample ==
  ASSUME IInv, NEW allowStale \in BOOLEAN, ConvertSample(allowStale)
  PROVE  IInv'
<1>1. ~replay'.whole /\ UNCHANGED <<tree, staging, arrivals, morning, sample>>
  BY DEF ConvertSample, Convert
<1>2. (sample # None => AreDated(sample.rows) /\ \A r \in sample.rows : IsRow(r))'
  BY <1>1 DEF IInv, CandidatesAreDated, AreDated
<1> QED
  BY <1>1, <1>2, StepCorpus

LEMMA StepRebuild ==
  ASSUME IInv, NEW rawOnly \in BOOLEAN, NEW days \in {Days, {Session}},
         Rebuild(rawOnly, days)
  PROVE  IInv'
<1>1. /\ UNCHANGED <<tree, staging, arrivals, morning, sample>>
      /\ replay'.table = Candidates(Corpus(tree, TRUE, rawOnly, days))
      /\ replay'.whole => days = Days
  BY DEF Rebuild, Convert
<1>2. (sample # None => AreDated(sample.rows) /\ \A r \in sample.rows : IsRow(r))'
  BY <1>1 DEF IInv, CandidatesAreDated, AreDated
<1>3. (arrivals = 0 /\ replay # None => (replay.whole =>
         \E only \in BOOLEAN : replay.table = Candidates(Corpus(tree, TRUE, only, Days))))'
  BY <1>1
<1> QED
  BY <1>1, <1>2, <1>3, StepCorpus

\* What arrives while the tree or staging is read does not touch what was read.
LEMMA StepArrivals ==
  ASSUME IInv, Arrive \/ Restage
  PROVE  IInv'
<1> USE DEF IInv
<1>1. /\ arrivals' = arrivals + 1 /\ arrivals' \in 1..MaxArrivals
      /\ UNCHANGED <<packet, stage, next, contexts, raw, table, sample, replay>>
  BY ArrivalsAssumption DEF Arrive, Restage, TypeOK, morning, corpus
<1>2. tree' \in Trees
  BY DEF Arrive, Restage, TypeOK
<1>3. /\ DOMAIN staging' = DOMAIN staging
      /\ \A p \in DOMAIN staging' : staging'[p] = None \/ IsFile(staging'[p])
  <2>1. CASE Arrive
    BY <2>1 DEF Arrive, TypeOK
  <2>2. CASE Restage
    <3>1. PICK p \in DOMAIN staging, f \in Exports : staging' = [staging EXCEPT ![p] = f]
      BY <2>2 DEF Restage
    <3>2. IsFile(f)
      BY FilesAssumption
    <3> QED BY <3>1, <3>2 DEF TypeOK
  <2> QED BY <2>1, <2>2
<1>4. TypeOK'
  BY <1>1, <1>2, <1>3 DEF TypeOK
<1>5. Origins' /\ RawFillsGapsOnce' /\ TableIsBuilt'
  BY <1>1 DEF Origins, RawFillsGapsOnce, TableIsBuilt
<1>6. CandidatesAreDated'
  BY <1>1 DEF CandidatesAreDated, AreDated
<1>7. TreeIsKept'
  BY <1>1 DEF TreeIsKept
<1> QED
  BY <1>1, <1>4, <1>5, <1>6, <1>7

LEMMA StepIInv ==
  IInv /\ [Next]_vars => IInv'
<1> SUFFICES ASSUME IInv, [Next]_vars PROVE IInv'
  OBVIOUS
<1>1. CASE Morning
  BY <1>1, StepLoad, StepReadRaw, StepMerge, StepBuild DEF Morning
<1>2. CASE Commands
  BY <1>2, StepRebuild, StepExport, StepConvertSample DEF Commands
<1>3. CASE Arrive \/ Restage
  BY <1>3, StepArrivals
<1>4. CASE UNCHANGED vars
  <2> USE DEF vars, morning, corpus
  <2>1. TypeOK' /\ IsFiniteSet(contexts')
    BY <1>4 DEF IInv, TypeOK
  <2>2. Origins' /\ RawFillsGapsOnce' /\ TableIsBuilt'
    BY <1>4 DEF IInv, Origins, RawFillsGapsOnce, TableIsBuilt
  <2>3. CandidatesAreDated' /\ TreeIsKept'
    BY <1>4 DEF IInv, CandidatesAreDated, AreDated, TreeIsKept
  <2> QED BY <2>1, <2>2, <2>3 DEF IInv
<1> QED
  BY <1>1, <1>2, <1>3, <1>4 DEF Next

\* The invariant holds throughout, for any files, trees and number of arrivals.
THEOREM Invariant ==
  Spec => []IInv
<1> QED
  BY InitIInv, StepIInv, PTL DEF Spec

\* Every row read is a row, and a scanner row has a symbol.
THEOREM TypeCorrect ==
  Spec => []TypeOK
<1> QED
  BY Invariant, PTL DEF IInv

\* The raw tree gives a run SPY rows only, and one for each date it lacked.
THEOREM GapsAreFilledOnce ==
  Spec => []RawFillsGapsOnce
<1> QED
  BY Invariant, PTL DEF IInv

-----------------------------------------------------------------------------
(* What candidates may rely on                                             *)

\* A candidate is one of a row, with the SPY data of its date.
LEMMA CandidateOf ==
  ASSUME NEW rows, NEW c \in Candidates(rows)
  PROVE  /\ c.row \in rows /\ IsCandidate(c.row)
         /\ c = Candidate(c.row, rows) /\ c.spy = SpyOf(rows, c.row.date)
BY DEF Candidates, Candidate

\* The rows of the table are those of the candidates.
LEMMA RowsOfTheTable ==
  ASSUME IInv, stage = "built"
  PROVE  {c.row : c \in table} = {r \in contexts : IsCandidate(r)}
<1>1. table = {Labelled(Candidates(contexts), c) : c \in Candidates(contexts)}
  BY DEF IInv, TableIsBuilt
<1>2. ASSUME NEW c \in table
      PROVE  c.row \in {r \in contexts : IsCandidate(r)}
  <2>1. PICK d \in Candidates(contexts) : c = Labelled(Candidates(contexts), d)
    BY <1>1
  <2>2. c.row = d.row
    BY <2>1 DEF Labelled
  <2> QED BY <2>2, CandidateOf
<1>3. ASSUME NEW r \in contexts, IsCandidate(r)
      PROVE  \E c \in table : c.row = r
  <2>1. Candidate(r, contexts) \in Candidates(contexts)
    BY <1>3 DEF Candidates
  <2>2. Labelled(Candidates(contexts), Candidate(r, contexts)).row = r
    BY DEF Labelled, Candidate
  <2> QED BY <1>1, <2>1, <2>2
<1> QED
  BY <1>2, <1>3

\* All that was staged and nothing else becomes a candidate.
THEOREM TheStagedAreTheCandidates ==
  Spec => []CandidatesAreTheStaged
<1>1. IInv => CandidatesAreTheStaged
  <2> SUFFICES ASSUME IInv, stage = "built"
               PROVE  {c.row : c \in table}
                        = {r \in contexts : IsCandidate(r) /\ r.origin = "staged"}
    BY DEF CandidatesAreTheStaged
  <2>1. \A r \in contexts : IsCandidate(r) => r.origin = "staged"
    BY MarketIsNoCandidate DEF IInv, Origins, RawFillsGapsOnce
  <2> QED BY <2>1, RowsOfTheTable
<1> QED
  BY <1>1, Invariant, PTL

\* The SPY data of a candidate of the run.
LEMMA SpyOfContexts ==
  ASSUME IInv, NEW r \in contexts, IsCandidate(r)
  PROVE  /\ SpyOf(contexts, r.date) # {} <=> HasSpyOf(contexts, r.date)
         /\ SpyOf(contexts, r.date) \subseteq
              {s \in contexts : s.profile \in Market /\ s.date = r.date}
<1>1. IsFiniteSet(contexts) /\ r.date # Blank /\ \A s \in contexts : IsRow(s)
  BY DEF IInv, CandidatesAreDated, AreDated, TypeOK
<1> QED
  BY <1>1, SpyOfExists

\* A gamma is that of the row, or of a squeeze row of its symbol.
LEMMA GammaOf ==
  ASSUME IInv, NEW c \in Candidates(contexts),
         NEW gamma, gamma = JoinedGamma(Candidates(contexts), c), gamma # None
  PROVE  \E r \in contexts : IsCandidate(r) /\ r.symbol = c.row.symbol /\ r.gamma = gamma
<1> DEFINE squeezes == SqueezeOf(Candidates(contexts), c.row.symbol)
<1>1. \A r \in squeezes : r \in contexts /\ IsCandidate(r) /\ r.symbol = c.row.symbol
  BY CandidateOf DEF SqueezeOf
<1>2. CASE c.row.profile \in {"vrp", "reverse_vrp"} /\ squeezes # {}
  <2>1. IsFiniteSet(squeezes) /\ \A r \in squeezes : IsRow(r)
    <3>1. squeezes \subseteq contexts /\ IsFiniteSet(contexts)
      BY <1>1 DEF IInv
    <3>2. IsFiniteSet(squeezes)
      BY <3>1, FS_Subset
    <3> QED BY <3>1, <3>2 DEF IInv, TypeOK
  <2>2. Last(squeezes) # {} /\ Last(squeezes) \subseteq squeezes
    <3> HIDE DEF squeezes
    <3> QED BY <2>1, <1>2, LastExists DEF Last
  <2>3. PICK r \in squeezes : gamma = r.gamma
    <3>1. gamma = (CHOOSE r \in Last(squeezes) : TRUE).gamma
      BY <1>2 DEF JoinedGamma
    <3> HIDE DEF squeezes
    <3> QED BY <2>2, <3>1
  <2> QED BY <2>3, <1>1
<1>3. CASE ~(c.row.profile \in {"vrp", "reverse_vrp"} /\ squeezes # {})
  <2>1. gamma = c.row.gamma
    BY <1>3 DEF JoinedGamma
  <2> QED BY <2>1, CandidateOf
<1> QED
  BY <1>2, <1>3

\* The gate of a row is that of its date, and its gamma that of its symbol.
THEOREM LabelsAreThoseOfTheRow ==
  Spec => []LabelsAreExact
<1>1. IInv => LabelsAreExact
  <2> SUFFICES ASSUME IInv, NEW c \in table
               PROVE  /\ c.gate = "CONTEXT_PASS" <=>
                           /\ c.row.profile = "reverse_vrp" \/ HasSpyOf(contexts, c.row.date)
                           /\ c.row.profile = "processed_weekly" => c.row.gamma # None
                      /\ c.gamma # None =>
                           \E r \in contexts :
                             /\ IsCandidate(r) /\ r.symbol = c.row.symbol
                             /\ r.gamma = c.gamma
    BY DEF LabelsAreExact, GateIsExact, GammaIsTheSymbols
  <2>1. PICK d \in Candidates(contexts) : c = Labelled(Candidates(contexts), d)
    BY DEF IInv, TypeOK, TableIsBuilt
  <2>2. /\ c.row = d.row /\ c.gamma = JoinedGamma(Candidates(contexts), d)
        /\ c.gate = IF LabelGaps(d) = {} THEN "CONTEXT_PASS" ELSE "CONTEXT_INCOMPLETE"
    BY <2>1 DEF Labelled
  <2>3. d.row \in contexts /\ IsCandidate(d.row) /\ d.spy = SpyOf(contexts, d.row.date)
    BY CandidateOf
  <2>4. LabelGaps(d) = {} <=>
          /\ d.row.profile = "reverse_vrp" \/ d.spy # {}
          /\ d.row.profile = "processed_weekly" => d.row.gamma # None
    BY DEF LabelGaps
  <2>5. d.spy # {} <=> HasSpyOf(contexts, d.row.date)
    BY <2>3, SpyOfContexts
  <2>6. c.gamma # None =>
          \E r \in contexts : IsCandidate(r) /\ r.symbol = c.row.symbol /\ r.gamma = c.gamma
    BY <2>2, GammaOf
  <2> QED BY <2>2, <2>4, <2>5, <2>6
<1> QED
  BY <1>1, Invariant, PTL

\* SPY data the run found in the raw tree is SPY data of a replay of that tree.
THEOREM ReplayKnowsTheRawRows ==
  Spec => []ReplayKnowsAsMuch
<1>1. IInv => ReplayKnowsAsMuch
  <2> SUFFICES ASSUME IInv, arrivals = 0, replay # None, replay.whole,
                      NEW c \in table, NEW s \in c.spy, s.origin = "raw",
                      NEW d \in replay.table, d.row.date = c.row.date
               PROVE  d.spy # {}
    BY DEF ReplayKnowsAsMuch
  <2>1. /\ s \in contexts /\ s.profile \in Market /\ s.date = c.row.date
    <3>1. PICK e \in Candidates(contexts) : c = Labelled(Candidates(contexts), e)
      BY DEF IInv, TypeOK, TableIsBuilt
    <3>2. c.row = e.row /\ c.spy = SpyOf(contexts, e.row.date)
      BY <3>1, CandidateOf DEF Labelled
    <3>3. e.row \in contexts /\ IsCandidate(e.row)
      BY CandidateOf
    <3> QED BY <3>2, <3>3, SpyOfContexts
  <2>2. PICK rawOnly \in BOOLEAN :
               replay.table = Candidates(Corpus(tree, TRUE, rawOnly, Days))
    BY DEF IInv, TreeIsKept
  <2> DEFINE rows == Corpus(tree, TRUE, rawOnly, Days)
  <2>3. IsFiniteSet(rows) /\ \A r \in rows : IsSound(r)
    BY CorpusIs DEF IInv, TypeOK
  <2>4. s \in rows
    <3>1. s \in RawRows(tree, {Session})
      BY <2>1 DEF IInv, TreeIsKept
    <3> QED BY <3>1, CorpusHasTheRawRows DEF IInv, TypeOK
  <2> HIDE DEF rows
  <2>5. d.row \in rows /\ IsCandidate(d.row) /\ d.spy = SpyOf(rows, d.row.date)
    BY <2>2, CandidateOf DEF rows
  <2>6. HasSpyOf(rows, d.row.date)
    BY <2>1, <2>4 DEF HasSpyOf
  <2>7. d.row.date # Blank /\ \A r \in rows : IsRow(r)
    BY <2>3, <2>5 DEF IsSound
  <2> QED BY <2>3, <2>5, <2>6, <2>7, SpyOfExists
<1> QED
  BY <1>1, Invariant, PTL

-----------------------------------------------------------------------------
(* The sample CSV                                                          *)

\* A row with a date goes through a CSV as it is, and no other row gets its date.
LEMMA ThroughCsvIs ==
  ASSUME NEW r, IsRow(r)
  PROVE  /\ r.date # Blank => ThroughCsv(r) = r
         /\ ThroughCsv(r).profile = r.profile
         /\ r.date = Blank => ThroughCsv(r).date = NanDate
<1>1. r = [symbol |-> r.symbol, date |-> r.date, profile |-> r.profile, gamma |-> r.gamma,
           origin |-> r.origin, at |-> r.at]
  BY DEF IsRow, Row
<1>2. ThroughCsv(r) =
        [symbol |-> r.symbol, date |-> IF r.date = Blank THEN NanDate ELSE r.date,
         profile |-> r.profile, gamma |-> r.gamma, origin |-> r.origin, at |-> r.at]
  BY <1>1 DEF ThroughCsv
<1> QED
  BY <1>1, <1>2

\* The SPY data of a date is the same before and after.
LEMMA SpyThroughCsv ==
  ASSUME NEW s, \A r \in s.rows : IsRow(r), NEW date, date # NanDate
  PROVE  SpyOf(Read(s), date) = SpyOf(s.rows, date)
<1>1. ASSUME NEW profile
      PROVE  {r \in Read(s) : r.profile = profile /\ r.date = date /\ date # Blank}
               = {r \in s.rows : r.profile = profile /\ r.date = date /\ date # Blank}
  BY ThroughCsvIs DEF Read
<1> QED
  BY <1>1 DEF SpyOf

LEMMA CandidatesThroughCsv ==
  ASSUME NEW s, \A r \in s.rows : IsRow(r), AreDated(s.rows)
  PROVE  {r \in Read(s) : IsCandidate(r)} = {r \in s.rows : IsCandidate(r)}
BY ThroughCsvIs DEF Read, AreDated, IsCandidate

\* The conversion of the sample CSV gives the candidates the corpus gave.
THEOREM TheCsvKeepsCandidates ==
  Spec => []CsvKeepsCandidates
<1>1. IInv => CsvKeepsCandidates
  <2> DEFINE direct == Candidates(sample.rows)
             read == Candidates(Read(sample))
             rows == {r \in sample.rows : IsCandidate(r)}
  <2> SUFFICES ASSUME IInv, sample # None
               PROVE  /\ {c \in direct : c.row.date # NanDate}
                           = {c \in read : c.row.date # NanDate}
                      /\ {c.row : c \in direct} = {c.row : c \in read}
    BY DEF CsvKeepsCandidates
  <2>1. AreDated(sample.rows) /\ \A r \in sample.rows : IsRow(r)
    BY DEF IInv, CandidatesAreDated
  <2>2. /\ direct = {Candidate(r, sample.rows) : r \in rows}
        /\ read = {Candidate(r, Read(sample)) : r \in rows}
    BY <2>1, CandidatesThroughCsv DEF Candidates
  <2>3. \A r \in rows : /\ Candidate(r, sample.rows).row = r
                        /\ Candidate(r, Read(sample)).row = r
    BY DEF Candidate
  <2>4. ASSUME NEW r \in rows, r.date # NanDate
        PROVE  Candidate(r, sample.rows) = Candidate(r, Read(sample))
    <3>1. SpyOf(Read(sample), r.date) = SpyOf(sample.rows, r.date)
      BY <2>1, <2>4, SpyThroughCsv
    <3> QED BY <3>1 DEF Candidate
  <2> HIDE DEF direct, read, rows
  <2>5. {c.row : c \in direct} = {c.row : c \in read}
    BY <2>2, <2>3
  <2>6. {c \in direct : c.row.date # NanDate} = {c \in read : c.row.date # NanDate}
    BY <2>2, <2>3, <2>4
  <2> QED BY <2>5, <2>6
<1> QED
  BY <1>1, Invariant, PTL

=============================================================================

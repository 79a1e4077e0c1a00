--------------------------------- MODULE Search ---------------------------------
(***************************************************************************)
(* POST /trips/search and POST /incidents/search, from the rows of the CSV *)
(* files to what a client has read after its last page.                    *)
(*                                                                         *)
(* Three tables suffice: the rows that are searched, drivers (or trucks),  *)
(* which a row may refer to, and parents, which it must: the loads of      *)
(* trips, the trips of incidents.  Seed runs load and truncate the tables  *)
(* meanwhile; module Seed says when, here any statement may come.          *)
(*                                                                         *)
(* A search is one transaction of two or three statements, each with a     *)
(* snapshot of its own: the count, the page and, for trips, the related    *)
(* rows.  Its locks keep TRUNCATE out, but not COPY.                       *)
(***************************************************************************)
EXTENDS Ids

CONSTANTS
  Images,      \* the CSV files that an image may contain
  MaxInteger,  \* the greatest INTEGER, the type of all keys: 2^31 - 1
  Filters,     \* the filters a client may ask for
  Limits,      \* the lengths of a page
  MaxWrites    \* bound: the statements of seed runs

Tables == {"drivers", "parents", "rows"}
Referenced(t) == IF t = "rows" THEN {"drivers", "parents"} ELSE {}
IdColumns(t) == IF t = "rows" THEN {"id", "driver", "parent"} ELSE {"id"}

(* A file is a sequence of lines; those of rows carry their number.        *)
Files(t) ==
  CASE t = "drivers" -> Seq([id : Identifiers, name : STRING])
    [] t = "parents" -> Seq([id : Identifiers, state : STRING])
    [] t = "rows" -> Seq([id : Identifiers, driver : Identifiers, parent : Identifiers,
                          day : Nat, state : STRING, line : Nat])

ASSUME FilesAssumption ==
  \A image \in Images :
    /\ DOMAIN image = Tables
    /\ \A t \in Tables : image[t] \in Files(t)
    /\ \A i \in DOMAIN image["rows"] : image["rows"][i].line = i

ASSUME IntegerAssumption == MaxInteger \in Nat

ASSUME ClientAssumption ==
  /\ Filters \subseteq [listed : BOOLEAN, drivers : SUBSET (0..MaxInteger), state : STRING,
                        from : Nat \cup {None}, to : Nat \cup {None}]
  /\ Limits \subseteq Nat \ {0}
  /\ MaxWrites \in Nat

VARIABLES
  what,        \* "trips" or "incidents"
  image,       \* image[t]: the rows of a file
  table,       \* table[t]: the rows of a table
  rejected,    \* the tables whose COPY was refused for its file's sake
  writes,      \* how many statements of seed runs there were
  filter,      \* what the client asks for, page by page
  limit,
  phase,       \* where its search is
  total,       \* the count
  page,        \* the rows of the page
  names,       \* the drivers shown with them
  offset,      \* what the client has asked for already
  read         \* what it has got: lines of the file, and drivers

data == <<image, table, rejected, writes>>
client == <<what, filter, limit>>
answer == <<total, page, names>>
vars == <<client, data, answer, phase, offset, read>>

Phases == {"asked", "counted", "paged", "read", "idle", "done"}

-----------------------------------------------------------------------------
(* _copy_csv: the file is converted as a whole, before COPY sees it.       *)
SkipsBadRows(t) ==             \* mutant: a row that raises is left out
  SelectSeq(image[t], LAMBDA row : \A c \in IdColumns(t) : ~Raises(row[c]))

ToConvert(t) == image[t]

Converts(t) ==
  \A i \in DOMAIN ToConvert(t) : \A c \in IdColumns(t) : ~Raises(ToConvert(t)[i][c])

Row(t, i) == TransformRow(ToConvert(t)[i], IdColumns(t))
Converted(t) == {Row(t, i) : i \in DOMAIN ToConvert(t)}

(* PostgreSQL: what the constraints make of it.  A key is there, is an     *)
(* INTEGER and is unique; references lead to rows, so they are INTEGERs    *)
(* too; and a load has one trip, while a trip may have several incidents.  *)
Present(key, t) == \E row \in table[t] : row.id = key

Accepted(t) ==
  /\ \A row \in Converted(t) : row.id # None /\ row.id <= MaxInteger
  /\ \A i, j \in DOMAIN ToConvert(t) : i # j =>
       /\ Row(t, i).id # Row(t, j).id
       /\ t = "rows" /\ what = "trips" => Row(t, i).parent # Row(t, j).parent
  /\ t = "rows" => \A row \in Converted(t) :
       /\ row.driver # None => Present(row.driver, "drivers")
       /\ row.parent # None /\ Present(row.parent, "parents")

(* A COPY in load order.                                                   *)
Copy(t) ==
  /\ writes < MaxWrites
  /\ table[t] = {}
  /\ t \notin rejected
  /\ \A p \in Referenced(t) : table[p] # {}
  /\ writes' = writes + 1
  /\ IF Converts(t) /\ Accepted(t)
     THEN table' = [table EXCEPT ![t] = Converted(t)] /\ UNCHANGED rejected
     ELSE rejected' = rejected \cup {t} /\ UNCHANGED table
  /\ UNCHANGED <<image, client, answer, phase, offset, read>>

(* The locks of a session are held until it closes. *)
AutocommitReads == FALSE       \* mutant: they end with each statement
HoldsLocks == phase \in {"counted", "paged", "read"}

(* TRUNCATE ... CASCADE always comes to the rows.                          *)
Truncate(t) ==
  /\ writes < MaxWrites
  /\ ~HoldsLocks
  /\ table[t] # {}
  /\ writes' = writes + 1
  /\ table' = [s \in Tables |-> IF s \in {t, "rows"} THEN {} ELSE table[s]]
  /\ UNCHANGED <<image, rejected, client, answer, phase, offset, read>>

-----------------------------------------------------------------------------
(* An empty list of drivers is no filter for trips; it excludes every      *)
(* incident.  A row without a driver satisfies no list.                    *)
InList(row, f) ==
  f.listed /\ (what = "incidents" \/ f.drivers # {}) => row.driver \in f.drivers

(* Bounds are inclusive.  Distances are filtered like dates.               *)
InWindow(row, f) ==
  /\ f.from # None => row.day >= f.from
  /\ f.to # None => row.day <= f.to

(* The state filter of incidents is on a column of theirs.  Trips are      *)
(* joined with their parents, whose status and destination they have.      *)
InState(row, f) ==
  IF what = "trips"
  THEN \E p \in table["parents"] :
         p.id = row.parent /\ (f.state # "" => p.state = f.state)
  ELSE f.state # "" => row.state = f.state

JoinsDrivers(f) ==             \* mutant: an inner join with drivers
  {row \in table["rows"] :
     InList(row, f) /\ InWindow(row, f) /\ InState(row, f) /\ Present(row.driver, "drivers")}

Selected(f) ==
  {row \in table["rows"] : InList(row, f) /\ InWindow(row, f) /\ InState(row, f)}

ByDayOnly(a, b) ==             \* mutant: ties are left to the database
  a.day > b.day

Before(a, b) ==
  IF what = "trips" THEN a.id < b.id
  ELSE a.day > b.day \/ (a.day = b.day /\ a.id > b.id)

(* ORDER BY *)
Ordered(S) ==
  CHOOSE s \in SetToSeqs(S) : \A i, j \in DOMAIN s : i < j => ~Before(s[j], s[i])

Window(s) == SubSeq(s, offset + 1, Min({offset + limit, Len(s)}))

Driver(row) ==
  IF Present(row.driver, "drivers")
  THEN (CHOOSE d \in table["drivers"] : d.id = row.driver).name
  ELSE "-"

Related(rows) == [i \in DOMAIN rows |-> Driver(rows[i])]

-----------------------------------------------------------------------------
Init ==
  /\ what \in {"trips", "incidents"}
  /\ image \in Images
  /\ table = [t \in Tables |-> {}]
  /\ rejected = {}
  /\ writes = 0
  /\ filter \in Filters
  /\ limit \in Limits
  /\ phase = "asked"
  /\ total = 0
  /\ page = <<>>
  /\ names = <<>>
  /\ offset = 0
  /\ read = <<>>

Count ==
  /\ phase = "asked"
  /\ total' = Cardinality(Selected(filter))
  /\ phase' = "counted"
  /\ UNCHANGED <<client, data, page, names, offset, read>>

(* The page; incidents come with the names of their drivers.               *)
Page ==
  /\ phase = "counted"
  /\ page' = Window(Ordered(Selected(filter)))
  /\ IF what = "trips"
     THEN phase' = "paged" /\ UNCHANGED names
     ELSE phase' = "read" /\ names' = Related(page')
  /\ UNCHANGED <<client, data, total, offset, read>>

(* selectinload: trips get theirs from a statement of its own.             *)
LoadRelated ==
  /\ phase = "paged"
  /\ names' = Related(page)
  /\ phase' = "read"
  /\ UNCHANGED <<client, data, total, page, offset, read>>

(* The answer; the client adds it to what it has.                          *)
Answer ==
  /\ phase = "read"
  /\ phase' = "idle"
  /\ read' = read \o [i \in DOMAIN page |-> [line |-> page[i].line, driver |-> names[i]]]
  /\ UNCHANGED <<client, data, answer, offset>>

(* It asks for the next page, if the total says that there is one.         *)
NextPage ==
  /\ phase = "idle"
  /\ offset' = offset + limit
  /\ phase' = IF offset' < total THEN "asked" ELSE "done"
  /\ UNCHANGED <<client, data, answer, read>>

Next ==
  \/ Count \/ Page \/ LoadRelated \/ Answer \/ NextPage
  \/ \E t \in Tables : Copy(t) \/ Truncate(t)

Spec == Init /\ [][Next]_vars
-----------------------------------------------------------------------------
(* Well typed; a table holds the whole of its file or nothing.             *)
TypeOK ==
  /\ what \in {"trips", "incidents"} /\ image \in Images
  /\ filter \in Filters /\ limit \in Limits
  /\ phase \in Phases
  /\ {total, offset} \subseteq Nat
  /\ writes \in 0..MaxWrites
  /\ rejected \subseteq Tables
  /\ Len(names) <= limit /\ Len(page) <= limit
  /\ \A t \in Tables : Cardinality(table[t]) \in {0, Len(image[t])}

(* What the files say, before any conversion.                              *)
Lines(t) == DOMAIN image[t]
Named(key, t) == {i \in Lines(t) : image[t][i].id = key}

Column(t) ==
  {image[t][i].id : i \in Lines(t)} \cup
  (CASE t = "drivers" -> {image["rows"][i].driver : i \in Lines("rows")}
     [] t = "parents" -> {image["rows"][i].parent : i \in Lines("rows")}
     [] OTHER -> {})

(* The identifiers of one kind of thing have one prefix and one length, as *)
(* in the files of the repository.                                         *)
Uniform ==
  \A t \in Tables : \A a, b \in Column(t) \ {Blank} :
    WellFormed(a) /\ a.prefix = b.prefix /\ Len(a.digits) = Len(b.digits)

(* Identifiers are there and distinct, references lead somewhere, and no   *)
(* two trips are of one load.                                              *)
Closed ==
  /\ \A t \in Tables : \A i \in Lines(t) :
       image[t][i].id # Blank /\ Named(image[t][i].id, t) = {i}
  /\ \A i \in Lines("rows") : LET row == image["rows"][i] IN
       /\ row.driver # Blank => Named(row.driver, "drivers") # {}
       /\ Named(row.parent, "parents") # {}
       /\ what = "trips" => \A j \in Lines("rows") \ {i} : image["rows"][j].parent # row.parent

(* The numbers in the identifiers are INTEGERs.                            *)
InRange == \A t \in Tables : \A i \in Lines(t) : Number(image[t][i].id.digits) <= MaxInteger

(* No file is turned away because of what the conversion makes of it: it   *)
(* keeps apart all identifiers of one form, and together those that agree, *)
(* so that a file which obeys the constraints as it is written also obeys  *)
(* them as numbers.                                                        *)
LegalFilesLoad == Uniform /\ Closed /\ InRange => rejected = {}

(* If identifiers of one kind have one form, a client is shown with every  *)
(* row the driver that its line in the file names, and none if it names    *)
(* none.                                                                   *)
NamesAsInFile ==
  Uniform => \A i \in DOMAIN read :
    LET d == image["rows"][read[i].line].driver IN
    IF d = Blank THEN read[i].driver = "-"
    ELSE \E k \in Named(d, "drivers") : read[i].driver = image["drivers"][k].name

(* The lines that the filter asks for, and their order.                    *)
Meant ==
  {i \in Lines("rows") : LET row == image["rows"][i] IN
     /\ filter.listed /\ (what = "incidents" \/ filter.drivers # {}) =>
          row.driver # Blank /\ Number(row.driver.digits) \in filter.drivers
     /\ filter.from # None => filter.from <= row.day
     /\ filter.to # None => row.day <= filter.to
     /\ filter.state # "" =>
          \E s \in (IF what = "incidents" THEN {row}
                    ELSE {image["parents"][k] : k \in Named(row.parent, "parents")}) :
            s.state = filter.state}

LineBefore(i, j) ==
  LET a == image["rows"][i]  b == image["rows"][j] IN
  IF what = "trips" THEN Number(a.id.digits) < Number(b.id.digits)
  ELSE a.day >= b.day /\ (a.day = b.day => Number(a.id.digits) > Number(b.id.digits))

(* The count and the page come from two snapshots.  They agree with each   *)
(* other unless a COPY commits between the two, and then the total is      *)
(* zero; a page has only rows that the filter asks for in the file.        *)
TotalFitsPage ==
  phase \in {"paged", "read"} => LET n == Cardinality(Meant) IN
    /\ total \in {0, n}
    /\ \A i \in DOMAIN page : page[i].line \in Meant
    /\ total = n => Len(page) = IF offset >= n THEN 0 ELSE
                                IF offset + limit <= n THEN limit ELSE n - offset

(* However the tables are emptied and loaded again between two pages, a    *)
(* client reads no row twice and all in order.                             *)
NoRowTwice ==
  \A i, j \in DOMAIN read : i < j => LineBefore(read[i].line, read[j].line)
=============================================================================

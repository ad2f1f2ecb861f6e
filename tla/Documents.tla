----------------------------- MODULE Documents -----------------------------
(***************************************************************************)
(* One query, two databases.  The application writes filters in MongoDB's  *)
(* language; with DB_BACKEND=postgres, _translate_filters turns them into  *)
(* a WHERE clause and PgQuerySet into a SELECT or DELETE.  This module has *)
(* both meanings: MongoDB's own, external, and that of the SQL which the   *)
(* translator writes, in SQL's three-valued logic.                         *)
(*                                                                         *)
(* A document gives a value to each path: a column, or a key in a JSONB    *)
(* column, which a filter names with a dot.  A value is a record, so that  *)
(* the text "1" and the number 1 are told apart or not as each database    *)
(* does: they have the same v.                                             *)
(***************************************************************************)
EXTENDS Integers, FiniteSets, Sequences, SequencesExt

CONSTANTS
  DottedPath,    \* the paths with a dot; ArrayPath, Path: see below
  ArrayPath,     \* the columns of type TEXT[]
  PlainPath,     \* the other columns
  SavedDocs,     \* the documents that the application saves: [Path -> Value]
  Queries,       \* the queries it makes: [filter, sort, limit, skip]
  Prunes,        \* the filters it deletes by
  MaxRows        \* bound: documents at the same time

ASSUME MaxRowsIsNatural == MaxRows \in Nat

Path == PlainPath \cup ArrayPath \cup DottedPath

VARIABLES
  db,      \* settings.db_backend
  rows     \* the documents of the collection, the oldest first

docVars == <<db, rows>>

-----------------------------------------------------------------------------
(* Values.  No text of a document is Odd, the text of an array or object; a  *)
(* negative v is a text that is not a number.                                *)

Odd == -9
Scalar(kind, v) == [kind |-> kind, v |-> v, elems |-> {}]
TextOf(v) == Scalar("text", v)
NumberOf(v) == Scalar("number", v)
SqlNull == Scalar("null", 0)
Missing == Scalar("missing", 0)
ArrayOf(texts) == [kind |-> "array", v |-> Odd, elems |-> texts]
ObjectOf(keys) == [kind |-> "object", v |-> Odd, elems |-> keys]

Absent(v) == v.kind \in {"null", "missing"}

Compares(op, a, b) ==
  \/ op = "$lt" /\ a < b
  \/ op = "$lte" /\ a <= b
  \/ op = "$gt" /\ a > b
  \/ op = "$gte" /\ a >= b

Ranges == {"$lt", "$lte", "$gt", "$gte"}
KnownOps == Ranges \cup {"is", "$in", "$ne", "$exists"}

\* What a condition compares the value with.
Arguments(c) ==
  CASE c.op = "$in" -> c.args [] c.op = "$exists" -> {} [] OTHER -> {c.arg}

OfKind(x, kind) ==
  x = Scalar(kind, x.v) /\ x.v \in IF kind = "number" THEN Nat ELSE Int \ {Odd}
Composed(x, elems) == x \in {ArrayOf(elems), ObjectOf(elems)} /\ elems \subseteq Int \ {Odd}

\* A column has one type, of its values and of what they are compared with, which
\* the model classes and the driver see to; a key in a JSONB column may have any.
ASSUME ColumnsAreTyped ==
  /\ \A p \in PlainPath : \E kind \in {"text", "number"} :
       /\ \A d \in SavedDocs : d[p] = SqlNull \/ OfKind(d[p], kind)
       /\ \A q \in Queries : \A c \in q.filter : c.path = p =>
            \A x \in Arguments(c) : x = SqlNull \/ OfKind(x, kind)
  /\ \A p \in ArrayPath :
       /\ \A d \in SavedDocs : Composed(d[p], d[p].elems) /\ d[p].kind = "array"
       /\ \A q \in Queries : \A c \in q.filter : c.path = p =>
            \A x \in Arguments(c) : x = SqlNull \/ OfKind(x, "text")
  /\ \A p \in DottedPath :
       /\ \A d \in SavedDocs :
            \/ d[p] \in {SqlNull, Missing} \/ OfKind(d[p], "text") \/ OfKind(d[p], "number")
            \/ Composed(d[p], d[p].elems)
       /\ \A q \in Queries : \A c \in q.filter : c.path = p =>
            \A x \in Arguments(c) : x = SqlNull \/ OfKind(x, "text") \/ OfKind(x, "number")

ASSUME QueriesAreWellFormed ==
  \A q \in Queries :
    /\ q.skip \in Nat /\ (q.limit = {} \/ \E n \in q.limit : n \in Int /\ q.limit = {n})
    /\ \A c \in q.filter : c.path \in Path /\ c.yes \in BOOLEAN

-----------------------------------------------------------------------------
(* MongoDB *)

\* A scalar matches an array that holds it, and null matches what is not there.
MongoEq(v, x) ==
  \/ Absent(v) /\ Absent(x)
  \/ v.kind = x.kind /\ v = x
  \/ v.kind = "array" /\ x.kind = "text" /\ x.v \in v.elems

MongoOne(c, v) ==
  \/ c.op = "is" /\ MongoEq(v, c.arg)
  \/ c.op = "$in" /\ \E x \in c.args : MongoEq(v, x)
  \/ c.op = "$ne" /\ ~MongoEq(v, c.arg)
  \/ c.op \in Ranges /\ v.kind = c.arg.kind /\ Compares(c.op, v.v, c.arg.v)
  \/ c.op = "$exists" /\ (c.yes <=> v.kind # "missing")
  \/ c.op = "$regex" /\ v.kind = "text" /\ v.v = c.arg.v

MongoHolds(c, d) ==
  IF c.op = "$or" THEN \E e \in c.any : MongoOne(e, d[e.path]) ELSE MongoOne(c, d[c.path])

MongoMatches(f) == {i \in DOMAIN rows : \A c \in f : MongoHolds(c, rows[i])}

-----------------------------------------------------------------------------
(* PostgreSQL: a condition is true, false, null or an error. *)

Truth(b) == IF b THEN "true" ELSE "false"
SqlNot(t) == CASE t = "true" -> "false" [] t = "false" -> "true" [] OTHER -> t

SqlEq(v, x) == IF Absent(v) \/ Absent(x) THEN "null" ELSE Truth(v.v = x.v)

SqlIn(v, xs) ==
  IF xs = {} THEN "false"
  ELSE IF \E x \in xs : SqlEq(v, x) = "true" THEN "true"
  ELSE IF \E x \in xs : SqlEq(v, x) = "null" THEN "null" ELSE "false"

SqlRange(op, v, x) ==
  IF Absent(v) \/ Absent(x) THEN "null" ELSE Truth(Compares(op, v.v, x.v))

\* Mutant: all of the values instead of one.
SqlAll(v, xs) ==
  IF xs = {} THEN "false"
  ELSE IF Absent(v) THEN "null" ELSE Truth(\A x \in xs : x.v \in v.elems)

SqlAny(v, xs) ==
  IF xs = {} THEN "false"
  ELSE IF Absent(v) THEN "null" ELSE Truth(\E x \in xs : x.v \in v.elems)

\* The branch for columns.  An operator it does not know adds no condition.
ColumnSql(c, v) ==
  CASE c.op = "is" /\ c.arg.kind = "null" -> Truth(Absent(v))
    [] c.op = "is" /\ c.arg.kind # "null" ->
         IF c.path \in ArrayPath THEN SqlAny(v, {c.arg}) ELSE SqlEq(v, c.arg)
    [] c.op = "$in" -> IF c.path \in ArrayPath THEN SqlAny(v, c.args) ELSE SqlIn(v, c.args)
    [] c.op = "$exists" -> Truth(c.yes <=> ~Absent(v))
    [] c.op \in Ranges \cup {"$ne"} /\ c.path \in ArrayPath -> "error"
    [] c.op = "$ne" /\ c.path \notin ArrayPath -> SqlNot(SqlEq(v, c.arg))
    [] c.op \in Ranges /\ c.path \notin ArrayPath -> SqlRange(c.op, v, c.arg)
    [] OTHER -> "true"

\* col->>'key' as a text, and str() of the parameter: that of None is a text.
AsText(v) == IF Absent(v) THEN SqlNull ELSE TextOf(v.v)
StrOf(x) == IF Absent(x) THEN TextOf(Odd + 1) ELSE TextOf(x.v)

\* col->'key' ? x: a string in the array, a key of the object, the string itself.
HasText(v, x) ==
  \/ v.kind = "text" /\ v.v = x.v
  \/ v.kind \in {"array", "object"} /\ x.v \in v.elems

\* The branch for keys in a JSONB column.
DottedSql(c, v) ==
  CASE c.op = "is" /\ c.arg.kind = "null" -> Truth(v.kind = "missing")
    [] c.op = "is" /\ c.arg.kind # "null" -> SqlEq(AsText(v), StrOf(c.arg))
    [] c.op = "$in" ->
         IF c.args # {} /\ v.kind = "missing" THEN "null"
         ELSE Truth(\E x \in c.args : HasText(v, x))
    [] c.op = "$ne" -> SqlNot(SqlEq(AsText(v), StrOf(c.arg)))
    [] c.op \in Ranges ->
         IF ~Absent(v) /\ v.v < 0 THEN "error" ELSE SqlRange(c.op, AsText(v), c.arg)
    [] c.op = "$exists" -> Truth(c.yes <=> v.kind # "missing")
    [] OTHER -> "true"

\* A key that is an operator becomes the name of a column that no table has.
PgHolds(c, d) ==
  IF c.op = "$or" THEN "error"
  ELSE IF c.path \in DottedPath THEN DottedSql(c, d[c.path]) ELSE ColumnSql(c, d[c.path])

\* PostgreSQL evaluates the conditions in any order: any of them may raise.
PgRaises(f) ==
  \/ \E c \in f : c.op = "$or"
  \/ \E i \in DOMAIN rows, c \in f : PgHolds(c, rows[i]) = "error"

PgMatches(f) == {i \in DOMAIN rows : \A c \in f : PgHolds(c, rows[i]) = "true"}

-----------------------------------------------------------------------------
(* Queries *)

\* The documents at these places, the oldest first.
RowsAt(places) ==
  [k \in 1..Cardinality(places) |->
     rows[CHOOSE i \in places : Cardinality({j \in places : j <= i}) = k]]

\* created_at DESC is the order of a query that asks for none.
Ordered(q, s) == IF q.sort = "+created_at" THEN s ELSE Reverse(s)

\* What a limit, or none, leaves of the documents.
Page(q, limit, s) ==
  LET from == q.skip + 1
      to == IF limit = {} THEN Len(s) ELSE q.skip + (CHOOSE n \in limit : TRUE)
  IN SubSeq(s, from, IF to < Len(s) THEN to ELSE Len(s))

\* _build_query and to_list, if the query does not raise: LIMIT 0 is no document.
PgLimitRaises(q) == \E n \in q.limit : n < 0
PgAnswer(q) == Page(q, q.limit, Ordered(q, RowsAt(PgMatches(q.filter))))

\* A limit of 0 is none in MongoDB, and -n is one batch of n documents.
MongoLimit(q) == {IF n < 0 THEN -n ELSE n : n \in q.limit \ {0}}

\* MongoDB gives what no sort orders in any order.
MongoMayAnswer(q, s) ==
  LET matches == RowsAt(MongoMatches(q.filter)) IN
  IF q.sort = "" THEN
    /\ Len(s) = Len(Page(q, MongoLimit(q), matches))
    /\ \A d \in ToSet(s) :
         Cardinality({i \in DOMAIN s : s[i] = d})
           <= Cardinality({i \in DOMAIN matches : matches[i] = d})
  ELSE s = Page(q, MongoLimit(q), Ordered(q, matches))

-----------------------------------------------------------------------------
(* The collection *)

DocumentsInit == db \in {"mongo", "postgres"} /\ rows = <<>>

InsertDocument(d) ==
  /\ Len(rows) < MaxRows
  /\ rows' = Append(rows, d) /\ UNCHANGED db

\* save() keeps created_at, hence the place.
SaveDocument(i, d) ==
  /\ rows[i] # d
  /\ rows' = [rows EXCEPT ![i] = d] /\ UNCHANGED db

\* find(filter).delete(): all that the clause selects, nothing if it raises.
DeleteMatching(f) ==
  LET doomed == IF db = "mongo" THEN MongoMatches(f)
                ELSE IF PgRaises(f) THEN {} ELSE PgMatches(f)
  IN /\ rows' = RowsAt(DOMAIN rows \ doomed)
     /\ UNCHANGED db

DocumentsNext ==
  \/ \E d \in SavedDocs : InsertDocument(d)
  \/ \E i \in DOMAIN rows, d \in SavedDocs : SaveDocument(i, d)
  \/ \E f \in Prunes : DeleteMatching(f)

DocumentsSpec == DocumentsInit /\ [][DocumentsNext]_docVars

-----------------------------------------------------------------------------
(* Properties *)

DocumentsTypeOK ==
  /\ db \in {"mongo", "postgres"}
  /\ rows \in Seq(SavedDocs) /\ Len(rows) <= MaxRows

\* A condition means the same in both databases for this document: it compares
\* no null and, behind a dot, only texts with texts and numbers with numbers,
\* asks $in of texts, which is how a list is searched, and orders only numbers.
Portable(c, d) ==
  LET v == d[c.path]
      args == Arguments(c)
  IN /\ c.op = "$ne" => ~Absent(v)
     /\ c.op # "is" => \A x \in args : ~Absent(x)
     /\ c.path \in ArrayPath => c.op \in {"is", "$in", "$exists"}
     /\ c.op = "$exists" => v.kind # "null" \/ c.path \in DottedPath
     /\ c.path \in DottedPath /\ c.op # "$exists" =>
          /\ v.kind \in {"missing", "text", "number"} \cup IF c.op = "$in" THEN {"array"} ELSE {}
          /\ \A x \in args : x.kind # "null" => x.kind = v.kind \/ v.kind \in {"missing", "array"}
          /\ c.op = "$in" => v.kind # "number" /\ \A x \in args : x.kind = "text"
          /\ c.op \in Ranges => \A x \in args : x.kind = "number"

PortableFilter(q) ==
  \A c \in q.filter : c.op \in KnownOps /\ \A i \in DOMAIN rows : Portable(c, rows[i])

\* The answer that PostgreSQL gives, with its order, limit and skip, is one that
\* MongoDB could have given, and it raises nothing.
Agreed(q) == ~PgRaises(q.filter) /\ ~PgLimitRaises(q) /\ MongoMayAnswer(q, PgAnswer(q))

\* One code for both databases: whatever was inserted, saved and deleted, they
\* agree on a query as long as there are documents, its conditions are portable
\* for them, and its limit, if it has one, is positive.  Of the application's
\* queries, the pruning and the keyword search of memories have conditions that
\* are not portable; the list of chat sessions takes any limit.
AnswersAgree ==
  rows # <<>> =>
    \A q \in Queries : PortableFilter(q) /\ (\A n \in q.limit : n > 0) => Agreed(q)

=============================================================================

---- MODULE MdnsMessage ----
(***************************************************************************)
(* An mdns message in its buffer (mdns.h): names are written label by      *)
(* label, a tail that is already there as a reference to where it began;   *)
(* records are written one after the other into what room there is, and    *)
(* read back by whoever receives the message.  A buffer holds cells at the *)
(* octet they begin at: labels, ends of names, references, the ten octets  *)
(* before a record's data, addresses, ports and texts.  Labels are values  *)
(* with a size.  Classes and lifetimes are in MdnsService.                 *)
(***************************************************************************)
EXTENDS Integers, Sequences, FiniteSets, SequencesExt, FiniteSetsExt

CONSTANTS
    Size,           \* octets of a label, and of a text without its length
    Messages,       \* what may be sent, and who reads it
    Capacities,     \* octets of the sender's buffer
    TableSizes,     \* places in the table of labels: 16 in the code
    MaxSubstrings,  \* labels a reader follows: 64
    MaxRefs,        \* references a reader follows for one label: 16
    DnsSd,          \* the name all services are asked for by
    None

\* A message is a query with its questions, or an answer with one record, to all
\* or to the asker with the question repeated.
MessageAssumption ==
    /\ \A x \in DOMAIN Size : Size[x] \in 1 .. 63
    /\ Capacities \cup TableSizes \cup {MaxSubstrings, MaxRefs} \subseteq Nat \ {0}
    /\ \A m \in Messages :
         /\ m.kind \in {"query", "unicast", "multicast"}
         /\ m.recv \in {"listen", "query", "discovery"}
         /\ m.kind = "query" => m.answer = <<>> /\ m.recv = "listen"
         /\ m.kind # "query" => Len(m.answer) = 1 /\ m.answer[1].type # "TXT"

VARIABLES
    message,  \* the message on its way, None before
    at,       \* idle, writing, failed, sent, or read
    out,      \* the sender: capacity, table of labels, buffer, where it writes, what is left
    inp       \* the reader: where it reads, what is left, what it heard

vars == <<message, at, out, inp>>

Invalid == -1
Header == 12

Init ==
    /\ message = None /\ at = "idle"
    /\ out = None /\ inp = None

---------------------------------------------------------------------------
\* Where the references at an offset lead.
RECURSIVE Deref(_, _, _, _)
Deref(buffer, size, offset, recursion) ==
    IF buffer[offset].kind # "ref" THEN offset
    ELSE LET to == buffer[offset].to IN
         IF size < offset + 2 \/ to >= size \/ recursion = MaxRefs THEN Invalid
         ELSE Deref(buffer, size, to, recursion + 1)

\* The label at an offset, None for the end of a name, and where the next begins:
\* nowhere when the buffer ends before.
mdns_get_next_substring(buffer, size, offset) ==
    LET p == IF offset >= size THEN Invalid ELSE Deref(buffer, size, offset, 0)
        cell == buffer[p]
        pair(label, next) == [label |-> label, next |-> next, ref |-> p # offset]
    IN  IF p = Invalid THEN pair(None, Invalid)
        ELSE IF cell.kind # "label" THEN pair(None, p)
        ELSE IF size < p + 1 + Size[cell.label] THEN pair(None, Invalid)
        ELSE pair(cell.label, p + 1 + Size[cell.label])

\* The labels of a name and where it ends in the message: after its first
\* reference, if it has one.  No labels when the reader gives up.
RECURSIVE Follow(_, _, _, _)
Follow(buffer, size, cur, counter) ==
    LET sub == mdns_get_next_substring(buffer, size, cur)
        rest == Follow(buffer, size, sub.next, counter + 1)
        end(last) == IF sub.ref THEN cur + 2 ELSE last
    IN  IF sub.next = Invalid \/ counter > MaxSubstrings THEN [name |-> None, end |-> Invalid]
        ELSE IF sub.label = None THEN [name |-> <<>>, end |-> end(sub.next + 1)]
        ELSE IF rest.name = None THEN rest
        ELSE [name |-> <<sub.label>> \o rest.name, end |-> end(rest.end)]

mdns_string_extract(buffer, size, offset) ==
    LET found == Follow(buffer, size, offset, 0).name IN IF found = None THEN <<>> ELSE found

mdns_string_equal(buffer, size, offset, name) == Follow(buffer, size, offset, 0).name = name

\* Where a name ends, without following its references; Invalid when it does not.
RECURSIVE SkipFrom(_, _, _, _)
SkipFrom(buffer, size, cur, counter) ==
    LET sub == mdns_get_next_substring(buffer, size, cur)
    IN  IF sub.next = Invalid \/ counter > MaxSubstrings THEN Invalid
        ELSE IF sub.ref THEN cur + 2
        ELSE IF sub.label = None THEN sub.next + 1
        ELSE SkipFrom(buffer, size, sub.next, counter + 1)

mdns_string_skip(buffer, size, offset) == SkipFrom(buffer, size, offset, 0)

---------------------------------------------------------------------------
Remain(w) == w.capacity - w.data
Failed(w) == [w EXCEPT !.data = Invalid]

\* A cell of so many octets, if there is room for at least as many as asked for.
Put(w, cell, octets, room) ==
    IF w.data = Invalid \/ Remain(w) < room THEN Failed(w)
    ELSE [w EXCEPT !.buffer = [o \in DOMAIN @ \cup {w.data} |-> IF o = w.data THEN cell ELSE @[o]],
                   !.data = @ + octets]

RECURSIVE BeginsWith(_, _, _, _)
BeginsWith(buffer, capacity, offset, name) ==
    \/ name = <<>>
    \/ LET sub == mdns_get_next_substring(buffer, capacity, offset) IN
       sub.label = Head(name) /\ BeginsWith(buffer, capacity, sub.next, Tail(name))

\* The first place in the table whose name has, or begins with, these labels.
Places(w, name) == {i \in DOMAIN w.table : BeginsWith(w.buffer, w.capacity, w.table[i], name)}

\* Mutant: only the first label is compared.
find_by_label(w, name) ==
    LET same == Places(w, SubSeq(name, 1, 1)) IN IF same = {} THEN Invalid ELSE w.table[Min(same)]

mdns_string_table_find(w, name) ==
    IF Places(w, name) = {} THEN Invalid ELSE w.table[Min(Places(w, name))]

\* The table is a ring; a query has none.
mdns_string_table_add(w, offset) ==
    IF w.tableSize = 0 THEN w
    ELSE [w EXCEPT !.table = IF Len(@) < w.tableSize THEN Append(@, offset)
                             ELSE [@ EXCEPT ![w.next] = offset],
                   !.next = (@ % w.tableSize) + 1]

RECURSIVE mdns_string_make(_, _)
mdns_string_make(w, name) ==
    IF w.data = Invalid THEN w
    ELSE IF name = <<>> THEN Put(w, [kind |-> "end"], 1, 1)
    ELSE LET ref == mdns_string_table_find(w, name)
             size == Size[Head(name)] + 1
             labelled == Put(w, [kind |-> "label", label |-> Head(name)], size, size + 1)
         IN  IF ref # Invalid THEN Put(w, [kind |-> "ref", to |-> ref], 2, 2)
             ELSE IF labelled.data = Invalid THEN labelled
             ELSE mdns_string_make(mdns_string_table_add(labelled, w.data), Tail(name))

mdns_answer_add_question_unicast(w, question) ==
    Put(mdns_string_make(w, question.name), [kind |-> "fields", type |-> question.type], 4, 4)

mdns_answer_add_record_header(w, record) ==
    Put(mdns_string_make(w, record.name), [kind |-> "fields", type |-> record.type, length |-> 0], 10, 10)

\* The length of a record is filled in once its data are written.
FillLength(w, begun) ==
    IF w.data = Invalid THEN w
    ELSE [w EXCEPT !.buffer[begun.data - 10].length = w.data - begun.data]

\* A record of the message: texts are written elsewhere.
mdns_answer_add_record(w, record) ==
    LET begun == mdns_answer_add_record_header(w, record)
        cell == [kind |-> "data", value |-> record.value]
    IN  IF begun.data = Invalid THEN begun
        ELSE FillLength(CASE record.type = "PTR" -> mdns_string_make(begun, record.value)
                          [] record.type = "SRV" ->
                               mdns_string_make(Put(begun, [kind |-> "port"], 6, 7), record.value)
                          [] record.type = "A" -> Put(begun, cell, 4, 4)
                          [] record.type = "AAAA" -> Put(begun, cell, 16, 16), begun)

\* The texts of a section are one record, under the name of the first.
mdns_answer_add_txt_record(w, texts) ==
    LET begun == mdns_answer_add_record_header(w, texts[1])
        text(r, record) == Put(r, [kind |-> "data", value |-> record.value],
                               Size[record.value] + 1, Size[record.value] + 1)
    IN  IF begun.data = Invalid THEN begun ELSE FillLength(FoldLeft(text, begun, texts), begun)

---------------------------------------------------------------------------
IsText(record) == record.type = "TXT"
IsOther(record) == record.type # "TXT"

\* What is written of a section, in order: the texts come last.
Section(records) ==
    LET texts == SelectSeq(records, IsText) IN
    SelectSeq(records, IsOther) \o IF texts = <<>> THEN <<>>
                                   ELSE <<[type |-> "TXT", name |-> texts[1].name, value |-> texts]>>

\* Mutant: every text counts.
counts_every_text(records) == Len(records)

\* The texts count as one record.
mdns_answer_get_record_count(records) ==
    Len(SelectSeq(records, IsOther)) + (IF SelectSeq(records, IsText) = <<>> THEN 0 ELSE 1)

Entries(entry, items) == [i \in DOMAIN items |-> [entry |-> entry, item |-> items[i]]]

Items(m) ==
    Entries("question", m.questions) \o Entries("answer", m.answer)
    \o Entries("authority", Section(m.authority)) \o Entries("additional", Section(m.additional))

\* The least room a sender begins with.
Least(m) == IF m.kind = "query" THEN Header + 6 * Len(m.questions) ELSE Header + 32 + 4

Begin ==
    /\ at = "idle"
    /\ \E m \in Messages, capacity \in Capacities, size \in TableSizes :
         /\ message' = m
         /\ at' = IF capacity < Least(m) THEN "failed" ELSE "writing"
         /\ out' = [capacity |-> capacity, tableSize |-> IF m.kind = "query" THEN 0 ELSE size,
                    table |-> <<>>, next |-> 1, buffer |-> <<>>, data |-> Header, todo |-> Items(m)]
    /\ UNCHANGED inp

\* The next question or record; without room the whole message is given up.
Write ==
    /\ at = "writing" /\ out.todo # <<>>
    /\ LET item == Head(out.todo).item
           w == CASE Head(out.todo).entry = "question" -> mdns_answer_add_question_unicast(out, item)
                  [] item.type = "TXT" -> mdns_answer_add_txt_record(out, item.value)
                  [] OTHER -> mdns_answer_add_record(out, item)
       IN  IF w.data = Invalid THEN at' = "failed" /\ out' = out
           ELSE out' = [w EXCEPT !.todo = Tail(@)] /\ UNCHANGED at
    /\ UNCHANGED <<message, inp>>

\* What was written is sent, with the counts of the header.
Send ==
    /\ at = "writing" /\ out.todo = <<>>
    /\ at' = "sent"
    /\ inp' = [offset |-> Header, heard |-> <<>>,
               left |-> << <<"question", Len(message.questions)>>, <<"answer", Len(message.answer)>>,
                           <<"authority", mdns_answer_get_record_count(message.authority)>>,
                           <<"additional", mdns_answer_get_record_count(message.additional)>> >>]
    /\ UNCHANGED <<message, out>>

---------------------------------------------------------------------------
Octets == out.data
Expecting(section) ==
    at = "sent" /\ inp.left # <<>> /\ inp.left[1][1] = section /\ inp.left[1][2] > 0
Less == [inp.left EXCEPT ![1][2] = @ - 1]
StopReading == at' = "read" /\ UNCHANGED inp

NextSection ==
    /\ at = "sent" /\ inp.left # <<>> /\ inp.left[1][2] = 0
    /\ inp' = [inp EXCEPT !.left = Tail(@)]
    /\ UNCHANGED <<message, at, out>>

\* A question for this reader.
Question(recv) ==
    Expecting("question") /\ message.recv = recv /\ UNCHANGED <<message, out>>

NameEnd == mdns_string_skip(out.buffer, Octets, inp.offset)
PastQuestion == [inp EXCEPT !.offset = NameEnd + 4, !.left = Less]
IsOwn == mdns_string_equal(out.buffer, Octets, inp.offset, DnsSd)

\* What is left of a section is left unread, and the next read where this one stopped.
LeaveSection == inp' = [inp EXCEPT !.left = Tail(@)] /\ UNCHANGED at

\* A listener is told every question, but not that for all services in an answer.
mdns_socket_listen ==
    /\ Question("listen")
    /\ IF NameEnd = Invalid THEN LeaveSection
       ELSE /\ inp' = IF IsOwn /\ message.kind # "query" THEN PastQuestion
                      ELSE [PastQuestion EXCEPT !.heard = Append(@,
                              [entry |-> "question", type |-> out.buffer[NameEnd].type, value |-> None,
                               name |-> mdns_string_extract(out.buffer, Octets, inp.offset)])]
            /\ UNCHANGED at

\* A discovery wants its own question; who asked skips it.
mdns_discovery_recv ==
    /\ Question("discovery")
    /\ IF IsOwn /\ out.buffer[NameEnd].type = "PTR" THEN inp' = PastQuestion /\ UNCHANGED at
       ELSE StopReading

mdns_query_recv ==
    /\ Question("query")
    /\ IF NameEnd = Invalid THEN StopReading ELSE inp' = PastQuestion /\ UNCHANGED at

ReadQuestion == mdns_socket_listen \/ mdns_discovery_recv \/ mdns_query_recv

mdns_record_parse_ptr(offset, length) ==
    IF Octets >= offset + length /\ length >= 2
      THEN mdns_string_extract(out.buffer, Octets, offset) ELSE <<>>
mdns_record_parse_srv(offset, length) ==
    IF Octets >= offset + length /\ length >= 8
      THEN mdns_string_extract(out.buffer, Octets, offset + 6) ELSE <<>>
mdns_record_parse_a(offset, length) ==
    IF Octets >= offset + length /\ length = 4 THEN out.buffer[offset].value ELSE None
mdns_record_parse_aaaa(offset, length) ==
    IF Octets >= offset + length /\ length = 16 THEN out.buffer[offset].value ELSE None

RECURSIVE mdns_record_parse_txt(_, _)
mdns_record_parse_txt(offset, end) ==
    IF offset >= end THEN <<>>
    ELSE LET text == out.buffer[offset].value IN
         IF Size[text] >= end - offset THEN <<>>
         ELSE <<text>> \o mdns_record_parse_txt(offset + Size[text] + 1, end)

Value(type, offset, length) ==
    CASE type = "PTR" -> mdns_record_parse_ptr(offset, length)
      [] type = "SRV" -> mdns_record_parse_srv(offset, length)
      [] type = "A" -> mdns_record_parse_a(offset, length)
      [] type = "AAAA" -> mdns_record_parse_aaaa(offset, length)
      [] type = "TXT" -> mdns_record_parse_txt(offset, Min({offset + length, Octets}))

\* The ten octets before a record's data, or whatever is where none were written:
\* any longer length leads out of the message just so.
Types == {"PTR", "SRV", "A", "AAAA", "TXT", "ANY"}
FieldsAt(offset) ==
    IF offset \in DOMAIN out.buffer /\ out.buffer[offset].kind = "fields" THEN {out.buffer[offset]}
    ELSE [kind : {"fields"}, type : Types, length : 0 .. Octets]

\* The record whose name begins where the reader is and whose fields are at an offset.
RecordAt(section, offset, fields) ==
    [entry |-> section, type |-> fields.type,
     name |-> mdns_string_extract(out.buffer, Octets, inp.offset),
     value |-> IF offset = NameEnd THEN Value(fields.type, offset + 10, fields.length) ELSE None]

Past(offset, fields, heard) ==
    inp' = [inp EXCEPT !.offset = offset + 10 + fields.length, !.left = Less, !.heard = heard] /\ UNCHANGED at

\* A record's data are handed to the callback when they are all there.  Whether
\* its name could be skipped is not asked: if not, its fields are read from
\* where the name begins.
mdns_records_parse(section) ==
    /\ Expecting(section)
    /\ LET offset == IF NameEnd = Invalid THEN inp.offset ELSE NameEnd IN
       IF offset + 10 > Octets THEN StopReading
       ELSE \E fields \in FieldsAt(offset) :
              Past(offset, fields, IF fields.length > Octets - (offset + 10) THEN inp.heard
                                   ELSE Append(inp.heard, RecordAt(section, offset, fields)))
    /\ UNCHANGED <<message, out>>

\* A discovery takes the answers to its own question and all else that comes
\* along.  The length of an answer is held against the octets from its fields on.
DiscoveryAnswer ==
    /\ Expecting("answer") /\ message.recv = "discovery"
    /\ IF NameEnd = Invalid THEN LeaveSection
       ELSE IF NameEnd + 10 > Octets THEN StopReading
       ELSE \E fields \in FieldsAt(NameEnd) :
              IF fields.length > Octets - NameEnd THEN StopReading
              ELSE Past(NameEnd, fields, IF ~IsOwn THEN inp.heard
                                         ELSE Append(inp.heard, RecordAt("answer", NameEnd, fields)))
    /\ UNCHANGED <<message, out>>

ReadRecord ==
    \/ Expecting("answer") /\ message.recv # "discovery" /\ mdns_records_parse("answer")
    \/ mdns_records_parse("authority")
    \/ mdns_records_parse("additional")

Finish ==
    /\ at = "sent" /\ inp.left = <<>>
    /\ StopReading
    /\ UNCHANGED <<message, out>>

Next == Begin \/ Write \/ Send \/ NextSection \/ ReadQuestion \/ DiscoveryAnswer \/ ReadRecord \/ Finish

Spec == Init /\ [][Next]_vars

---------------------------------------------------------------------------
\* Every variable has its type.
TypeOK ==
    /\ message \in Messages \cup {None}
    /\ at \in {"idle", "writing", "failed", "sent", "read"}
    /\ message # None => /\ out.data \in Header .. out.capacity
                         /\ \A o \in DOMAIN out.buffer : o \in Header .. out.data - 1
                         /\ \A i \in DOMAIN out.table : out.buffer[out.table[i]].kind = "label"
    /\ at = "sent" => inp.offset \in Header .. out.data

\* The names of a message end in one label that is nowhere else in them, as
\* names under local do.  mdns_string_table_find takes a name that a written
\* one only begins with for that one (mdns.h:698), so that on a host called
\* local the service's own name cannot be read back.
NamesIn(m) ==
    {q.name : q \in ToSet(m.questions)}
    \cup {r.name : r \in ToSet(m.answer \o m.authority \o m.additional)}
    \cup {r.value : r \in {x \in ToSet(m.answer \o m.authority \o m.additional) : x.type \in {"PTR", "SRV"}}}

WellEnded(m) ==
    \A n, k \in NamesIn(m) : \A i \in DOMAIN n : n[i] = Last(k) <=> i = Len(n)

\* What a reader should hear of an item, and which it should hear of.
Told(e) ==
    [entry |-> e.entry, type |-> e.item.type, name |-> e.item.name,
     value |-> CASE e.entry = "question" -> None
                 [] e.item.type = "TXT" -> [i \in DOMAIN e.item.value |-> e.item.value[i].value]
                 [] OTHER -> e.item.value]

Wanted(m, e) ==
    CASE e.entry = "question" -> m.recv = "listen" /\ (m.kind = "query" \/ e.item.name # DnsSd)
      [] e.entry = "answer" -> m.recv # "discovery" \/ e.item.name = DnsSd
      [] OTHER -> TRUE

Own(m) == \A q \in ToSet(m.questions) : q = [name |-> DnsSd, type |-> "PTR"]

\* A message that is read is read as it was written: every record and question
\* the reader wants, with its name and its value, in order, however often the
\* table of labels went round.  A discovery reads no answer to another question.
ReadAsWritten ==
    (at = "read" /\ WellEnded(message)) =>
        LET wanted(e) == Wanted(message, e)
            items == SelectSeq(Items(message), wanted)
        IN  inp.heard = IF message.recv = "discovery" /\ ~Own(message) THEN <<>>
                        ELSE [i \in DOMAIN items |-> Told(items[i])]

\* A message is given up only if it would not fit without any reference.
Plain(name) == FoldLeft(LAMBDA n, label : n + Size[label] + 1, 1, name)
PlainData(item) ==
    CASE item.type = "PTR" -> Plain(item.value)
      [] item.type = "SRV" -> 6 + Plain(item.value)
      [] item.type = "A" -> 4
      [] item.type = "AAAA" -> 16
      [] item.type = "TXT" -> FoldLeft(LAMBDA n, r : n + Size[r.value] + 1, 0, item.value)
PlainSize(m) ==
    FoldLeft(LAMBDA n, e : n + Plain(e.item.name) + (IF e.entry = "question" THEN 4
                                                     ELSE 10 + PlainData(e.item)),
             Header, Items(m))

GivenUpOnlyIfFull ==
    at = "failed" => out.capacity < Least(message) \/ out.capacity < PlainSize(message)
====

---- MODULE XmlParser ----
(***************************************************************************)
(* xml/xmlc.c: a document is read into a buffer, parsed into a tree of     *)
(* nodes and freed.  A character is one of a few symbols: those of the     *)
(* markup, a space, a tab (any other white space) and letters; both kinds  *)
(* of quote are one.  Positions count from 1.  The parse is an operator;   *)
(* the documents are trees written out, those in one style also with one   *)
(* symbol missing.                                                         *)
(***************************************************************************)
EXTENDS Integers, Sequences, SequencesExt, FiniteSetsExt

CONSTANTS Names, Texts,   \* words: sequences of letters; a text may hold white space
          Values,         \* the attribute's values, none of them empty
          Widest,         \* children of a root
          None

\* What an instance has to satisfy.
XmlAssumption == Widest \in Nat /\ \A w \in Names \cup Texts \cup Values : w # <<>>

VARIABLES
    written,   \* the tree and the style it is written in, and the symbol that got lost
    buffer,
    document,  \* what xml_parse_document returned: a tree, or None
    blocks,    \* blocks of memory the parser holds for it
    place      \* none, written, open or closed

vars == <<written, buffer, document, blocks, place>>

Space == " "
Tab == "\t"
isspace(c) == c \in {Space, Tab}
Node(name, content, attributes, children) ==
    [name |-> name, content |-> content, attributes |-> attributes, children |-> children]

---------------------------------------------------------------------------
\* The parser's steps, each from a position to the next.  White space is skipped
\* by looking, but not by moving, and the last position is never left.
peek_raw(b, p, n) == IF p + n > Len(b) THEN None ELSE b[p + n]

xml_parser_peek(b, p, n) ==
    LET seen == SelectSeq(SubSeq(b, p, Len(b)), LAMBDA c : ~isspace(c)) IN
    IF n < Len(seen) THEN seen[n + 1] ELSE None

xml_parser_consume(b, p, n) == IF p + n > Len(b) THEN Len(b) ELSE p + n

xml_skip_whitespace(b, p) ==
    IF \E q \in p..Len(b) : ~isspace(b[q]) THEN Min({q \in p..Len(b) : ~isspace(b[q])}) ELSE Len(b)

\* A step's result: whether it worked, where it ends, and the symbols it found.
Fail == [ok |-> FALSE, at |-> 0, text |-> <<>>]
Found(p, text) == [ok |-> TRUE, at |-> p, text |-> text]

\* The first position from p on from which the next symbol to see is c.
Until(b, p, c) == {q \in p..Len(b) : xml_parser_peek(b, q, 0) = c}

\* Up to the closing bracket, but for the white space before it: of this one
\* character is consumed in its place.
xml_parse_tag_end(b, p) ==
    IF Until(b, p, ">") = {} THEN Fail
    ELSE LET q == Min(Until(b, p, ">")) IN Found(xml_parser_consume(b, q, 1), SubSeq(b, p, q - 1))

xml_parse_tag_open(b, p) ==
    LET q == xml_skip_whitespace(b, p) IN
    IF xml_parser_peek(b, q, 0) # "<" THEN Fail ELSE xml_parse_tag_end(b, xml_parser_consume(b, q, 1))

xml_parse_tag_close(b, p) ==
    LET q == xml_skip_whitespace(b, p) IN
    IF xml_parser_peek(b, q, 0) # "<" \/ xml_parser_peek(b, q, 1) # "/" THEN Fail
    ELSE xml_parse_tag_end(b, xml_parser_consume(b, q, 2))

xml_parse_content(b, p) ==
    LET from == xml_skip_whitespace(b, p) IN
    IF Until(b, from, "<") = {} THEN Fail
    ELSE LET q == Min(Until(b, from, "<")) IN Found(q, SubSeq(b, from, q - 1))

\* strtok: the words between spaces, in order.  A tab is part of its word.
xml_strtok_r(s) ==
    LET starts == {i \in DOMAIN s : s[i] # Space /\ (i = 1 \/ s[i - 1] = Space)}
        end(i) == Min({j \in i..(Len(s) + 1) : j > Len(s) \/ s[j] = Space}) - 1
    IN [k \in 1..Cardinality(starts) |->
          LET i == SetToSortSeq(starts, <)[k] IN SubSeq(s, i, end(i))]

\* sscanf: a name, an equals sign, a quote and a text up to the next quote or the
\* word's end.  A value with a space ends at it.
Attribute(word) ==
    LET eq == Min({i \in DOMAIN word : word[i] = "="} \cup {Len(word) + 1})
        rest == SubSeq(word, eq + 2, Len(word))
        end == Min({i \in DOMAIN rest : rest[i] = "q"} \cup {Len(rest) + 1})
    IN IF eq > 1 /\ eq < Len(word) /\ word[eq + 1] = "q" /\ end > 1
         THEN << <<SubSeq(word, 1, eq - 1), SubSeq(rest, 1, end - 1)>> >>
         ELSE <<>>

\* The tag's name becomes as long as its first word.
xml_find_attributes(tag) ==
    LET words == xml_strtok_r(tag) IN
    IF words = <<>> THEN [name |-> tag, attributes |-> <<>>]
    ELSE [name |-> SubSeq(tag, 1, Len(words[1])),
          attributes |-> FoldLeft(LAMBDA s, w : s \o Attribute(w), <<>>, Tail(words))]

\* A name, a node, an array of attributes and one of children; each attribute is
\* three blocks.
RECURSIVE xml_node_free(_)
xml_node_free(node) ==
    4 + (IF node.content = None THEN 0 ELSE 1) + 3 * Len(node.attributes)
      + FoldLeft(LAMBDA n, child : n + xml_node_free(child), 0, node.children)

RECURSIVE xml_parse_node(_, _), xml_parse_children(_, _, _)

\* A failure frees the names, the content and the children, and forgets the
\* attributes: blocks that nobody holds.
Lost(b, p) == [ok |-> FALSE, at |-> p, node |-> None, blocks |-> b]

xml_parse_children(b, p, children) ==
    IF xml_parser_peek(b, p, 1) = "/" THEN [ok |-> TRUE, at |-> p, children |-> children, blocks |-> 0]
    ELSE LET child == xml_parse_node(b, p) IN
         IF child.ok THEN xml_parse_children(b, child.at, Append(children, child.node))
         ELSE [ok |-> FALSE, at |-> p, children |-> children, blocks |-> child.blocks]

xml_parse_node(b, p) ==
    LET open == xml_parse_tag_open(b, p)
        tag == xml_find_attributes(open.text)
        attributes == 1 + 3 * Len(tag.attributes)
        selfClosed == tag.name # <<>> /\ Last(open.text) = "/"
        texts == xml_parser_peek(b, open.at, 0) # "<"
        content == IF texts THEN xml_parse_content(b, open.at) ELSE Found(open.at, <<>>)
        inside == IF texts THEN [ok |-> TRUE, at |-> content.at, children |-> <<>>, blocks |-> 0]
                  ELSE xml_parse_children(b, open.at, <<>>)
        close == xml_parse_tag_close(b, inside.at)
        node == Node(tag.name, IF texts /\ ~selfClosed THEN content.text ELSE None, tag.attributes,
                     IF selfClosed THEN <<>> ELSE inside.children)
    IN CASE ~open.ok -> Lost(0, p)
         [] open.ok /\ selfClosed ->
              [ok |-> TRUE, at |-> open.at, node |-> node, blocks |-> xml_node_free(node)]
         [] open.ok /\ ~selfClosed ->
              IF ~content.ok THEN Lost(attributes, p)
              ELSE IF ~inside.ok THEN Lost(attributes + inside.blocks, p)
              ELSE IF ~close.ok \/ close.text # tag.name THEN Lost(attributes, p)
              ELSE [ok |-> TRUE, at |-> close.at, node |-> node, blocks |-> xml_node_free(node)]

xml_parse_document(b) == IF b = <<>> THEN Lost(0, 1) ELSE xml_parse_node(b, 1)

\* The descent by names: no child of a name, or two, end it.
RECURSIVE xml_easy_child(_, _)
xml_easy_child(node, names) ==
    IF names = <<>> THEN node
    ELSE LET same == SelectSeq(node.children, LAMBDA c : c.name = Head(names)) IN
         IF Len(same) = 1 THEN xml_easy_child(same[1], Tail(names)) ELSE None

---------------------------------------------------------------------------
\* Documents, and how their author writes them: between the tags nothing,
\* a space or a tab, before an attribute a space or a tab, an element without content
\* closed by itself or by a tag of its own.
Inner == {Node(n, c, a, <<>>) : n \in Names, c \in {None} \cup Texts, a \in {<<>>} \cup {<< <<<<"k">>, v>> >> : v \in Values}}
Trees == {[n EXCEPT !.children = c] : n \in {i \in Inner : i.content = None},
                                      c \in SeqOf({i \in Inner : i.attributes = <<>>}, Widest)}
           \cup Inner
Styles == [gap : {<<>>, <<Space>>, <<Tab>>}, before : {Space, Tab}, selfClosing : BOOLEAN]

RECURSIVE Text(_, _)
Text(node, style) ==
    LET attributes == FlattenSeq([i \in DOMAIN node.attributes |->
                        <<style.before>> \o node.attributes[i][1] \o <<"=", "q">> \o node.attributes[i][2] \o <<"q">>])
        within == IF node.content # None THEN style.gap \o node.content \o style.gap
                  ELSE FoldLeft(LAMBDA s, c : s \o Text(c, style) \o style.gap, style.gap, node.children)
    IN IF style.selfClosing /\ node.content = None /\ node.children = <<>>
         THEN <<"<">> \o node.name \o attributes \o <<"/", ">">>
         ELSE <<"<">> \o node.name \o attributes \o <<">">> \o within \o <<"<", "/">> \o node.name \o <<">">>

Init ==
    /\ written = None /\ buffer = <<>> /\ document = None /\ blocks = 0 /\ place = "none"

\* A document without gaps between its tags may have lost one symbol.
Write(tree, style) ==
    LET text == Text(tree, style) IN
    /\ place = "none" /\ place' = "written"
    /\ \E lost \in IF style.gap = <<>> /\ style.before = Space THEN 0..Len(text) ELSE {0} :
         /\ written' = [tree |-> tree, style |-> style, lost |-> lost]
         /\ buffer' = IF lost = 0 THEN text ELSE RemoveAt(text, lost)
    /\ UNCHANGED <<document, blocks>>

\* xml_open_document reads the file to its end first.
xml_open_document ==
    /\ place = "written" /\ place' = "open"
    /\ LET parsed == xml_parse_document(buffer) IN
       document' = parsed.node /\ blocks' = parsed.blocks
    /\ UNCHANGED <<written, buffer>>

xml_document_free ==
    /\ place = "open" /\ document # None
    /\ place' = "closed" /\ document' = None
    /\ blocks' = blocks - xml_node_free(document)
    /\ UNCHANGED <<written, buffer>>

Next ==
    \/ \E tree \in Trees, style \in Styles : Write(tree, style)
    \/ xml_open_document \/ xml_document_free

Spec == Init /\ [][Next]_vars

---------------------------------------------------------------------------
\* Every variable has its type.
TypeOK ==
    /\ place \in {"none", "written", "open", "closed"}
    /\ blocks \in Nat
    /\ document # None => document.attributes \in Seq(Seq(STRING) \X Seq(STRING))

\* What the parser cannot read back: an element that closes itself keeps the
\* slash in its name unless an attribute follows it, a value with a space is cut, and
\* a tab before an attribute makes both part of the tag's name.
SelfClosed(node) == node.content = None /\ node.children = <<>>
Readable(tree, style) ==
    \A n \in {tree} \cup ToSet(tree.children) :
        /\ style.selfClosing /\ SelfClosed(n) => n.attributes # <<>>
        /\ n.attributes # <<>> => style.before = Space
        /\ \A a \in ToSet(n.attributes) : ~Contains(a[2], Space)

\* A document written by these rules is read back as it is, texts trimmed, whatever
\* white space there is between its tags, and a child that has its name to itself is
\* found by it.
ReadBack ==
    (place = "open" /\ written.lost = 0 /\ Readable(written.tree, written.style)) =>
        /\ document = written.tree
        /\ \A c \in ToSet(document.children) :
             Len(SelectSeq(document.children, LAMBDA d : d.name = c.name)) = 1
               => xml_easy_child(document, <<c.name>>) = c

\* Freed documents leave no block behind; a document that is refused leaves
\* only lists of attributes.
NothingKept ==
    /\ place = "closed" => blocks = 0
    /\ (place = "open" /\ document = None) => blocks <= 1 + 3 + 1 + 3
====

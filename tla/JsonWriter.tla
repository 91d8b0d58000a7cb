------------------------------- MODULE JsonWriter -------------------------------
(***************************************************************************)
(* The writers of json_writer.cpp: StyledWriter and StyledStreamWriter,    *)
(* objects whose members outlive a write, and FastWriter, a function.  The *)
(* two styled ones are the same code but for where the document goes and   *)
(* for writeIndent.                                                        *)
(*                                                                         *)
(* A document is a sequence of tokens; a scalar, a member's name and a     *)
(* comment are one token each, and so is one level of indentation.         *)
(***************************************************************************)
EXTENDS Integers, Sequences, SequencesExt

CONSTANTS
  rightMargin_,  \* 74 in the code
  Width,         \* of each token that a scalar can be
  Placed,        \* comments
  Value,         \* values, with their elements
  Level,         \* of nesting, of each value
  Values,        \* written by the first write
  MoreValues,    \* written by a later write
  MaxWrites      \* bound

Indentation == "   "
None == ""
Name(index) == "name"

Blank == {" ", Indentation, "\n"}
LineComment == {"//c", "//c "}
Comment == LineComment \cup {"/*c*/"}
Token == DOMAIN Width \cup Blank \cup Comment
           \cup {"[", "]", "{", "}", ",", ":", "name", "?"}

\* A value: its type, its token if it is a scalar, its elements or members in
\* order, and a comment or None at each placement.
Scalar(token) ==
  [type |-> "scalar", token |-> token, kids |-> <<>>,
   before |-> None, same |-> None, after |-> None]
Compound(type, kids) == [Scalar(None) EXCEPT !.type = type, !.kids = kids]

size(value) == Len(value.kids)
isCompound(value) == value.type \in {"array", "object"} /\ size(value) > 0

\* Scalars have no elements, and elements are less nested.
Placement == Placed \cup {None}
Node == [type : {"scalar", "array", "object"}, token : DOMAIN Width \cup {None},
         kids : Seq(Value), before : Placement, same : Placement, after : Placement]

ASSUME WriterAssumption ==
  /\ rightMargin_ \in Nat
  /\ Width \in [DOMAIN Width -> Nat]
  /\ DOMAIN Width \cap (Blank \cup Comment) = {}
  /\ Placed \subseteq Comment
  /\ Value \subseteq Node
  /\ \A value \in Value :
       value.type = "scalar" => value.token \in DOMAIN Width /\ value.kids = <<>>
  /\ Level \in [Value -> Nat]
  /\ \A value \in Value : \A k \in 1 .. size(value) :
       Level[value.kids[k]] < Level[value]
  /\ Values \subseteq Value /\ MoreValues \subseteq Value

\* What is made of x by n steps, each a function of what the one before left.
After(x, n, step) ==
  LET upTo[k \in 0 .. n] == IF k = 0 THEN x ELSE step[k][upTo[k - 1]]
  IN  upTo[n]

Document == Seq(Token)

\* The documents of a sequence, one behind the other.
Joined(docs) ==
  After(<<>>, Len(docs),
        [k \in 1 .. Len(docs) |-> [doc \in Document |-> doc \o docs[k]]])

-----------------------------------------------------------------------------
(* FastWriter. *)

FastItem(value, index, written) ==
  (IF index > 1 THEN <<",">> ELSE <<>>)
    \o (IF value.type = "object" THEN <<Name(index), ":">> ELSE <<>>) \o written

FastValue[value \in Value] ==
  LET items == Joined([index \in 1 .. size(value) |->
                         FastItem(value, index, FastValue[value.kids[index]])])
  IN  CASE value.type = "scalar" -> <<value.token>>
        [] value.type = "array"  -> <<"[">> \o items \o <<"]">>
        [] value.type = "object" -> <<"{">> \o items \o <<"}">>

-----------------------------------------------------------------------------
(* StyledWriter.  The writer w is its members; indentString_ is a number   *)
(* of levels; isStream tells which of the two it is, holds whether every   *)
(* assertion and every index into childValues_ held.                       *)

Writer ==
  [isStream : BOOLEAN, document_ : Document, addChildValues_ : BOOLEAN,
   indentString_ : Int, childValues_ : Seq(Document), holds : BOOLEAN]

Put(w, tokens) == [w EXCEPT !.document_ = @ \o tokens]

pushValue(w, tokens) ==
  IF w.addChildValues_
  THEN [w EXCEPT !.childValues_ = Append(@, tokens)]
  ELSE Put(w, tokens)

EndsInSpace(doc) == Last(doc) \in {" ", Indentation, "//c "}

Indent(w) == [k \in 1 .. w.indentString_ |-> Indentation]

streamIndent(w) == Put(w, <<"\n">> \o Indent(w))

\* A line is not ended when it ends in a space, "already indented", or is new.
stringIndent(w) ==
  LET new == w.document_ = <<>> \/ Last(w.document_) = "\n"
  IN  IF ~new /\ EndsInSpace(w.document_) THEN w
      ELSE Put(w, (IF new THEN <<>> ELSE <<"\n">>) \o Indent(w))

writeIndent(w) == IF w.isStream THEN streamIndent(w) ELSE stringIndent(w)

writeWithIndent(w, tokens) == Put(writeIndent(w), tokens)

indent(w) == [w EXCEPT !.indentString_ = @ + 1]

unindent(w) ==
  [w EXCEPT !.indentString_ = @ - 1, !.holds = @ /\ w.indentString_ > 0]

writeCommentBeforeValue_Fault(w, value) ==
  IF value.before = None THEN w ELSE Put(w, <<value.before>>)

writeCommentBeforeValue(w, value) ==
  IF value.before = None THEN w ELSE Put(w, <<value.before, "\n">>)

writeCommentAfterValueOnSameLine_Fault(w, value) ==
  Put(w, IF value.same = None THEN <<>> ELSE <<" ", value.same>>)

writeCommentAfterValueOnSameLine(w, value) ==
  Put(w, (IF value.same = None THEN <<>> ELSE <<" ", value.same>>) \o
             (IF value.after = None THEN <<>> ELSE <<"\n", value.after, "\n">>))

childValue(w, index) ==
  IF index <= Len(w.childValues_) THEN w.childValues_[index] ELSE <<"?">>

Length(tokens) ==
  IF Len(tokens) = 1 /\ tokens[1] \in DOMAIN Width THEN Width[tokens[1]] ELSE Len(tokens)

TotalLength(texts) ==
  After(0, Len(texts),
        [k \in 1 .. Len(texts) |-> [sum \in Nat |-> sum + Length(texts[k])]])

\* From here on writeKid[k] is what writing the k-th element does to a writer.

\* The writer, given as its list of child values starts, after the elements of
\* an array were measured, and whether they need lines of their own.
Measured(w, value, writeKid) ==
  LET long   == size(value) * 3 >= rightMargin_
      nested == \E index \in 1 .. size(value) : isCompound(value.kids[index])
      walked == After([w EXCEPT !.addChildValues_ = TRUE], size(value), writeKid)
      width  == 4 + (size(value) - 1) * 2 + TotalLength(walked.childValues_)
  IN  IF long \/ nested
      THEN [writer |-> w, multi |-> TRUE]
      ELSE [writer |-> [walked EXCEPT !.addChildValues_ = FALSE],
            multi  |-> width >= rightMargin_]

isMultineArray_Fault(w, value, writeKid) == Measured(w, value, writeKid)

isMultineArray(w, value, writeKid) ==
  Measured([w EXCEPT !.childValues_ = <<>>], value, writeKid)

\* An element or a member on a line of its own: the text that measuring it left,
\* or, without one, the value.
Item(w, value, index, hasChildValue, writeKid) ==
  CASE value.type = "object" ->
         writeKid[index][writeWithIndent(w, <<Name(index), " ", ":", " ">>)]
    [] value.type # "object" /\ hasChildValue ->
         [writeWithIndent(w, childValue(w, index)) EXCEPT
            !.holds = @ /\ index <= Len(w.childValues_)]
    [] OTHER -> writeKid[index][writeIndent(w)]

Line(w, value, index, hasChildValue, writeKid) ==
  LET kid     == value.kids[index]
      written == Item(writeCommentBeforeValue(w, kid), value, index, hasChildValue, writeKid)
  IN  writeCommentAfterValueOnSameLine(
        IF index = size(value) THEN written ELSE Put(written, <<",">>), kid)

Lines(w, value, hasChildValue, writeKid) ==
  After(w, size(value),
        [index \in 1 .. size(value) |->
           [acc \in Writer |-> Line(acc, value, index, hasChildValue, writeKid)]])

SingleLine(w, value) ==
  LET items == Joined([index \in 1 .. size(value) |->
                         (IF index > 1 THEN <<",", " ">> ELSE <<>>)
                           \o childValue(w, index)])
  IN  [Put(w, <<"[", " ">> \o items \o <<" ", "]">>) EXCEPT
         !.holds = @ /\ Len(w.childValues_) = size(value)]

Bracketed(w, value, hasChildValue, writeKid, open, close) ==
  writeWithIndent(
    unindent(Lines(indent(writeWithIndent(w, <<open>>)), value, hasChildValue, writeKid)),
    <<close>>)

writeArrayValue(w, value, writeKid) ==
  LET is == isMultineArray(w, value, writeKid)
  IN  IF size(value) = 0 THEN pushValue(w, <<"[", "]">>)
      ELSE IF is.multi
      THEN Bracketed(is.writer, value, is.writer.childValues_ # <<>>, writeKid, "[", "]")
      ELSE SingleLine(is.writer, value)

writeObjectValue(w, value, writeKid) ==
  IF size(value) = 0 THEN pushValue(w, <<"{", "}">>)
  ELSE Bracketed(w, value, FALSE, writeKid, "{", "}")

writeValue[value \in Value] ==
  LET writeKid == [index \in 1 .. size(value) |-> writeValue[value.kids[index]]]
  IN  [w \in Writer |->
         CASE value.type = "scalar" -> pushValue(w, <<value.token>>)
           [] value.type = "array"  -> writeArrayValue(w, value, writeKid)
           [] value.type = "object" -> writeObjectValue(w, value, writeKid)]

write(w, root) ==
  LET start == [w EXCEPT !.document_ = <<>>, !.addChildValues_ = FALSE,
                         !.indentString_ = 0]
      body  == writeValue[root][writeCommentBeforeValue(start, root)]
  IN  Put(writeCommentAfterValueOnSameLine(body, root), <<"\n">>)

-----------------------------------------------------------------------------
(* A writer that is used again. *)

VARIABLES
  writer,
  root,     \* the last value written
  writes

writerVars == <<writer, root, writes>>

StyledWriter(isStream) ==
  [isStream |-> isStream, document_ |-> <<>>, addChildValues_ |-> FALSE, indentString_ |-> 0,
   childValues_ |-> <<>>, holds |-> TRUE]

WriterInit ==
  /\ writer \in {StyledWriter(isStream) : isStream \in BOOLEAN}
  /\ root = Scalar(None) /\ writes = 0

Write ==
  /\ writes < MaxWrites
  /\ root' \in IF writes = 0 THEN Values ELSE MoreValues
  /\ writer' = write(writer, root')
  /\ writes' = writes + 1

WriterSpec == WriterInit /\ [][Write]_writerVars

-----------------------------------------------------------------------------
(* Properties. *)

\* The line comments that hide the rest of their line.  StyledWriter takes the
\* last space of a comment for indentation, and goes on in the line.
Hiding(isStream) == IF isStream THEN LineComment ELSE LineComment \ {"//c "}

Found == [tokens : Document, comments : Document, hidden : BOOLEAN]

\* What a reader makes of one more token.
ReadToken(r, token, hiding) ==
  [tokens   |-> IF r.hidden \/ token \in Blank \cup Comment THEN r.tokens
                ELSE Append(r.tokens, token),
   comments |-> IF token \in Comment THEN Append(r.comments, token) ELSE r.comments,
   hidden   |-> \/ r.hidden /\ token # "\n"
                \/ token \in hiding]

Reading(doc, hiding) ==
  After([tokens |-> <<>>, comments |-> <<>>, hidden |-> FALSE], Len(doc),
        [k \in 1 .. Len(doc) |-> [r \in Found |-> ReadToken(r, doc[k], hiding)]])

(* Whatever its layout and its comments, the styled document holds the     *)
(* value that FastWriter writes: no token is lost or repeated, or hidden   *)
(* behind a line comment; of StyledWriter, behind one that ends in no      *)
(* space (json_writer.cpp:285-510 and 561-806).                            *)
StyledIsFast ==
  writes > 0 =>
    Reading(writer.document_, Hiding(writer.isStream)).tokens = FastValue[root]

(* What a write returns does not depend on earlier writes, though          *)
(* childValues_ is left as it was; the assertions json_writer.cpp:399 and  *)
(* 487 and the index of childValues_ hold in every write, and each leaves  *)
(* the indentation where it started.                                       *)
NothingLeftOver ==
  /\ writes > 0 =>
       writer.document_ = write(StyledWriter(writer.isStream), root).document_
  /\ writer.holds /\ writer.indentString_ = 0 /\ ~writer.addChildValues_

\* "if the array contains no object value, empty array or some other value types,
\* and all the values fit on one lines, then print the array on a single line"
OneLine(value) ==
  /\ value.type = "array"
  /\ \A k \in 1 .. size(value) : ~isCompound(value.kids[k])
  /\ size(value) * 3 < rightMargin_
  /\ TotalLength([k \in 1 .. size(value) |-> FastValue[value.kids[k]]])
       + 2 * size(value) + 2 < rightMargin_

Given(comment) == IF comment = None THEN <<>> ELSE <<comment>>

CommentsOf[value \in Value] ==
  LET inside == IF OneLine(value) THEN <<>>
                ELSE Joined([k \in 1 .. size(value) |-> CommentsOf[value.kids[k]]])
  IN  Given(value.before) \o inside \o Given(value.same) \o Given(value.after)

(* The comments of a value are written in its order, each once, those of   *)
(* the elements of an array on a single line apart, which are dropped.     *)
CommentsInOrder ==
  writes > 0 =>
    Reading(writer.document_, Hiding(writer.isStream)).comments = CommentsOf[root]

AllCommentsOf[value \in Value] ==
  Given(value.before)
    \o Joined([k \in 1 .. size(value) |-> AllCommentsOf[value.kids[k]]])
    \o Given(value.same) \o Given(value.after)

(* "If the Value have comments then they are outputed according to their   *)
(* #CommentPlacement" (writer.h:68), in a "JSON document that represents   *)
(* the root value" (writer.h:81): StyledWriter writes every comment, and   *)
(* none hides a token.                                                     *)
WrittenAsDocumented ==
  writes > 0 /\ ~writer.isStream =>
    LET found == Reading(writer.document_, LineComment)
    IN  found.tokens = FastValue[root] /\ found.comments = AllCommentsOf[root]

=============================================================================

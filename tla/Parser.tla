------------------------------- MODULE Parser -------------------------------
(***************************************************************************)
(* core/parser.c: lines "key:value;value..." of data files, parsed by the  *)
(* formats their keys were registered with and handed, one after another,  *)
(* to the callbacks of the formats, which read them through getters.       *)
(* Names, values and lines are abstract; line numbers are left out.        *)
(***************************************************************************)
EXTENDS Integers, FiniteSets, Sequences

CONSTANTS
    Names,              \* field names, as clients and files write them
    Truncated(_),       \* what is kept of a name in FIELD_NAME_SIZE bytes
    FormatStrings,      \* [types |-> sequence, odd |-> whether a name with no type follows]
    Lines,              \* the lines of files: Comment, NewLine, NoPair and data lines
    Comment, NewLine,
    NoPair,             \* a line without a key and a value
    MetadataBound,      \* bound: the metadata ever allocated
    UserdataBound       \* bound: the length of the list of user data

DataTypes == {"int", "char", "string", "bool", "error"}

ASSUME ParserAssumption ==
    /\ \A name \in Names : Truncated(name) \in Names
    /\ FormatStrings \subseteq [types : Seq(DataTypes), odd : BOOLEAN]
    /\ \A line \in Lines \ {Comment, NewLine, NoPair} :
         line.key \in Names /\ line.values \in Seq(STRING)
    /\ {MetadataBound, UserdataBound} \subseteq Nat

VARIABLES
    formats,        \* parse_formats: the name and the metadata of each
    metadata,       \* the types of the metadata that are allocated
    fields,         \* parse_data.data: FieldData
    field_name,     \* parse_data.name
    active,         \* parse_state.active
    last_code,
    userdata,       \* the list of user data
    file,           \* whether a file is open, and what was read of it
    answer,         \* what the last parser_parse_file answered, and after what file
    shown           \* the key and the values of the last line that had its format

parser_vars == <<formats, metadata, fields, field_name, active, last_code, userdata, file, answer,
          shown>>

Codes == {"OK", "NO_OP", "MALFORMED_FORMAT", "NO_FORMAT_FOUND", "MALFORMED_KEY_VALUE_PAIR",
          "MALFORMED_DATA", "UNKNOWN_DATA_TYPE", "FILE_OPEN_FAIL", "PARSE_CALLBACK_ERROR"}
Succeeded(code) == code \in {"OK", "NO_OP"}
Nothing == [key |-> "none", values |-> <<>>]
NoFile == [open |-> FALSE, read |-> "nothing"]
NoAnswer == [success |-> FALSE, read |-> "nothing", before |-> FALSE, given |-> FALSE]

\* parser_new, which leaves last_code and parse_data.name unwritten.
ParserInit ==
    /\ formats = <<>> /\ metadata = <<>> /\ fields = <<>> /\ userdata = <<>>
    /\ field_name \in Names
    /\ active = FALSE
    /\ last_code \in Codes
    /\ file = NoFile /\ answer = NoAnswer
    /\ shown = Nothing

NoFileOpen == ~file.open

\* _parser_find_format: 0, or the first format with the name.
FormatNamed(name) ==
    LET named == {i \in DOMAIN formats : formats[i].name = name}
    IN  IF named = {} THEN 0 ELSE CHOOSE i \in named : \A j \in named : i <= j

Dropped(seq, at) == SubSeq(seq, 1, at - 1) \o SubSeq(seq, at + 1, Len(seq))

\* Mutant: the metadata of a format that is registered again are freed.
DiscardFreeing(at) ==
    [m \in DOMAIN metadata \ {formats[at].metas[i] : i \in DOMAIN formats[at].metas}
       |-> metadata[m]]

\* The metadata left when a format is registered again, or when that fails: the list is
\* initialised, its nodes are lost, and the metadata are never freed.
Discard(at) == metadata

\* _metadata_new: the i-th of the numbers that are free.
FreshId(i) ==
    LET Free(n) == {m \in 1 .. n : m \notin DOMAIN metadata}
    IN  CHOOSE n \in Free(MetadataBound) : Cardinality(Free(n - 1)) = i - 1

\* parser_register_field.  A name is looked for as the client wrote it, but stored truncated; a
\* malformed format string takes the format away, also one that was there before.
Register(name, string) ==
    LET at == FormatNamed(name)
        kept == IF at = 0 THEN metadata ELSE Discard(at)
        used == DOMAIN metadata
        count == Len(string.types)
        new == [i \in 1 .. count |-> FreshId(i)]
        format == [name |-> Truncated(name), metas |-> new]
        malformed == string.odd \/ count = 0
    IN  /\ NoFileOpen
        /\ Cardinality(used) + count <= MetadataBound
        /\ metadata' = [m \in DOMAIN kept \cup {new[i] : i \in 1 .. count} |->
                          IF \E i \in 1 .. count : new[i] = m
                            THEN string.types[CHOOSE i \in 1 .. count : new[i] = m]
                            ELSE kept[m]]
        /\ formats' = IF at = 0 THEN IF malformed THEN formats ELSE Append(formats, format)
                      ELSE IF malformed THEN Dropped(formats, at)
                      ELSE [formats EXCEPT ![at] = format]
        /\ UNCHANGED <<fields, field_name, active, last_code, userdata, file, answer, shown>>

\* The places of the metadata of a format for which a line has no value or no type is known.
Unparsable(metas, values) ==
    {i \in DOMAIN metas : i > Len(values) \/ metadata[metas[i]] = "error"}

\* The number of values that _parse_field_data gets through.
Parsable(metas, values) ==
    LET bad == Unparsable(metas, values)
    IN  IF bad = {} THEN Len(metas) ELSE (CHOOSE i \in bad : \A j \in bad : i <= j) - 1

\* A value is the token, read as the type of its metadata.
FieldData(metas, values, count) ==
    [i \in 1 .. count |-> [meta |-> metas[i], type |-> metadata[metas[i]], token |-> values[i]]]

\* Mutant: the values parsed before the error stay.
AfterFailureKept(parsed) == parsed

\* parser_parse frees the values that were parsed before an error.
AfterFailure(parsed) == <<>>

\* The callback: it may add user data, and fails or not.
Callback(code) ==
    /\ code \in {"OK", "PARSE_CALLBACK_ERROR"}
    /\ \/ UNCHANGED userdata
       \/ Len(userdata) < UserdataBound /\ userdata' = Append(userdata, "data")

\* parser_parse past the tests for comments and empty lines: _parser_reset first.
ParseData(line, code) ==
    LET at == IF line = NoPair THEN 0 ELSE FormatNamed(Truncated(line.key))
        metas == formats[at].metas
        count == Parsable(metas, line.values)
        data == FieldData(metas, line.values, count)
    IN  \/ /\ at = 0
           /\ code = IF line = NoPair THEN "MALFORMED_KEY_VALUE_PAIR" ELSE "NO_FORMAT_FOUND"
           /\ fields' = <<>> /\ shown' = Nothing
           /\ UNCHANGED <<field_name, userdata>>
        \/ /\ at # 0 /\ count < Len(metas)
           /\ code = IF count < Len(line.values) THEN "UNKNOWN_DATA_TYPE" ELSE "MALFORMED_DATA"
           /\ fields' = AfterFailure(data) /\ shown' = Nothing
           /\ UNCHANGED <<field_name, userdata>>
        \/ /\ at # 0 /\ count = Len(metas)
           /\ fields' = data
           /\ field_name' = formats[at].name
           /\ shown' = [key |-> formats[at].name, values |-> SubSeq(line.values, 1, count)]
           /\ Callback(code)

\* parser_parse.
ParseLine(line, code) ==
    /\ active' = CASE line = Comment -> active
                   [] line = NewLine -> FALSE
                   [] OTHER -> TRUE
    /\ IF line \in {Comment, NewLine}
         THEN code = "NO_OP" /\ UNCHANGED <<fields, field_name, userdata, shown>>
         ELSE ParseData(line, code)
    /\ UNCHANGED <<formats, metadata>>

\* A client calls parser_parse itself: last_code is not written.
Parse(line) ==
    /\ NoFileOpen
    /\ \E code \in Codes : ParseLine(line, code)
    /\ UNCHANGED <<last_code, file, answer>>

\* parser_parse_file opens the file, or not.
OpenFile ==
    /\ NoFileOpen
    /\ file' = [NoFile EXCEPT !.open = TRUE]
    /\ UNCHANGED <<formats, metadata, fields, field_name, active, last_code, userdata, answer,
                   shown>>

OpenFails ==
    /\ NoFileOpen
    /\ last_code' = "FILE_OPEN_FAIL"
    /\ answer' = [NoAnswer EXCEPT !.given = TRUE]
    /\ UNCHANGED <<formats, metadata, fields, field_name, active, userdata, file, shown>>

\* Mutant: an error does not end the loop.
GoesOnAfterErrors(code) == TRUE

\* The loop breaks at the first line that fails.
GoesOn(code) == Succeeded(code)

\* The next line of the file, if there is one.
ReadLine(line) ==
    /\ file.open
    /\ file.read = "nothing" \/ GoesOn(last_code)
    /\ \E code \in Codes :
         /\ ParseLine(line, code)
         /\ last_code' = code
         /\ file' = [file EXCEPT !.read =
                      IF @ # "an error" /\ Succeeded(code) THEN "lines" ELSE "an error"]
    /\ UNCHANGED answer

\* After an error, or at the end of the file.
CloseFile ==
    /\ file.open
    /\ file' = NoFile
    /\ answer' = [success |-> Succeeded(last_code), read |-> file.read,
                  before |-> answer.success, given |-> answer.given \/ file.read # "nothing"]
    /\ UNCHANGED <<formats, metadata, fields, field_name, active, last_code, userdata, shown>>

\* parser_free, and parser_new again: what is left of the metadata has leaked.
Renew ==
    /\ NoFileOpen
    /\ formats' = <<>> /\ fields' = <<>> /\ userdata' = <<>>
    /\ LET freed == UNION {{formats[f].metas[i] : i \in DOMAIN formats[f].metas} :
                           f \in DOMAIN formats}
       IN  metadata' = [m \in DOMAIN metadata \ freed |-> metadata[m]]
    /\ field_name' \in Names
    /\ active' = FALSE
    /\ last_code' \in Codes
    /\ answer' = NoAnswer /\ shown' = Nothing
    /\ UNCHANGED file

ParserNext ==
    \/ \E name \in Names, string \in FormatStrings : Register(name, string)
    \/ \E line \in Lines : Parse(line) \/ ReadLine(line)
    \/ OpenFile \/ OpenFails \/ CloseFile
    \/ Renew

ParserSpec == ParserInit /\ [][ParserNext]_parser_vars

-----------------------------------------------------------------------------
(* Properties.                                                               *)

\* _field_get_value, for the metadata at a place of the format.
FieldNamed(name, place) ==
    IF field_name = name /\ place \in DOMAIN fields THEN fields[place].token ELSE "none"

ParserTypeOK ==
    /\ formats \in Seq([name : Names, metas : Seq(1 .. MetadataBound)])
    /\ DOMAIN metadata \subseteq 1 .. MetadataBound
    /\ \A m \in DOMAIN metadata : metadata[m] \in DataTypes
    /\ field_name \in Names /\ active \in BOOLEAN /\ last_code \in Codes
    /\ userdata \in Seq({"data"}) /\ Len(userdata) <= UserdataBound

\* The getters show all the values of the last line that had its format, under its key and no
\* other, or nothing when the last line had an error (parser.c:478-499): never the first values of
\* a line that failed, or of the line before.  They are read through metadata that are still
\* allocated, whatever was registered since (parser.c:170 and 345).
GettersShowLine ==
    /\ ParserTypeOK
    /\ \A i \in DOMAIN fields : /\ fields[i].meta \in DOMAIN metadata
                                /\ metadata[fields[i].meta] = fields[i].type
    /\ \A name \in Names, place \in 1 .. MetadataBound :
         FieldNamed(name, place) =
           IF name = shown.key /\ place \in DOMAIN shown.values THEN shown.values[place]
           ELSE "none"

\* parser_parse_file answers whether every line it read was parsed, although last_code holds one
\* code only; the exception is an empty file, which answers what the file before it did, or
\* anything when there was none (parser.c:526-569).
FileAnswers ==
    /\ answer.read # "nothing" => answer.success = (answer.read # "an error")
    /\ answer.given /\ answer.read = "nothing" => answer.success = answer.before

=============================================================================

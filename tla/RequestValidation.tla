-------------------------- MODULE RequestValidation --------------------------
(****************************************************************************)
(* application/validation, over the values its validators tell apart: a     *)
(* field is missing, null, '', a text, something else, or a file.           *)
(****************************************************************************)
EXTENDS Naturals

CONSTANTS Missing, Null, Blank, Text, Other,
          MaxSize  \* of a picture

Values == {Missing, Null, Blank, Text, Other}

ASSUME ValuesAssumption == MaxSize \in Nat /\ Values \intersect Nat = {}

Extensions == {"png", "jpg"}

\* A file by its declared type, the length of its buffer and the signature the
\* bytes begin with.  A file of a JSON body may leave out the first two.
Files == [mimeType : Extensions \union {"other", Missing},
          size : 0..(MaxSize + 1) \union {Missing},
          signature : Extensions \union {"other"}]

ASSUME FilesAssumption == Values \intersect Files = {}

Required(value) == value \notin {Missing, Null, Blank}

StringType(value) == value \in {Missing, Null, Blank, Text}

RequiredText(value) == Required(value) /\ StringType(value)

RequiredBuffer(file) == file.size # 0

AllowedMimeTypes(file) == file.mimeType \in Extensions \union {Missing}

MaxFileSize(file) == file.size \in 0..MaxSize \union {Missing}

\* the declared type's, or any allowed one when none is declared
ExpectedSignatures(mimeType) ==
    IF mimeType \in Extensions THEN {mimeType} ELSE Extensions

FileSignature(file) ==
    file.size = Missing \/ file.signature \in ExpectedSignatures(file.mimeType)

Image(file) ==
    RequiredBuffer(file) /\ AllowedMimeTypes(file) /\ MaxFileSize(file) /\ FileSignature(file)

\* SavePictureController: without a file there is nothing to validate
ValidPicture(value) ==
    value = Missing \/ (Required(value) /\ (value \in Files => Image(value)))

\* image() reads a property of the value, whatever required() found
BuildThrows(value) == value = Null
===============================================================================

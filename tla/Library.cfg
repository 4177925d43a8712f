SPECIFICATION Spec
CONSTANTS
 W = 8
 SXDBL_DIG = 4
 SXDBL_MAX_EXP = 2
 JsonDepth = 3
 Widest = 6
 Letters = {"a", "A", "b", " "}
 MaxSearched = 4
 Patterns <- MCPatterns
 Marks <- MCMarks
 MaxEscaped = 4
 Bytes = {0, 7, 43, 65, 127, 128, 195, 233, 255}
 MaxBytes = 4
 Numerals = {"0", "1", "2", "8", "-", ".", "x", "b", "e", " "}
 MaxNumeral = 4
 Operands <- MCOperands
 Documents <- MCDocuments
 Directives <- MCDirectives
 MaxFormat = 9
 Chunk = 3
 EofChunk = 2
 MaxFile = 5
 Paths <- MCPaths
 Homes <- MCHomes
 MaxNodes = 3
 VfsMethods = {"mkdir", "rmdir", "unlink", "rename", "link", "touch", "isdir", "isfile", "islink", "exists", "filetype", "size", "stat", "lstat"}
 Contents <- MCContents
 Written <- MCWritten
 Modes <- MCModes
 Sizes <- MCSizes
 PathMarks = {"/", ".", "a"}
 MaxPath = 5
 Globs <- MCGlobs
 MaxGlob = 6
 Globbed <- MCGlobbed
 MaxLexemes = 2
 MaxChunks = 2
 TwoSided <- MCTwoSided
 OneSided <- MCOneSided
 Assigns = {"=", "+="}
 DeepLeaves <- MCDeepLeaves
INVARIANTS TextAgrees Undone ValuesAgree FormatsAgree FilesAgree SourceRead
CHECK_DEADLOCK FALSE

------------------------------ MODULE Clients ------------------------------
(***************************************************************************)
(* The programs that use the API from outside: the MCP server with its write  *)
(* tool, in the frontend a page that reads, the form that writes and what that *)
(* form makes of a document, and the two halves of the exporter, of which the  *)
(* first reads the API and the other publishes files. They share nothing; which *)
(* of them a behaviour is about is chosen at its start, and the others stay as   *)
(* they are.                                                                  *)
(***************************************************************************)
EXTENDS McpSubmit, Resource, Drafts, ExportSource, ExportWriter, ListingEditor

VARIABLE program

clientVars == <<program, vars, resourceVars, draftVars, editorVars, sourceVars, writerVars>>

(* A program that does not run stays in one initial state. *)
OneOf(p, first) == program = p \/ first

ClientsInit ==
  /\ program \in {"mcp", "page", "form", "editor", "source", "writer"}
  /\ Init /\ OneOf("mcp", limit = CHOOSE l \in Limits : TRUE)
  /\ ResourceInit /\ DraftsInit
  /\ EditorInit /\ OneOf("editor", mode = "create")
  /\ SourceInit /\ OneOf("source", public = {})
  /\ WriterInit

McpNext ==
  program = "mcp" /\ Next
    /\ UNCHANGED <<program, resourceVars, draftVars, editorVars, sourceVars, writerVars>>
PageNext ==
  program = "page" /\ ResourceNext
    /\ UNCHANGED <<program, vars, draftVars, editorVars, sourceVars, writerVars>>
FormNext ==
  program = "form" /\ DraftsNext
    /\ UNCHANGED <<program, vars, resourceVars, editorVars, sourceVars, writerVars>>
EditingNext ==
  program = "editor" /\ EditorNext
    /\ UNCHANGED <<program, vars, resourceVars, draftVars, sourceVars, writerVars>>
ExporterNext ==
  /\ \/ program = "source" /\ SourceNext /\ UNCHANGED writerVars
     \/ program = "writer" /\ WriterNext /\ UNCHANGED sourceVars
  /\ UNCHANGED <<program, vars, resourceVars, draftVars, editorVars>>

ClientsNext == McpNext \/ PageNext \/ FormNext \/ EditingNext \/ ExporterNext

(* Only a call of the MCP server is promised to go on; the others may stop anywhere. *)
ClientsSpec == ClientsInit /\ [][ClientsNext]_clientVars /\ Fairness
=============================================================================

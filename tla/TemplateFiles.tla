--------------------------- MODULE TemplateFiles ---------------------------
(***************************************************************************)
(* The three source files of an email template, as the editor and the      *)
(* store beside it exchange them, and the calls of save between the two.   *)
(***************************************************************************)
EXTENDS Naturals, Sequences

CONSTANTS
  Version,   \* what one file may hold
  Save       \* calls of save for one template

SOURCE_FILES == <<"template.json", "metadata.json", "preview.json">>
File == {SOURCE_FILES[i] : i \in 1 .. 3}
Triple == [File -> Version]
=============================================================================

------------------------------ MODULE Surfaces ------------------------------
(***************************************************************************)
(* What the program offers over its REST API (apps/api/views.py), its MCP  *)
(* server (apps/mcp_server/server.py) and its dashboard and public pages   *)
(* (apps/datasets/views.py): of each endpoint, tool and view who it lets   *)
(* in and the service it hands the request to.  Reading the parameters,    *)
(* the form of the answer and the wording of errors are left out.          *)
(*                                                                         *)
(* An entry says which access level it declares (listed, which an MCP      *)
(* client's token is measured by) and which it asks of the key itself, and *)
(* whether being let in starts the trial.                                  *)
(***************************************************************************)
Entry(surface, listed, level, starts, service) ==
    [surface |-> surface, listed |-> listed, level |-> level,
     starts |-> starts, service |-> service]

(* api_key_auth, api_key_write_auth, api_key_admin_auth, session_auth      *)
ReadKey(service)  == Entry("rest", "read", "read", TRUE, service)
WriteKey(service) == Entry("rest", "read_write", "read_write", TRUE, service)
AdminKey(service) == Entry("rest", "admin", "admin", FALSE, service)
Signed(service)   == Entry("session", "none", "none", FALSE, service)

(* read_tool, write_tool and its destructive and idempotent forms,         *)
(* admin_tool, with the level that the tool's body passes on.              *)
ReadTool(service)  == Entry("mcp", "read", "read", FALSE, service)
WriteTool(service) == Entry("mcp", "read_write", "read_write", TRUE, service)
AdminTool(service) == Entry("mcp", "admin", "admin", FALSE, service)

(* A public page that a session unlocks, one that also takes the password  *)
(* itself, and the public API, which takes it with each request.           *)
Unlocked(service)   == Entry("page", "none", "none", FALSE, service)
Unlocking(service)  == Entry("unlocking_page", "none", "none", FALSE, service)
Public(service)     == Entry("public_api", "none", "none", FALSE, service)

-----------------------------------------------------------------------------
(* REST.                                                                   *)

RestAccount == [
    submit_feedback             |-> Signed("submit_profile_feedback"),
    get_user_info               |-> ReadKey("serialize_user_info"),
    record_activation_milestone |-> WriteKey("record_profile_activation_milestone"),
    submit_agent_feedback       |-> WriteKey("submit_profile_feedback")]

RestKeys == [
    search_rows          |-> ReadKey("search_profile_rows"),
    create_agent_api_key |-> AdminKey("create_agent_api_key"),
    user_settings        |-> Signed("user_settings")]

RestProjects == [
    list_projects          |-> ReadKey("search_profile_projects"),
    create_project         |-> WriteKey("create_profile_project"),
    get_project            |-> ReadKey("serialize_profile_project_detail"),
    patch_project          |-> WriteKey("update_profile_project"),
    patch_project_metadata |-> WriteKey("update_profile_project_metadata"),
    list_project_sections  |-> ReadKey("serialize_profile_project_sections")]

RestSections == [
    create_project_section  |-> WriteKey("create_profile_project_section"),
    patch_project_section   |-> WriteKey("update_profile_project_section"),
    archive_project_section |-> WriteKey("archive_profile_project_section"),
    archive_project         |-> WriteKey("archive_profile_project")]

RestDatasets == [
    list_datasets          |-> ReadKey("search_profile_datasets"),
    list_archived_datasets |-> ReadKey("serialize_profile_archived_datasets"),
    create_dataset         |-> WriteKey("create_profile_dataset")]

RestPublic == [
    get_public_dataset_metadata |-> Public("serialize_public_dataset_summary"),
    list_public_rows            |-> Public("list_public_dataset_rows")]

RestDataset == [
    get_dataset            |-> ReadKey("serialize_dataset_detail"),
    patch_dataset_metadata |-> WriteKey("update_profile_dataset_metadata"),
    archive_dataset        |-> WriteKey("archive_profile_dataset"),
    restore_dataset        |-> WriteKey("restore_profile_dataset"),
    patch_dataset_column_types |-> WriteKey("update_profile_dataset_column_types")]

RestColumns == [
    add_dataset_column      |-> WriteKey("add_profile_dataset_column"),
    rename_dataset_column   |-> WriteKey("rename_profile_dataset_column"),
    drop_dataset_column     |-> WriteKey("drop_profile_dataset_column"),
    reorder_dataset_columns |-> WriteKey("reorder_profile_dataset_columns"),
    patch_dataset_project   |-> WriteKey("update_profile_dataset_project")]

RestRelationships == [
    list_dataset_relationships   |-> ReadKey("list_profile_dataset_relationships"),
    create_dataset_relationship  |-> WriteKey("create_profile_dataset_relationship"),
    resolve_dataset_relationship |-> ReadKey("resolve_profile_dataset_relationship"),
    delete_dataset_relationship  |-> WriteKey("delete_profile_dataset_relationship"),
    patch_dataset_public_preview |-> WriteKey("update_profile_dataset_public_preview")]

RestRowLists == [
    list_dataset_rows   |-> ReadKey("list_profile_dataset_rows"),
    search_dataset_rows |-> ReadKey("search_profile_dataset_rows"),
    create_dataset_row  |-> WriteKey("create_profile_dataset_row")]

RestAssets == [
    attach_dataset_row_image_by_index |-> WriteKey("attach_profile_dataset_image_asset"),
    attach_dataset_row_image          |-> WriteKey("attach_profile_dataset_image_asset"),
    attach_dataset_row_audio_by_index |-> WriteKey("attach_profile_dataset_audio_asset"),
    attach_dataset_row_audio          |-> WriteKey("attach_profile_dataset_audio_asset"),
    get_dataset_asset_metadata        |-> ReadKey("serialize_profile_dataset_asset"),
    get_dataset_asset_content         |-> ReadKey("get_profile_dataset_asset")]

RestRow == [
    get_dataset_row_by_index   |-> ReadKey("get_profile_dataset_row_by_index"),
    patch_dataset_row_by_index |-> WriteKey("patch_profile_dataset_row_by_index"),
    get_dataset_row            |-> ReadKey("get_profile_dataset_row"),
    patch_dataset_row          |-> WriteKey("patch_profile_dataset_row"),
    delete_dataset_row         |-> WriteKey("delete_profile_dataset_row")]

(* export_dataset_csv and its three siblings.                              *)
RestExports == [
    export_dataset |-> ReadKey("get_profile_dataset")]

-----------------------------------------------------------------------------
(* MCP.                                                                    *)

McpAccount == [
    get_user_info               |-> ReadTool("serialize_user_info"),
    record_activation_milestone |-> WriteTool("record_profile_activation_milestone"),
    create_agent_api_key        |-> AdminTool("create_agent_api_key")]

McpHelp == [
    get_rowset_capabilities |-> ReadTool("rowset_capabilities_payload"),
    submit_feedback         |-> WriteTool("submit_profile_feedback")]

McpDatasets == [
    get_all_datasets      |-> ReadTool("serialize_profile_datasets"),
    get_archived_datasets |-> ReadTool("serialize_profile_archived_datasets"),
    search_datasets       |-> ReadTool("search_profile_datasets"),
    get_dataset           |-> ReadTool("serialize_dataset_detail")]

McpProjects == [
    get_all_projects     |-> ReadTool("serialize_profile_projects"),
    search_projects      |-> ReadTool("search_profile_projects"),
    create_project       |-> WriteTool("create_profile_project"),
    get_project_sections |-> ReadTool("serialize_profile_project_sections")]

McpProject == [
    create_project_section  |-> WriteTool("create_profile_project_section"),
    get_project             |-> ReadTool("serialize_profile_project_detail"),
    update_project          |-> WriteTool("update_profile_project"),
    update_project_metadata |-> WriteTool("update_profile_project_metadata")]

McpSections == [
    update_project_section  |-> WriteTool("update_profile_project_section"),
    archive_project_section |-> WriteTool("archive_profile_project_section"),
    archive_project         |-> WriteTool("archive_profile_project")]

McpCreateDataset == [
    create_dataset |-> WriteTool("create_profile_dataset")]

McpSettings == [
    update_dataset_metadata     |-> WriteTool("update_profile_dataset_metadata"),
    update_dataset_column_types |-> WriteTool("update_profile_dataset_column_types")]

McpColumns == [
    add_column      |-> WriteTool("add_profile_dataset_column"),
    rename_column   |-> WriteTool("rename_profile_dataset_column"),
    drop_column     |-> WriteTool("drop_profile_dataset_column"),
    reorder_columns |-> WriteTool("reorder_profile_dataset_columns")]

McpRelationships == [
    update_dataset_project       |-> WriteTool("update_profile_dataset_project"),
    list_dataset_relationships   |-> ReadTool("list_profile_dataset_relationships"),
    create_dataset_relationship  |-> WriteTool("create_profile_dataset_relationship"),
    resolve_dataset_relationship |-> ReadTool("resolve_profile_dataset_relationship")]

McpDataset == [
    delete_dataset_relationship   |-> WriteTool("delete_profile_dataset_relationship"),
    update_dataset_public_preview |-> WriteTool("update_profile_dataset_public_preview"),
    archive_dataset               |-> WriteTool("archive_profile_dataset"),
    restore_dataset               |-> WriteTool("restore_profile_dataset")]

(* Fault: searching rows is declared as a tool that writes.                *)
McpRowListsForWriters == [
    list_dataset_rows |-> ReadTool("list_profile_dataset_rows"),
    search_rows       |-> WriteTool("search_profile_rows")]

McpRowLists == [
    list_dataset_rows |-> ReadTool("list_profile_dataset_rows"),
    search_rows       |-> ReadTool("search_profile_rows")]

McpRows == [
    search_dataset_rows      |-> ReadTool("search_profile_dataset_rows"),
    get_dataset_row          |-> ReadTool("get_profile_dataset_row"),
    get_dataset_row_by_index |-> ReadTool("get_profile_dataset_row_by_index"),
    create_dataset_row       |-> WriteTool("create_profile_dataset_row")]

McpAssets == [
    attach_image_to_dataset_row |-> WriteTool("attach_profile_dataset_image_asset"),
    get_dataset_image_asset     |-> ReadTool("serialize_profile_dataset_asset"),
    attach_audio_to_dataset_row |-> WriteTool("attach_profile_dataset_audio_asset")]

McpRow == [
    get_dataset_audio_asset     |-> ReadTool("serialize_profile_dataset_asset"),
    update_dataset_row          |-> WriteTool("patch_profile_dataset_row"),
    update_dataset_row_by_index |-> WriteTool("patch_profile_dataset_row_by_index"),
    delete_dataset_row          |-> WriteTool("delete_profile_dataset_row")]

-----------------------------------------------------------------------------
(* The dashboard, whose every view asks for a signed-in user.              *)

RowViews == [
    dataset_row_create       |-> Signed("create_profile_dataset_row"),
    dataset_row_detail       |-> Signed("patch_profile_dataset_row"),
    dataset_rows_bulk_action |-> Signed("delete_profile_dataset_rows")]

ProjectViews == [
    project_create          |-> Signed("create_profile_project"),
    project_section_create  |-> Signed("create_profile_project_section"),
    project_section_delete  |-> Signed("archive_profile_project_section"),
    project_update          |-> Signed("update_profile_project"),
    project_update_metadata |-> Signed("update_profile_project_metadata")]

DatasetViews == [
    project_delete                 |-> Signed("_delete_project"),
    dataset_update_public_settings |-> Signed("update_profile_dataset_public_preview"),
    dataset_update_project         |-> Signed("update_profile_dataset_project"),
    dataset_create_relationship    |-> Signed("create_profile_dataset_relationship"),
    dataset_delete_relationship    |-> Signed("delete_profile_dataset_relationship"),
    dataset_create_relationship_count_column |-> Signed("add_profile_dataset_column")]

ColumnViews == [
    dataset_upsert_formula_column  |-> Signed("add_profile_dataset_column"),
    dataset_update_metadata        |-> Signed("update_profile_dataset_metadata"),
    dataset_update_column_settings |-> Signed("update_profile_dataset_column_types")]

ArchiveViews == [
    dataset_archive       |-> Signed("archive_profile_dataset"),
    dataset_restore       |-> Signed("restore_profile_dataset"),
    dataset_delete        |-> Signed("_delete_dataset"),
    dataset_export        |-> Signed("get_profile_dataset"),
    dataset_asset_content |-> Signed("get_profile_dataset_asset")]

KeyViews == [
    create_agent_api_key_view |-> Signed("create_agent_api_key")]

(* The pages of a public preview.                                          *)
PreviewPage == [
    public_dataset        |-> Unlocking("list_public_dataset_rows"),
    public_dataset_export |-> Unlocked("get_public_dataset")]

PreviewPages == [
    public_dataset_markdown      |-> Unlocked("get_public_dataset"),
    public_dataset_row_detail    |-> Unlocking("get_public_dataset_row"),
    public_dataset_asset_content |-> Unlocked("get_public_dataset_asset")]

-----------------------------------------------------------------------------
Entries(table) == {table[e] : e \in DOMAIN table}

Rest == UNION {Entries(t) : t \in {RestAccount, RestKeys, RestProjects, RestSections,
    RestDatasets, RestPublic, RestDataset, RestColumns, RestRelationships,
    RestRowLists, RestAssets, RestRow, RestExports}}

Mcp == UNION {Entries(t) : t \in {McpAccount, McpHelp, McpDatasets, McpProjects, McpProject,
    McpSections, McpCreateDataset, McpSettings, McpColumns, McpRelationships,
    McpDataset, McpRowLists, McpRows, McpAssets, McpRow}}

Pages == UNION {Entries(t) : t \in {RowViews, ProjectViews, DatasetViews, ColumnViews,
    ArchiveViews, KeyViews, PreviewPage, PreviewPages}}

Offered == Rest \cup Mcp \cup Pages
WithKey == {e \in Offered : e.surface \in {"rest", "mcp"}}
ForOwner == {e \in Offered : e.surface = "session"}
WithoutKey == Offered \ (WithKey \cup ForOwner)

(* The services that save nothing.                                         *)
ReadingServices == {
    "serialize_user_info", "user_settings", "rowset_capabilities_payload",
    "search_profile_rows", "search_profile_dataset_rows", "search_profile_projects",
    "serialize_profile_projects", "serialize_profile_project_detail",
    "serialize_profile_project_sections", "search_profile_datasets",
    "serialize_profile_datasets", "serialize_profile_archived_datasets",
    "serialize_dataset_detail", "list_profile_dataset_relationships",
    "resolve_profile_dataset_relationship", "list_profile_dataset_rows",
    "get_profile_dataset", "get_profile_dataset_asset", "serialize_profile_dataset_asset",
    "get_profile_dataset_row", "get_profile_dataset_row_by_index",
    "serialize_public_dataset_summary", "list_public_dataset_rows", "get_public_dataset",
    "get_public_dataset_row", "get_public_dataset_asset"}

(* What a service does, as far as keys and public previews go.             *)
Does(service) ==
    CASE service = "create_agent_api_key" -> "make_key"
      [] service = "update_profile_dataset_public_preview" -> "share"
      [] service = "archive_profile_dataset" -> "archive"
      [] service = "restore_profile_dataset" -> "restore"
      [] service = "_delete_dataset" -> "delete"
      [] service \in ReadingServices -> "read"
      [] OTHER -> "change"
=============================================================================

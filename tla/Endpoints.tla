------------------------------ MODULE Endpoints ------------------------------
(* Every endpoint method of src/graphann/client.py.                        *)
EXTENDS Calls

Health == {Read("health"), Read("ready")}

Tenants ==
  {CachedRead("list_tenants"), Write("create_tenant", "POST"),
   CachedRead("get_tenant"), Write("delete_tenant", "DELETE")}

Indexes ==
  {CachedRead("list_indexes"), Write("create_index", "POST"),
   CachedRead("get_index"), Write("update_index", "PATCH"),
   Write("delete_index", "DELETE"), Read("get_index_status"),
   Read("get_live_stats")}

IndexMaintenance ==
  {Write(name, "POST") :
     name \in {"compact_index", "compact_all_indexes", "flush_index",
               "rebuild_graph", "clear_index"}}

PendingDocuments ==
  {Write("add_documents", "POST"), Write("import_documents", "POST"),
   Read("get_pending_status"), Write("process_pending", "POST"),
   Write("clear_pending", "DELETE")}

Documents ==
  {Read("get_document"), Write("delete_document", "DELETE"),
   QueryRead("list_documents"), Write("bulk_delete_documents", "DELETE"),
   Write("bulk_delete_by_external_ids", "DELETE"),
   [Write("cleanup_orphans", "POST") EXCEPT !.params = TRUE],
   Write("run_index_gc", "POST"), Write("run_admin_gc", "POST")}

Chunks == {Read("get_chunk"), Write("delete_chunks", "DELETE")}

\* search() is search_full() without the envelope.
Search == Searches("search_full")

BatchSearch == {[Call("batch_search", "POST") EXCEPT !.readOnly = TRUE]}

Resources == {Write("upsert_resource", "PUT")}

Organisations ==
  {Write("sync_documents", "POST"), CachedRead("list_user_indexes"),
   CachedRead("list_shared_indexes")} \cup Searches("multi_search")

ModelsAndJobs ==
  {Write("switch_embedding_model", "PATCH"), Read("get_job"),
   QueryRead("list_jobs")}

Cluster ==
  {CachedRead("get_cluster_nodes"), CachedRead("get_cluster_shards"),
   Read("get_cluster_health")}

LLMSettings ==
  {CachedRead("get_llm_settings"), Write("update_llm_settings", "PATCH"),
   Write("delete_llm_settings", "DELETE")}

ApiKeys ==
  {Write("create_api_key", "POST"), CachedRead("list_api_keys"),
   Write("revoke_api_key", "DELETE")}

LicenseAndAdmin ==
  {Read("get_license_status"), QueryRead("get_license_audit"),
   Read("get_embed_space_admin")}

Backups ==
  {Write("create_backup", "POST"), CachedRead("list_backups"),
   Write("restore_backup", "POST"), Write("delete_backup", "DELETE")}

AllEndpoints ==
  Health \cup Tenants \cup Indexes \cup IndexMaintenance
  \cup PendingDocuments \cup Documents \cup Chunks \cup Search
  \cup BatchSearch \cup Resources \cup Organisations \cup ModelsAndJobs
  \cup Cluster \cup LLMSettings \cup ApiKeys \cup LicenseAndAdmin \cup Backups
=============================================================================

--------------------------- MODULE AsyncEndpoints ---------------------------
(* Every endpoint method of src/graphann/async_client.py.                  *)
EXTENDS Calls

Health == {Read("health"), Read("ready")}

Tenants ==
  {CachedRead("list_tenants"), CachedRead("get_tenant"),
   Write("create_tenant", "POST"), Write("delete_tenant", "DELETE")}

Indexes ==
  {CachedRead("list_indexes"), CachedRead("get_index"),
   Read("get_index_status"), Read("get_live_stats"),
   Write("create_index", "POST"), Write("update_index", "PATCH"),
   Write("delete_index", "DELETE")}

IndexMaintenance ==
  {Write(name, "POST") :
     name \in {"compact_index", "compact_all_indexes", "flush_index",
               "rebuild_graph", "clear_index"}}

PendingDocuments ==
  {Read("get_pending_status"), Write("clear_pending", "DELETE")}
  \cup {Write(name, "POST") :
          name \in {"add_documents", "import_documents", "process_pending"}}

Documents ==
  {Read("get_document"), QueryRead("list_documents"),
   [Write("cleanup_orphans", "POST") EXCEPT !.params = TRUE],
   Write("run_index_gc", "POST"), Write("run_admin_gc", "POST")}
  \cup {Write(name, "DELETE") :
          name \in {"delete_document", "bulk_delete_documents",
                    "bulk_delete_by_external_ids"}}

Chunks == {Read("get_chunk"), Write("delete_chunks", "DELETE")}

\* search() awaits search_full() and drops the envelope.
Search == Searches("search_full")

BatchSearch == {[Call("batch_search", "POST") EXCEPT !.readOnly = TRUE]}

Resources == {Write("upsert_resource", "PUT")}

Organisations ==
  Searches("multi_search")
  \cup {Write("sync_documents", "POST"), CachedRead("list_user_indexes"),
        CachedRead("list_shared_indexes")}

ModelsAndJobs ==
  {Write("switch_embedding_model", "PATCH"), Read("get_job"),
   QueryRead("list_jobs")}

Cluster ==
  {CachedRead("get_cluster_nodes"), CachedRead("get_cluster_shards"),
   Read("get_cluster_health")}

LLMSettings ==
  {CachedRead("get_llm_settings"), Write("update_llm_settings", "PATCH"),
   Write("delete_llm_settings", "DELETE")}

ApiKeys ==
  {CachedRead("list_api_keys"), Write("create_api_key", "POST"),
   Write("revoke_api_key", "DELETE")}

LicenseAndAdmin ==
  {Read("get_license_status"), QueryRead("get_license_audit"),
   Read("get_embed_space_admin")}

Backups ==
  {CachedRead("list_backups"), Write("create_backup", "POST"),
   Write("restore_backup", "POST"), Write("delete_backup", "DELETE")}

AllEndpoints ==
  Health \cup Tenants \cup Indexes \cup IndexMaintenance
  \cup PendingDocuments \cup Documents \cup Chunks \cup Search
  \cup BatchSearch \cup Resources \cup Organisations \cup ModelsAndJobs
  \cup Cluster \cup LLMSettings \cup ApiKeys \cup LicenseAndAdmin \cup Backups
=============================================================================

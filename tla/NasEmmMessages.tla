--------------------------- MODULE NasEmmMessages --------------------------
(***************************************************************************)
(* The mobility management messages of 24.301 section 8.2.                 *)
(* One layout per function of liblte_mme.cc, named without the prefix      *)
(* liblte_mme_.                                                            *)
(***************************************************************************)
EXTENDS NasEsmIes

(* The security header of a protected message.  The integrity code is      *)
(* filled in by the caller; the unpack functions skip the header and the   *)
(* plain header inside it.                                                 *)
SecurityHeader ==
  When(Isnt("sec_hdr_type", 0),
    <<Fld("sec_hdr_type", 4), Fill(7, 4), Fill(0, 32), Fld("count", 8)>>)
SkipHeader ==
  <<Look("sec_hdr_type", 0, 4), Case(Off("sec_hdr_type"), <<Skip(8)>>, <<Skip(56)>>), Skip(8)>>

(* The protocol discriminator and the type of a received message.          *)
parse_msg_header ==
  <<Look("sec_hdr_type", 0, 4), Look("pd", 4, 4),
    Case(Is("sec_hdr_type", 12), <<Put("msg_type", 12)>>,
      <<Case(Is("pd", 2), <<Look("msg_type", 16, 8)>>,
          <<Case(Off("sec_hdr_type"), <<Look("msg_type", 8, 8)>>,
              <<Look("pd", 52, 4),
                Case(Is("pd", 2), <<Look("msg_type", 64, 8)>>, <<Look("msg_type", 56, 8)>>)>>)>>)>>)>>

pack_security_protected_nas_msg ==
  <<SecurityHeader, Each("N_bytes", "msg", <<Fld("", 8)>>)>>

pack_attach_accept_msg ==
  <<SecurityHeader, Fill(7, 8), Fill(66, 8), Fill(0, 4),
    Sub("eps_attach_result", pack_eps_attach_result_ie), Sub("t3412", pack_gprs_timer_ie),
    Sub("tai_list", pack_tracking_area_identity_list_ie),
    Sub("esm_msg", pack_esm_message_container_ie),
    PutTagged("guti_present", 8, 80, <<Sub("guti", pack_eps_mobile_id_ie)>>),
    PutTagged("lai_present", 8, 19, <<Sub("lai", pack_location_area_id_ie)>>),
    PutTagged("ms_id_present", 8, 35, <<Sub("ms_id", pack_mobile_id_ie)>>),
    PutTagged("emm_cause_present", 8, 83, <<Sub("emm_cause", pack_emm_cause_ie)>>),
    PutTagged("t3402_present", 8, 23, <<Sub("t3402", pack_gprs_timer_ie)>>),
    PutTagged("t3423_present", 8, 89, <<Sub("t3423", pack_gprs_timer_ie)>>),
    PutTagged("equivalent_plmns_present", 8, 74, <<Sub("equivalent_plmns", pack_plmn_list_ie)>>),
    PutTagged("emerg_num_list_present", 8, 52,
      <<Sub("emerg_num_list", pack_emergency_number_list_ie)>>),
    PutTagged("eps_network_feature_support_present", 8, 100,
      <<Sub("eps_network_feature_support", pack_eps_network_feature_support_ie)>>),
    PutTagged("additional_update_result_present", 4, 15,
      <<Sub("additional_update_result", pack_additional_update_result_ie)>>),
    PutTagged("t3412_ext_present", 8, 94, <<Sub("t3412_ext", pack_gprs_timer_3_ie)>>)>>

unpack_attach_accept_msg ==
  SkipHeader \o
  <<Skip(4), Sub("eps_attach_result", unpack_eps_attach_result_ie), Sub("t3412", unpack_gprs_timer_ie),
    Sub("tai_list", unpack_tracking_area_identity_list_ie),
    Sub("esm_msg", unpack_esm_message_container_ie),
    GetTagged("guti_present", 8, 80, <<Sub("guti", unpack_eps_mobile_id_ie)>>),
    GetTagged("lai_present", 8, 19, <<Sub("lai", unpack_location_area_id_ie)>>),
    GetTagged("ms_id_present", 8, 35, <<Sub("ms_id", unpack_mobile_id_ie)>>),
    GetTagged("emm_cause_present", 8, 83, <<Sub("emm_cause", unpack_emm_cause_ie)>>),
    GetTagged("t3402_present", 8, 23, <<Sub("t3402", unpack_gprs_timer_ie)>>),
    GetTagged("t3423_present", 8, 89, <<Sub("t3423", unpack_gprs_timer_ie)>>),
    GetTagged("equivalent_plmns_present", 8, 74, <<Sub("equivalent_plmns", unpack_plmn_list_ie)>>),
    GetTagged("emerg_num_list_present", 8, 52,
      <<Sub("emerg_num_list", unpack_emergency_number_list_ie)>>),
    GetTagged("eps_network_feature_support_present", 8, 100,
      <<Sub("eps_network_feature_support", unpack_eps_network_feature_support_ie)>>),
    GetTagged("additional_update_result_present", 4, 15,
      <<Sub("additional_update_result", unpack_additional_update_result_ie)>>),
    GetTagged("t3412_ext_present", 8, 94, <<Sub("t3412_ext", unpack_gprs_timer_3_ie)>>)>>

pack_attach_complete_msg ==
  <<SecurityHeader, Fill(7, 8), Fill(67, 8), Sub("esm_msg", pack_esm_message_container_ie)>>

unpack_attach_complete_msg == SkipHeader \o <<Sub("esm_msg", unpack_esm_message_container_ie)>>

pack_attach_reject_msg ==
  <<Fill(7, 8), Fill(68, 8), Sub("emm_cause", pack_emm_cause_ie),
    PutTagged("esm_msg_present", 8, 120, <<Sub("esm_msg", pack_esm_message_container_ie)>>),
    PutTagged("t3446_value_present", 8, 95, <<Sub("t3446_value", pack_gprs_timer_2_ie)>>)>>

unpack_attach_reject_msg ==
  SkipHeader \o
  <<Sub("emm_cause", unpack_emm_cause_ie),
    GetTagged("esm_msg_present", 8, 120, <<Sub("esm_msg", unpack_esm_message_container_ie)>>),
    GetTagged("t3446_value_present", 8, 95, <<Sub("t3446_value", unpack_gprs_timer_2_ie)>>)>>

pack_attach_request_msg ==
  <<Fill(7, 8), Fill(65, 8), Sub("nas_ksi", pack_nas_key_set_id_ie),
    Sub("eps_attach_type", pack_eps_attach_type_ie), Sub("eps_mobile_id", pack_eps_mobile_id_ie),
    Sub("ue_network_cap", pack_ue_network_capability_ie),
    Sub("esm_msg", pack_esm_message_container_ie),
    PutTagged("old_p_tmsi_signature_present", 8, 25,
      <<Sub("old_p_tmsi_signature", pack_p_tmsi_signature_ie)>>),
    PutTagged("additional_guti_present", 8, 80, <<Sub("additional_guti", pack_eps_mobile_id_ie)>>),
    PutTagged("last_visited_registered_tai_present", 8, 82,
      <<Sub("last_visited_registered_tai", pack_tracking_area_id_ie)>>),
    PutTagged("drx_param_present", 8, 92, <<Sub("drx_param", pack_drx_parameter_ie)>>),
    PutTagged("ms_network_cap_present", 8, 49,
      <<Sub("ms_network_cap", pack_ms_network_capability_ie)>>),
    PutTagged("old_lai_present", 8, 19, <<Sub("old_lai", pack_location_area_id_ie)>>),
    PutTagged("tmsi_status_present", 4, 9, <<Sub("tmsi_status", pack_tmsi_status_ie)>>),
    PutTagged("ms_cm2_present", 8, 17, <<Sub("ms_cm2", pack_mobile_station_classmark_2_ie)>>),
    PutTagged("ms_cm3_present", 8, 32, <<Sub("ms_cm3", pack_mobile_station_classmark_3_ie)>>),
    PutTagged("supported_codecs_present", 8, 64,
      <<Sub("supported_codecs", pack_supported_codec_list_ie)>>),
    PutTagged("additional_update_type_present", 4, 15,
      <<Sub("additional_update_type", pack_additional_update_type_ie)>>),
    PutTagged("voice_domain_pref_and_ue_usage_setting_present", 8, 93,
      <<Sub("voice_domain_pref_and_ue_usage_setting", pack_voice_domain_pref_and_ue_usage_setting_ie)>>),
    PutTagged("device_properties_present", 4, 13,
      <<Sub("device_properties", pack_device_properties_ie)>>),
    PutTagged("old_guti_type_present", 4, 14, <<Sub("old_guti_type", pack_guti_type_ie)>>)>>

unpack_attach_request_msg ==
  SkipHeader \o
  <<Sub("nas_ksi", unpack_nas_key_set_id_ie), Sub("eps_attach_type", unpack_eps_attach_type_ie),
    Sub("eps_mobile_id", unpack_eps_mobile_id_ie),
    Sub("ue_network_cap", unpack_ue_network_capability_ie),
    Sub("esm_msg", unpack_esm_message_container_ie),
    GetTagged("old_p_tmsi_signature_present", 8, 25,
      <<Sub("old_p_tmsi_signature", unpack_p_tmsi_signature_ie)>>),
    GetTagged("additional_guti_present", 8, 80, <<Sub("additional_guti", unpack_eps_mobile_id_ie)>>),
    GetTagged("last_visited_registered_tai_present", 8, 82,
      <<Sub("last_visited_registered_tai", unpack_tracking_area_id_ie)>>),
    GetTagged("drx_param_present", 8, 92, <<Sub("drx_param", unpack_drx_parameter_ie)>>),
    GetTagged("ms_network_cap_present", 8, 49,
      <<Sub("ms_network_cap", unpack_ms_network_capability_ie)>>),
    GetTagged("old_lai_present", 8, 19, <<Sub("old_lai", unpack_location_area_id_ie)>>),
    GetTagged("tmsi_status_present", 4, 9, <<Sub("tmsi_status", unpack_tmsi_status_ie)>>),
    GetTagged("ms_cm2_present", 8, 17, <<Sub("ms_cm2", unpack_mobile_station_classmark_2_ie)>>),
    GetTagged("ms_cm3_present", 8, 32, <<Sub("ms_cm3", unpack_mobile_station_classmark_3_ie)>>),
    GetTagged("supported_codecs_present", 8, 64,
      <<Sub("supported_codecs", unpack_supported_codec_list_ie)>>),
    GetTagged("additional_update_type_present", 4, 15,
      <<Sub("additional_update_type", unpack_additional_update_type_ie)>>),
    GetTagged("voice_domain_pref_and_ue_usage_setting_present", 8, 93,
      <<Sub("voice_domain_pref_and_ue_usage_setting", unpack_voice_domain_pref_and_ue_usage_setting_ie)>>),
    GetTagged("device_properties_present", 4, 13,
      <<Sub("device_properties", unpack_device_properties_ie)>>),
    GetTagged("old_guti_type_present", 4, 14, <<Sub("old_guti_type", unpack_guti_type_ie)>>)>>

pack_authentication_failure_msg ==
  <<Fill(7, 8), Fill(92, 8), Sub("emm_cause", pack_emm_cause_ie),
    PutTagged("auth_fail_param_present", 8, 48,
      <<Sub("auth_fail_param", pack_authentication_failure_parameter_ie)>>)>>

unpack_authentication_failure_msg ==
  SkipHeader \o
  <<Sub("emm_cause", unpack_emm_cause_ie),
    GetTagged("auth_fail_param_present", 8, 48,
      <<Sub("auth_fail_param", unpack_authentication_failure_parameter_ie)>>)>>

pack_authentication_reject_msg == <<Fill(7, 8), Fill(84, 8)>>

unpack_authentication_reject_msg == SkipHeader

pack_authentication_request_msg ==
  <<Fill(7, 8), Fill(82, 8), Fill(0, 4), Sub("nas_ksi", pack_nas_key_set_id_ie),
    Sub("rand", pack_authentication_parameter_rand_ie),
    Sub("autn", pack_authentication_parameter_autn_ie)>>

unpack_authentication_request_msg ==
  SkipHeader \o
  <<Skip(4), Sub("nas_ksi", unpack_nas_key_set_id_ie), Sub("rand", unpack_authentication_parameter_rand_ie),
    Sub("autn", unpack_authentication_parameter_autn_ie)>>

pack_authentication_response_msg ==
  <<Fill(7, 8), Fill(83, 8), Sub("res", pack_authentication_response_parameter_ie)>>

unpack_authentication_response_msg ==
  SkipHeader \o
  <<Sub("res", unpack_authentication_response_parameter_ie)>>

pack_detach_accept_msg == <<SecurityHeader, Fill(7, 8), Fill(70, 8)>>

unpack_detach_accept_msg == SkipHeader

pack_detach_request_msg ==
  <<SecurityHeader, Fill(7, 8), Fill(69, 8), Sub("nas_ksi", pack_nas_key_set_id_ie),
    Sub("detach_type", pack_detach_type_ie), Sub("eps_mobile_id", pack_eps_mobile_id_ie)>>

unpack_detach_request_msg ==
  SkipHeader \o
  <<Sub("nas_ksi", unpack_nas_key_set_id_ie), Sub("detach_type", unpack_detach_type_ie),
    Sub("eps_mobile_id", unpack_eps_mobile_id_ie)>>

pack_downlink_nas_transport_msg ==
  <<SecurityHeader, Fill(7, 8), Fill(98, 8), Sub("nas_msg", pack_nas_message_container_ie)>>

unpack_downlink_nas_transport_msg ==
  SkipHeader \o
  <<Sub("nas_msg", unpack_nas_message_container_ie)>>

pack_emm_information_msg ==
  <<SecurityHeader, Fill(7, 8), Fill(97, 8),
    PutTagged("full_net_name_present", 8, 67, <<Sub("full_net_name", pack_network_name_ie)>>),
    PutTagged("short_net_name_present", 8, 69, <<Sub("short_net_name", pack_network_name_ie)>>),
    PutTagged("local_time_zone_present", 8, 70, <<Sub("local_time_zone", pack_time_zone_ie)>>),
    PutTagged("utc_and_local_time_zone_present", 8, 71,
      <<Sub("utc_and_local_time_zone", pack_time_zone_and_time_ie)>>),
    PutTagged("net_dst_present", 8, 73, <<Sub("net_dst", pack_daylight_saving_time_ie)>>)>>

unpack_emm_information_msg ==
  SkipHeader \o
  <<GetTagged("full_net_name_present", 8, 67, <<Sub("full_net_name", unpack_network_name_ie)>>),
    GetTagged("short_net_name_present", 8, 69, <<Sub("short_net_name", unpack_network_name_ie)>>),
    GetTagged("local_time_zone_present", 8, 70, <<Sub("local_time_zone", unpack_time_zone_ie)>>),
    GetTagged("utc_and_local_time_zone_present", 8, 71,
      <<Sub("utc_and_local_time_zone", unpack_time_zone_and_time_ie)>>),
    GetTagged("net_dst_present", 8, 73, <<Sub("net_dst", unpack_daylight_saving_time_ie)>>)>>

pack_emm_status_msg ==
  <<SecurityHeader, Fill(7, 8), Fill(96, 8), Sub("emm_cause", pack_emm_cause_ie)>>

unpack_emm_status_msg == SkipHeader \o <<Sub("emm_cause", unpack_emm_cause_ie)>>

pack_extended_service_request_msg ==
  <<SecurityHeader, Fill(7, 8), Fill(76, 8), Sub("nas_ksi", pack_nas_key_set_id_ie),
    Sub("service_type", pack_service_type_ie), Sub("m_tmsi", pack_mobile_id_ie),
    PutTagged("csfb_resp_present", 4, 11, <<Sub("csfb_resp", pack_csfb_response_ie)>>),
    PutTagged("eps_bearer_context_status_present", 8, 87,
      <<Sub("eps_bearer_context_status", pack_eps_bearer_context_status_ie)>>),
    PutTagged("device_props_present", 4, 13, <<Sub("device_props", pack_device_properties_ie)>>)>>

unpack_extended_service_request_msg ==
  SkipHeader \o
  <<Sub("nas_ksi", unpack_nas_key_set_id_ie), Sub("service_type", unpack_service_type_ie),
    Sub("m_tmsi", unpack_mobile_id_ie),
    GetTagged("csfb_resp_present", 4, 11, <<Sub("csfb_resp", unpack_csfb_response_ie)>>),
    GetTagged("eps_bearer_context_status_present", 8, 87,
      <<Sub("eps_bearer_context_status", unpack_eps_bearer_context_status_ie)>>),
    GetTagged("device_props_present", 4, 13, <<Sub("device_props", unpack_device_properties_ie)>>)>>

pack_guti_reallocation_command_msg ==
  <<SecurityHeader, Fill(7, 8), Fill(80, 8), Sub("guti", pack_eps_mobile_id_ie),
    PutTagged("tai_list_present", 8, 84, <<Sub("tai_list", pack_tracking_area_identity_list_ie)>>)>>

unpack_guti_reallocation_command_msg ==
  SkipHeader \o
  <<Sub("guti", unpack_eps_mobile_id_ie),
    GetTagged("tai_list_present", 8, 84, <<Sub("tai_list", unpack_tracking_area_identity_list_ie)>>)>>

pack_guti_reallocation_complete_msg == <<SecurityHeader, Fill(7, 8), Fill(81, 8)>>

unpack_guti_reallocation_complete_msg == SkipHeader

pack_identity_request_msg ==
  <<Fill(7, 8), Fill(85, 8), Fill(0, 4), Sub("id_type", pack_identity_type_2_ie)>>

unpack_identity_request_msg ==
  SkipHeader \o
  <<Skip(4), Sub("id_type", unpack_identity_type_2_ie), Skip(8)>>

pack_identity_response_msg == <<Fill(7, 8), Fill(86, 8), Sub("mobile_id", pack_mobile_id_ie)>>

unpack_identity_response_msg == SkipHeader \o <<Sub("mobile_id", unpack_mobile_id_ie)>>

pack_security_mode_command_msg ==
  <<SecurityHeader, Fill(7, 8), Fill(93, 8),
    Sub("selected_nas_sec_algs", pack_nas_security_algorithms_ie), Fill(0, 4),
    Sub("nas_ksi", pack_nas_key_set_id_ie),
    Sub("ue_security_cap", pack_ue_security_capabilities_ie),
    PutTagged("imeisv_req_present", 4, 12, <<Sub("imeisv_req", pack_imeisv_request_ie)>>),
    PutTagged("nonce_ue_present", 8, 85, <<Sub("nonce_ue", pack_nonce_ie)>>),
    PutTagged("nonce_mme_present", 8, 86, <<Sub("nonce_mme", pack_nonce_ie)>>)>>

unpack_security_mode_command_msg ==
  SkipHeader \o
  <<Sub("selected_nas_sec_algs", unpack_nas_security_algorithms_ie), Skip(4),
    Sub("nas_ksi", unpack_nas_key_set_id_ie),
    Sub("ue_security_cap", unpack_ue_security_capabilities_ie),
    GetTagged("imeisv_req_present", 4, 12, <<Sub("imeisv_req", unpack_imeisv_request_ie)>>),
    GetTagged("nonce_ue_present", 8, 85, <<Sub("nonce_ue", unpack_nonce_ie)>>),
    GetTagged("nonce_mme_present", 8, 86, <<Sub("nonce_mme", unpack_nonce_ie)>>)>>

pack_security_mode_complete_msg ==
  <<SecurityHeader, Fill(7, 8), Fill(94, 8),
    PutTagged("imeisv_present", 8, 35, <<Sub("imeisv", pack_mobile_id_ie)>>)>>

unpack_security_mode_complete_msg ==
  SkipHeader \o
  <<GetTagged("imeisv_present", 8, 35, <<Sub("imeisv", unpack_mobile_id_ie)>>)>>

pack_security_mode_reject_msg == <<Fill(7, 8), Fill(95, 8), Sub("emm_cause", pack_emm_cause_ie)>>

unpack_security_mode_reject_msg == SkipHeader \o <<Sub("emm_cause", unpack_emm_cause_ie)>>

pack_service_reject_msg ==
  <<SecurityHeader, Fill(7, 8), Fill(78, 8), Sub("emm_cause", pack_emm_cause_ie),
    PutTagged("t3442_present", 8, 91, <<Sub("t3442", pack_gprs_timer_ie)>>),
    PutTagged("t3446_present", 8, 95, <<Sub("t3446", pack_gprs_timer_2_ie)>>)>>

unpack_service_reject_msg ==
  SkipHeader \o
  <<Sub("emm_cause", unpack_emm_cause_ie),
    GetTagged("t3442_present", 8, 91, <<Sub("t3442", unpack_gprs_timer_ie)>>),
    GetTagged("t3446_present", 8, 95, <<Sub("t3446", unpack_gprs_timer_2_ie)>>)>>

pack_service_request_msg ==
  <<Fill(199, 8), Sub("ksi_and_seq_num", pack_ksi_and_sequence_number_ie),
    Sub("short_mac", pack_short_mac_ie)>>

unpack_service_request_msg ==
  <<Skip(8), Sub("ksi_and_seq_num", unpack_ksi_and_sequence_number_ie),
    Sub("short_mac", unpack_short_mac_ie)>>

pack_tracking_area_update_accept_msg ==
  <<SecurityHeader, Fill(7, 8), Fill(73, 8), Fill(0, 4),
    Sub("eps_update_result", pack_eps_update_result_ie),
    PutTagged("t3412_present", 8, 90, <<Sub("t3412", pack_gprs_timer_ie)>>),
    PutTagged("guti_present", 8, 80, <<Sub("guti", pack_eps_mobile_id_ie)>>),
    PutTagged("tai_list_present", 8, 84, <<Sub("tai_list", pack_tracking_area_identity_list_ie)>>),
    PutTagged("eps_bearer_context_status_present", 8, 87,
      <<Sub("eps_bearer_context_status", pack_eps_bearer_context_status_ie)>>),
    PutTagged("lai_present", 8, 19, <<Sub("lai", pack_location_area_id_ie)>>),
    PutTagged("ms_id_present", 8, 35, <<Sub("ms_id", pack_mobile_id_ie)>>),
    PutTagged("emm_cause_present", 8, 83, <<Sub("emm_cause", pack_emm_cause_ie)>>),
    PutTagged("t3402_present", 8, 23, <<Sub("t3402", pack_gprs_timer_ie)>>),
    PutTagged("t3423_present", 8, 89, <<Sub("t3423", pack_gprs_timer_ie)>>),
    PutTagged("equivalent_plmns_present", 8, 74, <<Sub("equivalent_plmns", pack_plmn_list_ie)>>),
    PutTagged("emerg_num_list_present", 8, 52,
      <<Sub("emerg_num_list", pack_emergency_number_list_ie)>>),
    PutTagged("eps_network_feature_support_present", 8, 100,
      <<Sub("eps_network_feature_support", pack_eps_network_feature_support_ie)>>),
    PutTagged("additional_update_result_present", 4, 15,
      <<Sub("additional_update_result", pack_additional_update_result_ie)>>),
    PutTagged("t3412_ext_present", 8, 94, <<Sub("t3412_ext", pack_gprs_timer_3_ie)>>)>>

unpack_tracking_area_update_accept_msg ==
  SkipHeader \o
  <<Skip(4), Sub("eps_update_result", unpack_eps_update_result_ie),
    GetTagged("t3412_present", 8, 90, <<Sub("t3412", unpack_gprs_timer_ie)>>),
    GetTagged("guti_present", 8, 80, <<Sub("guti", unpack_eps_mobile_id_ie)>>),
    GetTagged("tai_list_present", 8, 84, <<Sub("tai_list", unpack_tracking_area_identity_list_ie)>>),
    GetTagged("eps_bearer_context_status_present", 8, 87,
      <<Sub("eps_bearer_context_status", unpack_eps_bearer_context_status_ie)>>),
    GetTagged("lai_present", 8, 19, <<Sub("lai", unpack_location_area_id_ie)>>),
    GetTagged("ms_id_present", 8, 35, <<Sub("ms_id", unpack_mobile_id_ie)>>),
    GetTagged("emm_cause_present", 8, 83, <<Sub("emm_cause", unpack_emm_cause_ie)>>),
    GetTagged("t3402_present", 8, 23, <<Sub("t3402", unpack_gprs_timer_ie)>>),
    GetTagged("t3423_present", 8, 89, <<Sub("t3423", unpack_gprs_timer_ie)>>),
    GetTagged("equivalent_plmns_present", 8, 74, <<Sub("equivalent_plmns", unpack_plmn_list_ie)>>),
    GetTagged("emerg_num_list_present", 8, 52,
      <<Sub("emerg_num_list", unpack_emergency_number_list_ie)>>),
    GetTagged("eps_network_feature_support_present", 8, 100,
      <<Sub("eps_network_feature_support", unpack_eps_network_feature_support_ie)>>),
    GetTagged("additional_update_result_present", 4, 15,
      <<Sub("additional_update_result", unpack_additional_update_result_ie)>>),
    GetTagged("t3412_ext_present", 8, 94, <<Sub("t3412_ext", unpack_gprs_timer_3_ie)>>)>>

pack_tracking_area_update_complete_msg == <<SecurityHeader, Fill(7, 8), Fill(74, 8)>>

unpack_tracking_area_update_complete_msg == SkipHeader

pack_tracking_area_update_reject_msg ==
  <<SecurityHeader, Fill(7, 8), Fill(75, 8), Sub("emm_cause", pack_emm_cause_ie),
    PutTagged("t3446_present", 8, 95, <<Sub("t3446", pack_gprs_timer_2_ie)>>)>>

unpack_tracking_area_update_reject_msg ==
  SkipHeader \o
  <<Sub("emm_cause", unpack_emm_cause_ie),
    GetTagged("t3446_present", 8, 95, <<Sub("t3446", unpack_gprs_timer_2_ie)>>)>>

pack_uplink_nas_transport_msg ==
  <<SecurityHeader, Fill(7, 8), Fill(99, 8), Sub("nas_msg", pack_nas_message_container_ie)>>

unpack_uplink_nas_transport_msg ==
  SkipHeader \o
  <<Sub("nas_msg", unpack_nas_message_container_ie)>>

pack_downlink_generic_nas_transport_msg ==
  <<SecurityHeader, Fill(7, 8), Fill(104, 8),
    Sub("generic_msg_cont_type", pack_generic_message_container_type_ie),
    Sub("generic_msg_cont", pack_generic_message_container_ie),
    Sub("add_info", pack_additional_information_ie)>>

unpack_downlink_generic_nas_transport_msg ==
  SkipHeader \o
  <<Sub("generic_msg_cont_type", unpack_generic_message_container_type_ie),
    Sub("generic_msg_cont", unpack_generic_message_container_ie),
    Sub("add_info", unpack_additional_information_ie)>>

pack_uplink_generic_nas_transport_msg ==
  <<SecurityHeader, Fill(7, 8), Fill(105, 8),
    Sub("generic_msg_cont_type", pack_generic_message_container_type_ie),
    Sub("generic_msg_cont", pack_generic_message_container_ie),
    Sub("add_info", pack_additional_information_ie)>>

unpack_uplink_generic_nas_transport_msg ==
  SkipHeader \o
  <<Sub("generic_msg_cont_type", unpack_generic_message_container_type_ie),
    Sub("generic_msg_cont", unpack_generic_message_container_ie),
    Sub("add_info", unpack_additional_information_ie)>>

============================================================================
